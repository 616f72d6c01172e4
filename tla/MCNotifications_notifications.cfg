\* The emails of one conversation while it is written to, read and shut down.
SPECIFICATION FairSpec
CONSTANTS
  Owner = Owner
  Enquirer = Enquirer
  Nobody = Nobody
  MaxEvents = 3
  MaxReaders = 2
  MaxClock = 4
INVARIANTS TypeOK FirstUnreadTold
PROPERTIES SecondIsEarlier ShutdownCutsNothing ShutdownEnds
CHECK_DEADLOCK FALSE
