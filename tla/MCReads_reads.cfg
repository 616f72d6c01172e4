\* The reads over two listings, one housing request and one conversation.
SPECIFICATION Spec
CONSTANTS
  Host = Host
  Student = Student
  Stranger = Stranger
  Null = Null
  MaxListings = 2
  Terms <- MCTerms
  Wishes <- MCWishes
  Talked = {1}
  MaxMessages = 2
  Filters <- MCFilters
  Walked <- MCWalked
  Sizes = {0, 3}
  defaultPerPage = 1
  maxPerPage = 2
  MaxChanges = 2
INVARIANTS TypeOK ReadsAgree CountsAgree PagesTile WalkFair InboxAgrees AddressStaysPrivate
CHECK_DEADLOCK FALSE
