\* Every request is answered, and the conversations implement Thread.
SPECIFICATION FairSpec
CONSTANTS
  o = o
  s = s
  l1 = l1
  Nobody = Nobody
  User = {o, s}
  Listing = {l1}
  Post = {r1}
  Owner <- MCOwner
  Poster <- MCPoster
  Verified = {o, s}
  Addressed = {l1}
  Handler = {h1, h2}
  Served = {"start", "send", "close", "share", "offer", "withdraw"}
  Changing = {}
  MaxMessages = 3
INVARIANT TypeOK
PROPERTIES Answered KeepsThePromise
CHECK_DEADLOCK FALSE
