\* Offers that open, join and reopen, against starts, closes and withdrawals.
SPECIFICATION Spec
CONSTANTS
  o = o
  s = s
  l1 = l1
  Nobody = Nobody
  User = {o, s}
  Listing = {l1}
  Post = {r1, r2}
  Owner <- MCOwner
  Poster <- MCPoster
  Verified = {o, s}
  Addressed = {l1}
  Handler = {h1, h2}
  Served = {"start", "close", "offer", "withdraw"}
  Changing = {"request"}
  MaxMessages = 3
SYMMETRY MCSymmetry
INVARIANTS OpenedForAReason OffersHaveConversation OneWinner
PROPERTIES ClosureStands
CHECK_DEADLOCK FALSE
