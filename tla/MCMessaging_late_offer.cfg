\* An offer made beside the poster's close.
SPECIFICATION Spec
CONSTANTS
  o = o
  s = s
  l1 = l1
  Nobody = Nobody
  User = {o, s}
  Listing = {l1}
  Post = {r1}
  Owner <- MCOwner
  Poster <- MCPoster
  Verified = {o, s}
  Addressed = {l1}
  Handler = {h1, h2}
  Served = {"start", "close", "offer"}
  Changing = {}
  MaxMessages = 3
PROPERTY OfferRespectsRefusal
CHECK_DEADLOCK FALSE
