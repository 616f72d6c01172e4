\* Starting, writing, closing and sharing, with moderation going on.
SPECIFICATION Spec
CONSTANTS
  o = o
  s = s
  l1 = l1
  Nobody = Nobody
  User = {o, s}
  Listing = {l1}
  Post = {}
  Owner <- MCOwner
  Poster <- MCPoster
  Verified = {o, s}
  Addressed = {l1}
  Handler = {h1, h2, h3}
  Served = {"start", "send", "close", "share"}
  Changing = {"status", "takedown", "suspension"}
  MaxMessages = 3
SYMMETRY MCSymmetry
PROPERTIES ShareIsDeliberate CloseSettles
CHECK_DEADLOCK FALSE
