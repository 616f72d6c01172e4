\* One post between its owner and the moderators, two requests at a time.
SPECIFICATION Spec
CONSTANTS
  Post = {p1}
  Handler = {h1, h2}
  Null = Null
  NoReason = NoReason
  Reason = {x1, x2}
  Sheet <- MCSheet
  Patch <- MCPatch
  MaxLives = 2
  MaxChanges = 2
SYMMETRY MCSymmetry
INVARIANTS TypeOK LedgerAgrees RowsHold
PROPERTIES TakedownSettles ArchiveSettles EditsLand
CHECK_DEADLOCK FALSE
