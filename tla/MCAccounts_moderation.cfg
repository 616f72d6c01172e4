\* Sessions and changes of two accounts, one of them an admin, two at a time.
SPECIFICATION Spec
CONSTANTS
  Nobody = Nobody
  User = {a, b}
  Known = {a, b}
  Operator = {a}
  Session = {s1, s2}
  Link = {}
  Handler = {h1, h2}
  Served = {"login", "refresh", "logout", "suspend", "reinstate", "approve", "role"}
  MaxPassword = 1
  MaxChanges = 2
SYMMETRY MCSymmetry
INVARIANTS TypeOK LedgerAgrees
PROPERTY SuspensionSettles
CHECK_DEADLOCK FALSE
