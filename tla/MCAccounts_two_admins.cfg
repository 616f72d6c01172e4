\* Two demotions at once leave no admin.
SPECIFICATION Spec
CONSTANTS
  Nobody = Nobody
  User = {a, b}
  Known = {a, b}
  Operator = {a, b}
  Session = {s1}
  Link = {}
  Handler = {h1, h2}
  Served = {"role"}
  MaxPassword = 1
  MaxChanges = 2
PROPERTY AdminRemains
CHECK_DEADLOCK FALSE
