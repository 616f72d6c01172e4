\* Registration, links and password resets against the sessions of one account.
SPECIFICATION Spec
CONSTANTS
  Nobody = Nobody
  User = {a}
  Known = {}
  Operator = {}
  Session = {s1, s2}
  Link = {k1, k2}
  Handler = {h1, h2}
  Served = {"register", "resend", "verify", "login", "refresh", "logout", "forgot", "reset"}
  MaxPassword = 3
  MaxChanges = 0
SYMMETRY MCSymmetry
PROPERTIES AccountsPersist ResetSettles
CHECK_DEADLOCK FALSE
