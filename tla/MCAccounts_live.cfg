\* Requests end, and an account that stays suspended is out in the end.
SPECIFICATION FairSpec
CONSTANTS
  Nobody = Nobody
  User = {a, b}
  Known = {a, b}
  Operator = {a}
  Session = {s1, s2}
  Link = {k1}
  Handler = {h1, h2}
  Served = {"login", "refresh", "suspend", "resend", "verify"}
  MaxPassword = 1
  MaxChanges = 2
PROPERTIES Answered SuspendedGoesOut
CHECK_DEADLOCK FALSE
