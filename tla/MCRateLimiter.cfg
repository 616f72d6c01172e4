\* Logins, notifications and posts share a limiter that remembers two keys.
SPECIFICATION FairSpec
CONSTANTS
  e1 = e1
  g1 = g1
  n1 = n1
  r1 = r1
  u1 = u1
  NoKey = NoKey
  Key = {e1, g1, n1, r1, u1}
  RouteKey = {u1}
  LoginKey = {e1}
  RecipientKey = {r1}
  NotifyGlobal = n1
  Burst <- MCBurst
  Window <- MCWindow
  GlobalOf <- MCGlobalOf
  MaxKeys = 2
  Watched = {e1}
  Handler = {h1, h2}
INVARIANTS TypeOK ListAgrees DebtBounded TwiceTheBurst
PROPERTIES ActsAsBuckets NoLockout
CHECK_DEADLOCK FALSE
