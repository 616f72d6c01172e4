-------------------------- MODULE AccountsProperties --------------------------
(***************************************************************************)
(* What Accounts must guarantee, and what the repository says of it that   *)
(* its interleavings do not bear out.                                      *)
(***************************************************************************)
EXTENDS Accounts

\* The shape of the tables and of the requests being served.
TypeOK ==
  /\ account \in [User -> Account]
  /\ session \in [Session -> SessionRow]
  /\ link \in [Link -> LinkRow]
  /\ ledger \in [User -> Seq(Entry)]
  /\ req \in [Handler -> Request]

-----------------------------------------------------------------------------
(* Invariants. *)

\* "An action that is not logged did not happen, and a log row for a change
\* that failed is a lie" (Audited).  Whatever changes race for an account, every
\* suspension but the one that stands has its reinstatement in the ledger, and
\* an account is verified by hand once.  The row about the role or the suspension
\* that the ledger shows first (newest created_at) says what the account now is,
\* unless the change it tells of was overtaken: one that had begun before it was
\* committed after it.
About(u, matter) == {i \in 1..Len(ledger[u]) : ledger[u][i].matter = matter}
ShownFirst(u, matter) ==
  {i \in About(u, matter) : \A j \in About(u, matter) : ledger[u][j].at <= ledger[u][i].at}
Overtaken(u, matter, i) ==
  \E j \in About(u, matter) : i < j /\ ledger[u][j].at <= ledger[u][i].at

Tells(u, matter, initial, current) ==
  /\ About(u, matter) = {} => current = initial
  /\ \A i \in ShownFirst(u, matter) : ledger[u][i].to = current \/ Overtaken(u, matter, i)

Suspension(a) == IF a.suspended THEN "suspended" ELSE "active"
Told(u, to) == Cardinality({i \in About(u, "suspension") : ledger[u][i].to = to})

LedgerAgrees ==
  \A u \in User :
    /\ Tells(u, "role", IF u \in Operator THEN "admin" ELSE "user", account[u].role)
    /\ Tells(u, "suspension", "active", Suspension(account[u]))
    /\ Told(u, "suspended") = Told(u, "active") + IF account[u].suspended THEN 1 ELSE 0
    /\ \A i, j \in About(u, "verification") : i = j /\ account[u].verified

-----------------------------------------------------------------------------
(* Action properties. *)

\* Registering an identity twice at once, or verifying and resetting beside it,
\* never takes back an account, its verification or a password set since.
AccountsPersist ==
  [][\A u \in User : account[u].exists =>
       /\ account'[u].exists
       /\ account[u].verified => account'[u].verified
       /\ account'[u].password >= account[u].password]_vars

\* Requests that found u's account allowed a session and have yet to store it.
Entering(u) == {h \in Handler : req[h].pc \in {"rotate", "start_session"} /\ req[h].user = u}

\* Suspending settles: while an account is suspended no login and no refresh
\* gets past its check, and once those that had are gone, the account's refresh
\* and access tokens only become fewer.
SuspensionSettles ==
  [][\A u \in User : account[u].suspended =>
       /\ Entering(u)' \subseteq Entering(u)
       /\ Entering(u) = {} => \A s \in Session :
            /\ session'[s].live /\ session'[s].user = u => session[s].live /\ session[s].user = u
            /\ session'[s].access /\ session'[s].user = u => session[s].access /\ session[s].user = u]_vars

\* A password reset evicts for good: once neither a live session nor a request
\* traces back to an older password, none ever does again, by any rotation,
\* until the password changes again.
Evicted(u) ==
  /\ \A s \in Session : session[s].live /\ session[s].user = u
                          => session[s].password = account[u].password
  /\ \A h \in Handler : req[h].op \in {"login", "refresh"} /\ req[h].user = u
                          => req[h].password = account[u].password

ResetSettles ==
  [][\A u \in User : Evicted(u) /\ account'[u].password = account[u].password => Evicted(u)']_vars

\* The site never loses its last admin (ErrLastAdmin).
AdminRemains == [][Admins # {} => Admins' # {}]_vars

-----------------------------------------------------------------------------
(* Liveness. *)

\* Every request is answered and every admin's change ends, although changes
\* wait for each other's row locks.
Answered == \A h \in Handler : Serving(h) ~> ~Serving(h)

\* "The access token already issued keeps working for at most its
\* fifteen-minute life" (Suspend): an account that stays suspended is out for
\* good in the end, however often its clients refresh.
Out(u) == \A s \in Session : session[s].user = u => ~session[s].access
SuspendedGoesOut == \A u \in User : <>[]account[u].suspended => <>[]Out(u)

-----------------------------------------------------------------------------
(* What the repository says and an interleaving refutes. *)

\* "What has been done to one account or post, newest first" (admin.sql): the
\* row that the ledger shows first about an account's suspension says whether
\* the account is suspended.
NewestFirst ==
  \A u \in User : \A i \in ShownFirst(u, "suspension") :
    ledger[u][i].to = Suspension(account[u])

\* "Suspend suspends an account and ends every session it has" (accounts.go).
SuspensionEndsSessions == \A u \in User : account[u].suspended => LiveSessions(u) = {}

===============================================================================
