---------------------------- MODULE AccountsProofs ----------------------------
(***************************************************************************)
(* Proofs, for any users, tokens, links and handlers, of properties of     *)
(* Accounts.                                                               *)
(***************************************************************************)
EXTENDS AccountsProperties, FiniteSetTheorems, TLAPS

\* Sessions are stored by logins and refreshes, changes made by admins.
StepFits(q) ==
  /\ q.pc \in {"refresh_user", "rotate", "start_session"} =>
       q.op \in {"login", "refresh"} /\ q.user \in User
  /\ q.pc \in {"read_role", "admin_update", "commit"} => q.op \in AdminOp /\ q.user \in User

\* Live refresh tokens are somebody's.
Owned == \A s \in Session : session[s].live => session[s].user \in User

AccountsInv == TypeOK /\ Owned /\ \A h \in Handler : StepFits(req[h])

-----------------------------------------------------------------------------
(* Lemmas on requests. *)

LEMMA IdleFits == Idle \in Request /\ StepFits(Idle)
BY DEF Idle, Ask, Request, Step, StepFits, Role

LEMMA AskType ==
  ASSUME NEW op \in Op, NEW pc \in Step, NEW u \in User \cup {Nobody},
         NEW t \in Session \cup Link \cup {Nobody},
         NEW role \in Role, NEW before \in Role, NEW password \in Nat
  PROVE  Ask(op, pc, u, t, role, before, password) \in Request
BY DEF Ask, Request

\* A change is asked for with the time its transaction began.
LEMMA BeginAsks ==
  ASSUME NEW h \in Handler, NEW q \in Request, Begin(h, q)
  PROVE  /\ UNCHANGED db
         /\ \E r \in Request :
              /\ Accept(h, r)
              /\ r.op = q.op /\ r.pc = q.pc /\ r.user = q.user /\ (StepFits(q) => StepFits(r))
<1>1. PICK n \in Nat : Accept(h, [q EXCEPT !.began = n])
  BY AccountsAssumption DEF Begin
<1>2. PICK r \in Request : r = [q EXCEPT !.began = n]
  BY DEF Request
<1>3. r.op = q.op /\ r.pc = q.pc /\ r.user = q.user
  BY <1>2 DEF Request
<1> QED BY <1>1, <1>2, <1>3 DEF Begin, StepFits

\* The requests of admins are the changes of accounts.
AsksChange(h) ==
  \/ \E u \in User, role \in Role : ChangeRole(h, u, role)
  \/ \E a, u \in User, op \in AdminOp : ModerateAccount(h, a, u, op)

LEMMA ChangeAsks ==
  ASSUME NEW h \in Handler, AsksChange(h)
  PROVE  /\ UNCHANGED db
         /\ \E q \in Request :
              /\ Accept(h, q) /\ StepFits(q) /\ account[q.user].exists
              /\ q.op \in AdminOp /\ q.pc \in {"read_role", "admin_update"}
<1> USE DEF Step, Op, AdminOp, Role
<1>1. ASSUME NEW u \in User, NEW role \in Role, ChangeRole(h, u, role)
      PROVE  \E q \in Request :
               /\ Begin(h, q) /\ StepFits(q) /\ account[q.user].exists
               /\ q.op \in AdminOp /\ q.pc \in {"read_role", "admin_update"}
  <2>1. PICK q \in Request : q = Ask("role", "read_role", u, Nobody, role, "user", 0)
    BY AskType
  <2>2. /\ q.op = "role" /\ q.pc = "read_role" /\ q.user = u /\ StepFits(q)
        /\ Begin(h, q) /\ account[u].exists
    BY <1>1, <2>1 DEF ChangeRole, Ask, StepFits
  <2> QED BY <2>2
<1>2. ASSUME NEW a \in User, NEW u \in User, NEW op \in AdminOp, ModerateAccount(h, a, u, op)
      PROVE  \E q \in Request :
               /\ Begin(h, q) /\ StepFits(q) /\ account[q.user].exists
               /\ q.op \in AdminOp /\ q.pc \in {"read_role", "admin_update"}
  <2>1. PICK q \in Request : q = Ask(op, "admin_update", u, Nobody, "user", "user", 0)
    BY AskType
  <2>2. /\ q.op = op /\ q.pc = "admin_update" /\ q.user = u /\ StepFits(q)
        /\ Begin(h, q) /\ account[u].exists
    BY <1>2, <2>1 DEF ModerateAccount, Ask, StepFits
  <2> QED BY <2>2
<1>3. PICK q \in Request :
        /\ Begin(h, q) /\ StepFits(q) /\ account[q.user].exists
        /\ q.op \in AdminOp /\ q.pc \in {"read_role", "admin_update"}
  BY <1>1, <1>2 DEF AsksChange
<1>4. PICK r \in Request :
        /\ Accept(h, r)
        /\ r.op = q.op /\ r.pc = q.pc /\ r.user = q.user /\ (StepFits(q) => StepFits(r))
  BY <1>3, BeginAsks
<1> QED BY <1>3, <1>4, BeginAsks

LEMMA AcceptInv ==
  ASSUME AccountsInv, NEW h \in Handler, NEW q \in Request, StepFits(q), Accept(h, q)
  PROVE  req' \in [Handler -> Request] /\ \A g \in Handler : StepFits(req'[g])
BY DEF Accept, AccountsInv, TypeOK

LEMMA FinishInv ==
  ASSUME AccountsInv, NEW h \in Handler, Finish(h)
  PROVE  req' \in [Handler -> Request] /\ \A g \in Handler : StepFits(req'[g])
BY IdleFits DEF Finish, AccountsInv, TypeOK

LEMMA GotoInv ==
  ASSUME AccountsInv, NEW h \in Handler, NEW pc \in Step, Goto(h, pc),
         StepFits([req[h] EXCEPT !.pc = pc])
  PROVE  req' \in [Handler -> Request] /\ \A g \in Handler : StepFits(req'[g])
<1>1. [req[h] EXCEPT !.pc = pc] \in Request
  BY DEF AccountsInv, TypeOK, Request
<1>2. req' = [req EXCEPT ![h] = [req[h] EXCEPT !.pc = pc]]
  BY DEF Goto
<1> QED BY <1>1, <1>2 DEF AccountsInv, TypeOK

\* Going on to a step of no session and no change.
LEMMA GotoPlainInv ==
  ASSUME AccountsInv, NEW h \in Handler, NEW pc \in Step, Goto(h, pc),
         pc \notin {"refresh_user", "rotate", "start_session", "read_role", "admin_update", "commit"}
  PROVE  req' \in [Handler -> Request] /\ \A g \in Handler : StepFits(req'[g])
<1>1. [req[h] EXCEPT !.pc = pc].pc = pc
  BY DEF AccountsInv, TypeOK, Request
<1> QED BY <1>1, GotoInv DEF StepFits

\* Revoking leaves rows, and brings none back.
LEMMA RevokedType ==
  ASSUME session \in [Session -> SessionRow], NEW S
  PROVE  /\ Revoked(S) \in [Session -> SessionRow]
         /\ \A s \in Session :
              /\ Revoked(S)[s].live => session[s].live
              /\ Revoked(S)[s].user = session[s].user /\ Revoked(S)[s].access = session[s].access
              /\ Revoked(S)[s].password = session[s].password
BY DEF Revoked, SessionRow

-----------------------------------------------------------------------------
(* The invariant. *)

LEMMA InitInv == Init => AccountsInv
<1> SUFFICES ASSUME Init PROVE AccountsInv
  OBVIOUS
<1>1. account \in [User -> Account]
  BY DEF Init, Account, NewAccount, NoAccount, Role
<1>2. session \in [Session -> SessionRow]
  BY DEF Init, SessionRow, NoSession, Role
<1>3. link \in [Link -> LinkRow]
  BY DEF Init, LinkRow, NoLink
<1>4. ledger \in [User -> Seq(Entry)]
  BY DEF Init
<1>5. Owned
  BY DEF Init, NoSession, Owned
<1> QED BY <1>1, <1>2, <1>3, <1>4, <1>5, IdleFits DEF Init, AccountsInv, TypeOK

\* Requests begin with what their tables hold.
LEMMA ArriveInv ==
  ASSUME AccountsInv, NEW h \in Handler, Arrive(h)
  PROVE  AccountsInv'
<1> DEFINE Asked == \E q \in Request : StepFits(q) /\ Accept(h, q)
<1>0. AsksChange(h) => Asked
  BY ChangeAsks
<1> USE DEF Step, Op, AdminOp, Role
<1>1. ASSUME NEW u \in User,
             Register(h, u) \/ ResendVerification(h, u) \/ RequestPasswordReset(h, u)
      PROVE  Asked
  BY <1>1, AskType DEF Register, ResendVerification, RequestPasswordReset, Ask, StepFits
<1>2. ASSUME NEW u \in User, Login(h, u) PROVE Asked
  <2>1. account[u].role \in Role /\ account[u].password \in Nat
    BY DEF AccountsInv, TypeOK, Account
  <2> QED BY <1>2, <2>1, AskType DEF Login, Ask, StepFits
<1>3. ASSUME NEW l \in Link, VerifyEmail(h, l) \/ ConfirmPasswordReset(h, l) PROVE Asked
  <2>1. PICK u \in User \cup {Nobody} : u = link[l].user
    BY DEF AccountsInv, TypeOK, LinkRow
  <2>2. CASE VerifyEmail(h, l)
    <3>1. Accept(h, Ask("verify", "verify_consume", u, l, "user", "user", 0))
      BY <2>1, <2>2 DEF VerifyEmail
    <3> QED BY <2>1, <3>1, AskType DEF Ask, StepFits
  <2>3. CASE ConfirmPasswordReset(h, l)
    <3>1. Accept(h, Ask("reset", "reset_password", u, l, "user", "user", 0))
      BY <2>1, <2>3 DEF ConfirmPasswordReset
    <3> QED BY <2>1, <3>1, AskType DEF Ask, StepFits
  <2> QED BY <1>3, <2>2, <2>3
<1>4. ASSUME NEW s \in Session, RefreshSession(h, s) PROVE Asked
  <2>1. session[s].user \in User /\ session[s].password \in Nat
    BY <1>4 DEF RefreshSession, AccountsInv, Owned, TypeOK, SessionRow
  <2> QED BY <1>4, <2>1, AskType DEF RefreshSession, Ask, StepFits
<1>5. Asked
  BY <1>0, <1>1, <1>2, <1>3, <1>4 DEF Arrive, AdminCommand, SetAdminUserRole, AsksChange
<1>6. UNCHANGED db
  <2>1. CASE AsksChange(h)
    BY <2>1, ChangeAsks
  <2> QED BY <2>1 DEF Arrive, Register, ResendVerification, RequestPasswordReset, Login,
     VerifyEmail, ConfirmPasswordReset, RefreshSession, AdminCommand, SetAdminUserRole, AsksChange
<1> QED BY <1>5, <1>6, AcceptInv DEF AccountsInv, Owned, TypeOK, db

\* A change's ledger row is one, whatever the change.
LEMMA DetailType ==
  ASSUME AccountsInv, NEW h \in Handler, req[h].pc = "commit"
  PROVE  Detail(h) \in Entry
<1>1. /\ req[h].op \in AdminOp /\ req[h].role \in Role /\ req[h].before \in Role
      /\ req[h].began \in Nat
  BY DEF AccountsInv, TypeOK, StepFits, Request
<1> QED BY <1>1 DEF Detail, Row, AdminOp, Entry, Role

\* Every next step of a handler writes rows of the tables' shapes.
LEMMA TablesKept ==
  ASSUME AccountsInv, NEW h \in Handler, Serve(h)
  PROVE  /\ account' \in [User -> Account] /\ session' \in [Session -> SessionRow] /\ Owned'
         /\ link' \in [Link -> LinkRow] /\ ledger' \in [User -> Seq(Entry)]
<1> USE DEF AccountsInv, TypeOK
<1>1. account' \in [User -> Account]
  <2>1. CASE CreateUser(h)
    <3>1. NewAccount \in Account
      BY DEF NewAccount, Account, Role
    <3> QED BY <2>1, <3>1 DEF CreateUser
  <2>2. CASE VerifyMark(h)
    BY <2>2 DEF VerifyMark, Account
  <2>3. CASE ResetPassword(h)
    <3>1. \A u \in User : account[u].password + 1 \in Nat
      BY DEF Account
    <3>2. \A u \in User : [account[u] EXCEPT !.password = account[u].password + 1] \in Account
      BY <3>1 DEF Account
    <3>3. account' = [account EXCEPT ![req[h].user] =
                        [account[req[h].user] EXCEPT !.password = account[req[h].user].password + 1]]
      BY <2>3 DEF ResetPassword
    <3> QED BY <3>2, <3>3
  <2>4. CASE Commit(h)
    <3>1. req[h].op \in AdminOp /\ req[h].user \in User /\ req[h].role \in Role
      BY <2>4 DEF Commit, StepFits, Request
    <3>2. PICK a \in Account : a = account[req[h].user]
      BY <3>1
    <3>3. /\ [a EXCEPT !.suspended = TRUE] \in Account
          /\ [a EXCEPT !.suspended = FALSE] \in Account
          /\ [a EXCEPT !.verified = TRUE] \in Account
          /\ [a EXCEPT !.role = req[h].role] \in Account
      BY <3>1 DEF Account
    <3>4. Changed(h) \in Account
      BY <3>1, <3>2, <3>3 DEF Changed, AdminOp
    <3> QED BY <2>4, <3>4 DEF Commit
  <2>5. CASE account' = account
    BY <2>5
  <2> QED BY <2>1, <2>2, <2>3, <2>4, <2>5 DEF Serve, ConsumeLinks, IssueLink, VerifyConsume,
     StartSession, RefreshUser, RefuseRefresh, Rotate, ResetConsume, ResetRevoke, ReadRole, AdminUpdate, db
<1>2. session' \in [Session -> SessionRow] /\ Owned'
  <2>1. CASE StartSession(h)
    <3>1. req[h].user \in User /\ req[h].role \in Role /\ req[h].password \in Nat
      BY <2>1 DEF StartSession, StepFits, Request
    <3>2. PICK r \in SessionRow :
            r = [user |-> req[h].user, live |-> TRUE, access |-> TRUE, role |-> req[h].role,
                 password |-> req[h].password]
      BY <3>1 DEF SessionRow
    <3>3. PICK s \in Session : session' = [session EXCEPT ![s] = r]
      BY <2>1, <3>2 DEF StartSession
    <3> QED BY <3>1, <3>2, <3>3 DEF Owned
  <2>2. CASE \E S : session' = Revoked(S)
    BY <2>2, RevokedType DEF Owned
  <2>3. CASE session' = session
    BY <2>3 DEF Owned
  <2> QED BY <2>1, <2>2, <2>3 DEF Serve, CreateUser, ConsumeLinks, IssueLink, VerifyConsume,
     VerifyMark, RefreshUser, RefuseRefresh, Rotate, ResetPassword, ResetConsume, ResetRevoke, ReadRole,
     AdminUpdate, Commit, db
<1>3. link' \in [Link -> LinkRow]
  <2>1. CASE IssueLink(h)
    <3>1. req[h].user \in User \cup {Nobody} /\ Kind(h) \in {"verify", "reset"}
      BY DEF Request, Kind
    <3>2. [user |-> req[h].user, kind |-> Kind(h), live |-> TRUE] \in LinkRow
      BY <3>1 DEF LinkRow
    <3> QED BY <2>1, <3>2 DEF IssueLink
  <2>2. CASE ConsumeLinks(h) \/ VerifyConsume(h) \/ ResetConsume(h)
    <3>1. \A l \in Link : [link[l] EXCEPT !.live = FALSE] \in LinkRow
      BY DEF LinkRow
    <3>2. CASE ConsumeLinks(h)
      BY <3>1, <3>2 DEF ConsumeLinks
    <3>3. CASE link' = [link EXCEPT ![req[h].token] = [link[req[h].token] EXCEPT !.live = FALSE]]
      BY <3>1, <3>3
    <3> QED BY <2>2, <3>2, <3>3 DEF VerifyConsume, ResetConsume
  <2>3. CASE link' = link
    BY <2>3
  <2> QED BY <2>1, <2>2, <2>3 DEF Serve, CreateUser, VerifyMark, StartSession, RefreshUser,
     RefuseRefresh, Rotate, ResetPassword, ResetRevoke, ReadRole, AdminUpdate, Commit, db
<1>4. ledger' \in [User -> Seq(Entry)]
  <2>1. CASE Commit(h)
    <3>1. PICK e \in Entry : e = Detail(h)
      BY <2>1, DetailType DEF Commit
    <3>2. e = Detail(h)
      BY <3>1
    <3>3. \A u \in User : Append(ledger[u], e) \in Seq(Entry)
      OBVIOUS
    <3>4. PICK u : u = req[h].user
      OBVIOUS
    <3>5. ledger' = [ledger EXCEPT ![u] = Append(ledger[u], e)]
      BY <2>1, <3>2, <3>4 DEF Commit
    <3> QED BY <3>3, <3>5
  <2>2. CASE ledger' = ledger
    BY <2>2
  <2> QED BY <2>1, <2>2 DEF Serve, CreateUser, ConsumeLinks, IssueLink, VerifyConsume, VerifyMark,
     StartSession, RefreshUser, RefuseRefresh, Rotate, ResetPassword, ResetConsume, ResetRevoke, ReadRole,
     AdminUpdate, db
<1> QED BY <1>1, <1>2, <1>3, <1>4

\* The requests stay of their shape, and fit for their next steps.
LEMMA RequestsKept ==
  ASSUME AccountsInv, NEW h \in Handler, Serve(h)
  PROVE  req' \in [Handler -> Request] /\ \A g \in Handler : StepFits(req'[g])
<1> DEFINE Kept == req' \in [Handler -> Request] /\ \A g \in Handler : StepFits(req'[g])
<1>1. CASE Finish(h)
  BY <1>1, FinishInv
<1>2. CASE \E pc \in {"consume_links", "issue_link", "verify_mark", "reset_consume", "reset_revoke"} :
             Goto(h, pc)
  BY <1>2, GotoPlainInv DEF Step
<1>3. PICK q \in Request : q = req[h] /\ StepFits(q)
  BY DEF AccountsInv, TypeOK
<1>4. ASSUME NEW r \in Request, StepFits(r), req' = [req EXCEPT ![h] = r] PROVE Kept
  BY <1>4 DEF AccountsInv, TypeOK
<1>5. CASE RefreshUser(h)
  <2>1. q.pc = "refresh_user" /\ q.op \in {"login", "refresh"} /\ q.user \in User
    BY <1>3, <1>5 DEF RefreshUser, StepFits
  <2>2. PICK role \in Role : role = account[q.user].role
    BY <2>1 DEF AccountsInv, TypeOK, Account
  <2>3. PICK pc \in {"refuse_refresh", "rotate"} :
          pc = IF account[q.user].suspended THEN "refuse_refresh" ELSE "rotate"
    OBVIOUS
  <2>4. [q EXCEPT !.pc = pc, !.role = role] \in Request
    BY DEF Request, Step
  <2>5. StepFits([q EXCEPT !.pc = pc, !.role = role])
    BY <2>1 DEF StepFits, Request
  <2>6. req' = [req EXCEPT ![h] = [q EXCEPT !.pc = pc, !.role = role]]
    BY <1>3, <1>5, <2>2, <2>3 DEF RefreshUser
  <2> QED BY <1>4, <2>4, <2>5, <2>6
<1>6. CASE Rotate(h)
  <2>1. [q EXCEPT !.pc = "start_session"] \in Request /\ StepFits([q EXCEPT !.pc = "start_session"])
    BY <1>3, <1>6 DEF Rotate, StepFits, Request, Step
  <2> QED BY <1>3, <1>4, <1>6, <2>1 DEF Rotate, Goto
<1>7. CASE AdminUpdate(h) /\ ~Refused(h)
  <2>1. q.pc = "admin_update"
    BY <1>3, <1>7 DEF AdminUpdate
  <2>2. PICK S \in SUBSET Session :
          S = IF q.op \in {"suspend", "role"} THEN LiveSessions(q.user) ELSE {}
    BY DEF LiveSessions
  <2>3. /\ [q EXCEPT !.pc = "commit", !.seen = S] \in Request
        /\ StepFits([q EXCEPT !.pc = "commit", !.seen = S])
    BY <1>3, <2>1, <2>2 DEF StepFits, Request, Step
  <2>4. req' = [req EXCEPT ![h] = [q EXCEPT !.pc = "commit", !.seen = S]]
    BY <1>3, <1>7, <2>2 DEF AdminUpdate
  <2> QED BY <1>4, <2>3, <2>4
<1>8. CASE ReadRole(h) /\ ~Finish(h)
  <2>1. q.pc = "read_role" /\ q.op \in AdminOp /\ q.user \in User
    BY <1>3, <1>8 DEF ReadRole, StepFits
  <2>2. PICK role \in Role : role = account[q.user].role
    BY <2>1 DEF AccountsInv, TypeOK, Account
  <2>3. /\ [q EXCEPT !.pc = "admin_update", !.before = role] \in Request
        /\ StepFits([q EXCEPT !.pc = "admin_update", !.before = role])
    BY <2>1 DEF StepFits, Request, Step
  <2>4. req' = [req EXCEPT ![h] = [q EXCEPT !.pc = "admin_update", !.before = role]]
    BY <1>3, <1>8, <2>2 DEF ReadRole
  <2> QED BY <1>4, <2>3, <2>4
<1> QED BY <1>1, <1>2, <1>5, <1>6, <1>7, <1>8 DEF Serve, CreateUser, ConsumeLinks, IssueLink,
   VerifyConsume, VerifyMark, StartSession, RefuseRefresh, ResetPassword, ResetConsume,
   ResetRevoke, ReadRole, AdminUpdate, Commit

LEMMA ServeInv ==
  ASSUME AccountsInv, NEW h \in Handler, Serve(h)
  PROVE  AccountsInv'
BY TablesKept, RequestsKept DEF AccountsInv, TypeOK

\* Time passes, clients log out.
LEMMA TimeInv ==
  ASSUME AccountsInv,
         \/ \E s \in Session : Logout(s) \/ AccessExpires(s) \/ SessionExpires(s)
         \/ \E l \in Link : LinkExpires(l)
  PROVE  AccountsInv'
<1> USE DEF AccountsInv, TypeOK
<1>1. CASE \E s \in Session : Logout(s) \/ SessionExpires(s)
  BY <1>1, RevokedType DEF Logout, SessionExpires, Owned
<1>2. ASSUME NEW s \in Session, AccessExpires(s) PROVE AccountsInv'
  <2>1. [session[s] EXCEPT !.access = FALSE] \in SessionRow
    BY DEF SessionRow
  <2>2. session' = [session EXCEPT ![s] = [session[s] EXCEPT !.access = FALSE]]
    BY <1>2 DEF AccessExpires
  <2>3. session' \in [Session -> SessionRow]
    BY <2>1, <2>2
  <2>4. Owned'
    BY <2>1, <2>2 DEF Owned, SessionRow
  <2> QED BY <1>2, <2>3, <2>4 DEF AccessExpires
<1>3. ASSUME NEW l \in Link, LinkExpires(l) PROVE AccountsInv'
  <2>1. [link[l] EXCEPT !.live = FALSE] \in LinkRow
    BY DEF LinkRow
  <2>2. link' = [link EXCEPT ![l] = [link[l] EXCEPT !.live = FALSE]]
    BY <1>3 DEF LinkExpires
  <2> QED BY <1>3, <2>1, <2>2 DEF LinkExpires, Owned
<1> QED BY <1>1, <1>2, <1>3

\* Every step keeps the invariant.
LEMMA NextInv == AccountsInv /\ [Next]_vars => AccountsInv'
<1> SUFFICES ASSUME AccountsInv, [Next]_vars PROVE AccountsInv'
  OBVIOUS
<1>1. ASSUME NEW h \in Handler, Arrive(h) PROVE AccountsInv'
  BY <1>1, ArriveInv
<1>2. ASSUME NEW h \in Handler, Serve(h) PROVE AccountsInv'
  BY <1>2, ServeInv
<1>3. ASSUME NEW h \in Handler, Abandon(h) PROVE AccountsInv'
  BY <1>3, FinishInv DEF Abandon, AccountsInv, Owned, TypeOK, db
<1>4. CASE UNCHANGED vars
  BY <1>4 DEF vars, AccountsInv, Owned, TypeOK
<1> QED BY <1>1, <1>2, <1>3, <1>4, TimeInv DEF Next

\* The invariant of accounts: tables and requests keep their shape, live
\* refresh tokens are somebody's, and only logins and refreshes of an account
\* store sessions, only admins' changes of one wait for its row.
THEOREM Invariance == Spec => []AccountsInv
BY InitInv, NextInv, PTL DEF Spec

\* Type correctness, for any number of users, tokens, links and handlers.
THEOREM TypeCorrect == Spec => []TypeOK
<1>1. AccountsInv => TypeOK
  BY DEF AccountsInv
<1> QED BY <1>1, Invariance, PTL

-----------------------------------------------------------------------------
(* No account, verification or password is taken back. *)

Persists(u) ==
  account[u].exists =>
    /\ account'[u].exists
    /\ account[u].verified => account'[u].verified
    /\ account'[u].password >= account[u].password

LEMMA PersistsStep ==
  ASSUME AccountsInv, [Next]_vars, NEW u \in User
  PROVE  Persists(u)
<1>1. PICK a \in Account : a = account[u]
  BY DEF AccountsInv, TypeOK
<1>2. ASSUME NEW h \in Handler, CreateUser(h) PROVE Persists(u)
  <2>1. ~account[u].exists \/ account'[u] = account[u]
    BY <1>2 DEF CreateUser, AccountsInv, TypeOK
  <2> QED BY <1>1, <2>1 DEF Persists, Account
<1>3. ASSUME NEW h \in Handler, VerifyMark(h) PROVE Persists(u)
  BY <1>1, <1>3 DEF VerifyMark, Persists, Account, AccountsInv, TypeOK
<1>4. ASSUME NEW h \in Handler, ResetPassword(h) PROVE Persists(u)
  <2>1. account'[u] = account[u] \/ account'[u] = [a EXCEPT !.password = a.password + 1]
    BY <1>1, <1>4 DEF ResetPassword, AccountsInv, TypeOK
  <2> QED BY <1>1, <2>1 DEF Persists, Account
<1>5. ASSUME NEW h \in Handler, Commit(h) PROVE Persists(u)
  <2>1. CASE u # req[h].user
    BY <1>1, <1>5, <2>1 DEF Commit, Persists, Account, AccountsInv, TypeOK
  <2>2. CASE u = req[h].user
    <3>1. account'[u] = Changed(h) /\ req[h].op \in AdminOp
      BY <1>5, <2>2 DEF Commit, AccountsInv, TypeOK, StepFits
    <3>2. PICK r : r = req[h].role
      OBVIOUS
    <3>3. \/ account'[u] = [a EXCEPT !.suspended = TRUE]
          \/ account'[u] = [a EXCEPT !.suspended = FALSE]
          \/ account'[u] = [a EXCEPT !.verified = TRUE]
          \/ account'[u] = [a EXCEPT !.role = r]
      BY <1>1, <2>2, <3>1, <3>2 DEF Changed, AdminOp
    <3> QED BY <1>1, <3>3 DEF Persists, Account
  <2> QED BY <2>1, <2>2
<1>6. CASE account' = account
  BY <1>1, <1>6 DEF Persists, Account
<1> QED BY <1>2, <1>3, <1>4, <1>5, <1>6 DEF Next, vars, db, Arrive, Register, ResendVerification,
   RequestPasswordReset, Login, VerifyEmail, ConfirmPasswordReset, RefreshSession, AdminCommand,
   SetAdminUserRole, ChangeRole, Begin, ModerateAccount, Serve, ConsumeLinks, IssueLink, VerifyConsume,
   StartSession, RefreshUser, RefuseRefresh, Rotate, ResetConsume, ResetRevoke, ReadRole, AdminUpdate,
   Abandon, Logout, AccessExpires, SessionExpires, LinkExpires

\* Whatever registers, verifies, resets and changes at once, an account that
\* exists stays, verified if it was, and its password only moves on.
THEOREM Persistence == Spec => AccountsPersist
<1>1. AccountsInv /\ [Next]_vars =>
        [\A u \in User : account[u].exists =>
           /\ account'[u].exists
           /\ account[u].verified => account'[u].verified
           /\ account'[u].password >= account[u].password]_vars
  BY PersistsStep DEF Persists
<1> QED BY <1>1, Invariance, PTL DEF Spec, AccountsPersist

-----------------------------------------------------------------------------
(* Suspending settles. *)

\* What a request of g may have become.
LEMMA Becomes ==
  ASSUME AccountsInv, [Next]_vars, NEW g \in Handler
  PROVE  \/ req'[g] = req[g]
         \/ req'[g].pc \notin {"rotate", "start_session"}
         \/ \E u \in User : Login(g, u)
         \/ RefreshUser(g)
         \/ Rotate(g)
<1> USE DEF AccountsInv, TypeOK
<1>1. CASE UNCHANGED req
  BY <1>1
<1>2. ASSUME NEW h \in Handler, h # g, Arrive(h) \/ Serve(h) \/ Abandon(h)
      PROVE  req'[g] = req[g]
  BY <1>2 DEF Arrive, Register, ResendVerification, RequestPasswordReset, Login, VerifyEmail,
     ConfirmPasswordReset, RefreshSession, AdminCommand, SetAdminUserRole, ChangeRole, Begin,
     ModerateAccount, Accept, Goto, Finish, Abandon, Serve, CreateUser, ConsumeLinks, IssueLink,
     VerifyConsume, VerifyMark, StartSession, RefreshUser, RefuseRefresh, Rotate, ResetPassword,
     ResetConsume, ResetRevoke, ReadRole, AdminUpdate, Commit
<1>3. CASE Finish(g)
  BY <1>3 DEF Finish, Idle, Ask
<1>4. CASE \E pc \in {"consume_links", "issue_link", "verify_mark", "reset_consume", "reset_revoke"} :
             Goto(g, pc)
  BY <1>4 DEF Goto, Request
<1>5. CASE AdminUpdate(g)
  BY <1>3, <1>5 DEF AdminUpdate, Request
<1>6. CASE Arrive(g)
  <2>1. CASE AsksChange(g)
    BY <2>1, ChangeAsks DEF Accept
  <2> QED BY <1>6, <2>1 DEF Arrive, Register, ResendVerification, RequestPasswordReset,
     VerifyEmail, ConfirmPasswordReset, RefreshSession, AdminCommand, SetAdminUserRole, AsksChange,
     Accept, Ask
<1>7. CASE ReadRole(g)
  BY <1>3, <1>7 DEF ReadRole, Request
<1> QED BY <1>1, <1>2, <1>3, <1>4, <1>5, <1>6, <1>7 DEF Next, vars, db, Serve, Abandon, CreateUser,
   ConsumeLinks, IssueLink, VerifyConsume, VerifyMark, StartSession, RefuseRefresh, ResetPassword,
   ResetConsume, ResetRevoke, Commit, Logout, AccessExpires, SessionExpires, LinkExpires

\* A suspended account is let in by nobody who had not found it allowed before.
LEMMA EntrySettles ==
  ASSUME AccountsInv, [Next]_vars, NEW u \in User, account[u].suspended
  PROVE  Entering(u)' \subseteq Entering(u)
<1> SUFFICES ASSUME NEW g \in Handler, req'[g].pc \in {"rotate", "start_session"}, req'[g].user = u
             PROVE  req[g].pc \in {"rotate", "start_session"} /\ req[g].user = u
  BY DEF Entering
<1> USE DEF AccountsInv, TypeOK
<1>1. PICK q \in Request : q = req[g]
  OBVIOUS
<1>2. ASSUME NEW v \in User, Login(g, v) PROVE FALSE
  <2>1. req'[g] = Ask("login", "start_session", v, Nobody, account[v].role, "user", account[v].password)
    BY <1>2 DEF Login, Accept
  <2>2. v = u
    BY <2>1 DEF Ask
  <2> QED BY <1>2, <2>2 DEF Login
<1>3. CASE RefreshUser(g)
  <2>1. PICK pc, role :
          /\ pc = IF account[q.user].suspended THEN "refuse_refresh" ELSE "rotate"
          /\ role = account[q.user].role
    OBVIOUS
  <2>2. req'[g] = [q EXCEPT !.pc = pc, !.role = role]
    BY <1>1, <1>3, <2>1 DEF RefreshUser
  <2>3. q.user = u /\ pc # "refuse_refresh"
    BY <2>2 DEF Request
  <2> QED BY <2>1, <2>3
<1>4. CASE Rotate(g)
  <2>1. req'[g] = [q EXCEPT !.pc = "start_session"] /\ q.pc = "rotate"
    BY <1>1, <1>4 DEF Rotate, Goto
  <2> QED BY <1>1, <2>1 DEF Request
<1> QED BY <1>2, <1>3, <1>4, Becomes

\* What a row of refresh_tokens may have become: one of a request that enters,
\* or what it was with less.
Stored(h, s) ==
  /\ req[h].pc = "start_session"
  /\ session'[s].user = req[h].user /\ session'[s].password = req[h].password
Lessened(s) ==
  /\ session'[s].user = session[s].user /\ session'[s].password = session[s].password
  /\ session'[s].live => session[s].live
  /\ session'[s].access => session[s].access

LEMMA SessionBecomes ==
  ASSUME AccountsInv, [Next]_vars, NEW s \in Session
  PROVE  Lessened(s) \/ \E h \in Handler : Stored(h, s)
<1> DEFINE Goal == Lessened(s) \/ \E h \in Handler : Stored(h, s)
<1> USE DEF AccountsInv, TypeOK
<1>1. CASE session' = session
  BY <1>1 DEF Lessened
<1>2. CASE \E S : session' = Revoked(S)
  BY <1>2, RevokedType DEF Lessened
<1>3. ASSUME NEW h \in Handler, StartSession(h) PROVE Goal
  <2>1. PICK t \in Session : session' = [session EXCEPT ![t] =
            [user |-> req[h].user, live |-> TRUE, access |-> TRUE, role |-> req[h].role,
             password |-> req[h].password]]
    BY <1>3 DEF StartSession
  <2>2. CASE s = t
    BY <1>3, <2>1, <2>2 DEF StartSession, Stored
  <2>3. CASE s # t
    BY <2>1, <2>3 DEF Lessened
  <2> QED BY <2>2, <2>3
<1>4. ASSUME NEW t \in Session, AccessExpires(t) PROVE Goal
  BY <1>4 DEF AccessExpires, Lessened, SessionRow
<1> QED BY <1>1, <1>2, <1>3, <1>4 DEF Next, vars, db, Arrive, Register, ResendVerification,
   RequestPasswordReset, Login, VerifyEmail, ConfirmPasswordReset, RefreshSession, AdminCommand,
   SetAdminUserRole, ChangeRole, Begin, ModerateAccount, Serve, CreateUser, ConsumeLinks, IssueLink,
   VerifyConsume, VerifyMark, RefreshUser, RefuseRefresh, Rotate, ResetPassword, ResetConsume,
   ResetRevoke, ReadRole, AdminUpdate, Commit, Abandon, Logout, SessionExpires, LinkExpires

\* A suspended account is never let in again by a check made after the
\* suspension, and once the requests that had passed theirs are gone, its tokens
\* only become fewer.
THEOREM Settling == Spec => SuspensionSettles
<1>1. AccountsInv /\ [Next]_vars =>
        [\A u \in User : account[u].suspended =>
           /\ Entering(u)' \subseteq Entering(u)
           /\ Entering(u) = {} => \A s \in Session :
                /\ session'[s].live /\ session'[s].user = u
                     => session[s].live /\ session[s].user = u
                /\ session'[s].access /\ session'[s].user = u
                     => session[s].access /\ session[s].user = u]_vars
  <2> SUFFICES ASSUME AccountsInv, [Next]_vars, NEW u \in User, account[u].suspended
               PROVE  /\ Entering(u)' \subseteq Entering(u)
                      /\ Entering(u) = {} => \A s \in Session :
                           /\ session'[s].live /\ session'[s].user = u
                                => session[s].live /\ session[s].user = u
                           /\ session'[s].access /\ session'[s].user = u
                                => session[s].access /\ session[s].user = u
    OBVIOUS
  <2>1. Entering(u)' \subseteq Entering(u)
    BY EntrySettles
  <2>2. ASSUME Entering(u) = {}, NEW s \in Session, session'[s].user = u
        PROVE  Lessened(s)
    BY <2>2, SessionBecomes DEF Stored, Entering
  <2> QED BY <2>1, <2>2 DEF Lessened
<1> QED BY <1>1, Invariance, PTL DEF Spec, SuspensionSettles

-----------------------------------------------------------------------------
(* A password reset evicts for good. *)

\* A login or refresh under way goes on for the account and with the password
\* it began with; a new one knows the password of its account or its session.
LEMMA Carries ==
  ASSUME AccountsInv, [Next]_vars, NEW g \in Handler, req'[g].op \in {"login", "refresh"}
  PROVE  \/ /\ req'[g].op = req[g].op /\ req'[g].user = req[g].user
            /\ req'[g].password = req[g].password
         \/ \E u \in User : Login(g, u)
         \/ \E s \in Session : RefreshSession(g, s)
<1> DEFINE Carried == /\ req'[g].op = req[g].op /\ req'[g].user = req[g].user
                      /\ req'[g].password = req[g].password
<1> USE DEF AccountsInv, TypeOK
<1>0. PICK q \in Request : q = req[g]
  OBVIOUS
<1>1. CASE UNCHANGED req
  BY <1>1
<1>2. ASSUME NEW h \in Handler, h # g, Arrive(h) \/ Serve(h) \/ Abandon(h)
      PROVE  req'[g] = req[g]
  BY <1>2 DEF Arrive, Register, ResendVerification, RequestPasswordReset, Login, VerifyEmail,
     ConfirmPasswordReset, RefreshSession, AdminCommand, SetAdminUserRole, ChangeRole, Begin,
     ModerateAccount, Accept, Goto, Finish, Abandon, Serve, CreateUser, ConsumeLinks, IssueLink,
     VerifyConsume, VerifyMark, StartSession, RefreshUser, RefuseRefresh, Rotate, ResetPassword,
     ResetConsume, ResetRevoke, ReadRole, AdminUpdate, Commit
<1>3. CASE Finish(g)
  BY <1>3 DEF Finish, Idle, Ask
<1>4. CASE \E pc \in Step : Goto(g, pc)
  <2>1. PICK pc : req'[g] = [q EXCEPT !.pc = pc]
    BY <1>0, <1>4 DEF Goto
  <2> QED BY <1>0, <2>1 DEF Request
<1>5. CASE AdminUpdate(g)
  <2>1. ASSUME ~Finish(g) PROVE Carried
    <3>1. PICK S : req'[g] = [q EXCEPT !.pc = "commit", !.seen = S]
      BY <1>0, <1>5, <2>1 DEF AdminUpdate
    <3> QED BY <1>0, <3>1 DEF Request
  <2> QED BY <1>3, <2>1
<1>6. CASE RefreshUser(g)
  <2>1. PICK pc, role : req'[g] = [q EXCEPT !.pc = pc, !.role = role]
    BY <1>0, <1>6 DEF RefreshUser
  <2> QED BY <1>0, <2>1 DEF Request
<1>7. CASE Arrive(g)
  <2>1. CASE AsksChange(g)
    BY <2>1, ChangeAsks DEF Accept, AdminOp
  <2> QED BY <1>7, <2>1 DEF Arrive, Register, ResendVerification, RequestPasswordReset,
     VerifyEmail, ConfirmPasswordReset, AdminCommand, SetAdminUserRole, AsksChange, Accept, Ask
<1>8. CASE ReadRole(g)
  <2>1. ASSUME ~Finish(g) PROVE Carried
    <3>1. PICK role : req'[g] = [q EXCEPT !.pc = "admin_update", !.before = role]
      BY <1>0, <1>8, <2>1 DEF ReadRole
    <3> QED BY <1>0, <3>1 DEF Request
  <2> QED BY <1>3, <2>1
<1>9. CASE Serve(g)
  <2>1. \/ \E pc \in Step : Goto(g, pc)
        \/ Finish(g) \/ AdminUpdate(g) \/ RefreshUser(g) \/ ReadRole(g)
    BY <1>9 DEF Step, Serve, CreateUser, ConsumeLinks, IssueLink, VerifyConsume, VerifyMark,
       StartSession, RefuseRefresh, Rotate, ResetPassword, ResetConsume, ResetRevoke, Commit
  <2> QED BY <2>1, <1>3, <1>4, <1>5, <1>6, <1>8
<1>10. CASE Abandon(g)
  BY <1>3, <1>10 DEF Abandon
<1>11. \/ UNCHANGED req
       \/ \E h \in Handler : Arrive(h) \/ Serve(h) \/ Abandon(h)
  BY DEF Next, vars, Logout, AccessExpires, SessionExpires, LinkExpires
<1> QED BY <1>1, <1>2, <1>7, <1>9, <1>10, <1>11

\* Once nobody is left who knows only an older password, nobody comes back.
THEOREM Eviction == Spec => ResetSettles
<1>1. AccountsInv /\ [Next]_vars =>
        [\A u \in User : Evicted(u) /\ account'[u].password = account[u].password
                           => Evicted(u)']_vars
  <2> SUFFICES ASSUME AccountsInv, [Next]_vars, NEW u \in User, Evicted(u),
                      account'[u].password = account[u].password
               PROVE  Evicted(u)'
    OBVIOUS
  <2>1. ASSUME NEW g \in Handler, req'[g].op \in {"login", "refresh"}, req'[g].user = u
        PROVE  req'[g].password = account[u].password
    <3>1. ASSUME NEW v \in User, Login(g, v) PROVE req'[g].password = account[u].password
      <4>1. req'[g] = Ask("login", "start_session", v, Nobody, account[v].role, "user",
                          account[v].password)
        BY <3>1 DEF Login, Accept, AccountsInv, TypeOK
      <4> QED BY <2>1, <4>1 DEF Ask
    <3>2. ASSUME NEW s \in Session, RefreshSession(g, s)
          PROVE  req'[g].password = account[u].password
      <4>1. req'[g] = Ask("refresh", "refresh_user", session[s].user, s, "user", "user",
                          session[s].password)
        BY <3>2 DEF RefreshSession, Accept, AccountsInv, TypeOK
      <4> QED BY <2>1, <3>2, <4>1 DEF Ask, RefreshSession, Evicted
    <3> QED BY <2>1, <3>1, <3>2, Carries DEF Evicted
  <2>2. ASSUME NEW s \in Session, session'[s].live, session'[s].user = u
        PROVE  session'[s].password = account[u].password
    <3>1. ASSUME NEW h \in Handler, Stored(h, s) PROVE session'[s].password = account[u].password
      BY <2>2, <3>1 DEF Stored, StepFits, AccountsInv, Evicted
    <3>2. CASE Lessened(s)
      BY <2>2, <3>2 DEF Lessened, Evicted
    <3> QED BY <3>1, <3>2, SessionBecomes
  <2> QED BY <2>1, <2>2 DEF Evicted
<1> QED BY <1>1, Invariance, PTL DEF Spec, ResetSettles

-----------------------------------------------------------------------------
(* Lemmas on ledgers: what one more row does to the rows of a matter.      *)

RowsAbout(rows, matter) == {i \in 1..Len(rows) : rows[i].matter = matter}
RowsTell(rows, matter, initial, current) ==
  \/ RowsAbout(rows, matter) = {} /\ current = initial
  \/ \E i \in RowsAbout(rows, matter) :
       (\A j \in RowsAbout(rows, matter) : j <= i) /\ rows[i].to = current
RowsTold(rows, to) == {i \in RowsAbout(rows, "suspension") : rows[i].to = to}

LEMMA AppendRows ==
  ASSUME NEW rows \in Seq(Entry), NEW e \in Entry
  PROVE  LET new == Append(rows, e) IN
         /\ Len(rows) \in Nat /\ Len(new) = Len(rows) + 1
         /\ \A i \in 1..Len(rows) : new[i] = rows[i]
         /\ new[Len(rows) + 1] = e
         /\ \A matter : RowsAbout(new, matter) =
              RowsAbout(rows, matter) \cup IF e.matter = matter THEN {Len(rows) + 1} ELSE {}
<1> DEFINE new == Append(rows, e)
<1>1. Len(rows) \in Nat /\ new \in Seq(Entry) /\ Len(new) = Len(rows) + 1
  OBVIOUS
<1>2. (\A i \in 1..Len(rows) : new[i] = rows[i]) /\ new[Len(rows) + 1] = e
  BY <1>1
<1>3. 1..Len(new) = 1..Len(rows) \cup {Len(rows) + 1}
  BY <1>1
<1> HIDE DEF new
<1>4. ASSUME NEW matter
      PROVE  RowsAbout(new, matter) =
               RowsAbout(rows, matter) \cup IF e.matter = matter THEN {Len(rows) + 1} ELSE {}
  <2>1. \A i \in 1..Len(new) : i \in RowsAbout(new, matter) <=> new[i].matter = matter
    BY DEF RowsAbout
  <2>2. \A i \in 1..Len(rows) : i \in RowsAbout(rows, matter) <=> new[i].matter = matter
    BY <1>2 DEF RowsAbout
  <2>3. /\ RowsAbout(rows, matter) \subseteq 1..Len(rows)
        /\ RowsAbout(new, matter) \subseteq 1..Len(new)
    BY DEF RowsAbout
  <2> QED BY <1>2, <1>3, <2>1, <2>2, <2>3
<1> QED BY <1>1, <1>2, <1>4 DEF new

\* A row about another matter changes nothing,
LEMMA AppendOther ==
  ASSUME NEW rows \in Seq(Entry), NEW e \in Entry, NEW matter, e.matter # matter,
         NEW initial, NEW current
  PROVE  /\ RowsAbout(Append(rows, e), matter) = RowsAbout(rows, matter)
         /\ RowsTell(rows, matter, initial, current)
              => RowsTell(Append(rows, e), matter, initial, current)
<1> DEFINE new == Append(rows, e)
<1>1. RowsAbout(new, matter) = RowsAbout(rows, matter) /\ RowsAbout(rows, matter) \subseteq 1..Len(rows)
  BY AppendRows DEF RowsAbout
<1>2. \A i \in 1..Len(rows) : new[i] = rows[i]
  BY AppendRows
<1> HIDE DEF new
<1>3. RowsTell(rows, matter, initial, current) => RowsTell(new, matter, initial, current)
  BY <1>1, <1>2 DEF RowsTell
<1> QED BY <1>1, <1>3 DEF new

\* one about the matter is its last,
LEMMA AppendTells ==
  ASSUME NEW rows \in Seq(Entry), NEW e \in Entry, NEW initial
  PROVE  RowsTell(Append(rows, e), e.matter, initial, e.to)
<1> DEFINE new == Append(rows, e)
           n == Len(rows) + 1
<1>1. n \in RowsAbout(new, e.matter) /\ new[n] = e
  BY AppendRows
<1>2. \A j \in RowsAbout(new, e.matter) : j <= n
  BY AppendRows DEF RowsAbout
<1> HIDE DEF new
<1> QED BY <1>1, <1>2 DEF RowsTell, new

\* and one more that tells of a suspension, or of its end.
LEMMA AppendTold ==
  ASSUME NEW rows \in Seq(Entry), NEW e \in Entry, NEW to
  PROVE  /\ Cardinality(RowsTold(rows, to)) \in Nat
         /\ Cardinality(RowsTold(Append(rows, e), to)) =
              Cardinality(RowsTold(rows, to))
                + IF e.matter = "suspension" /\ e.to = to THEN 1 ELSE 0
<1> DEFINE new == Append(rows, e)
           n == Len(rows) + 1
           told == RowsTold(rows, to)
<1>1. /\ Len(rows) \in Nat /\ new[n] = e /\ \A i \in 1..Len(rows) : new[i] = rows[i]
      /\ RowsAbout(new, "suspension") =
           RowsAbout(rows, "suspension") \cup IF e.matter = "suspension" THEN {n} ELSE {}
  BY AppendRows
<1>2. told \subseteq 1..Len(rows)
  BY DEF RowsTold, RowsAbout
<1>3. IsFiniteSet(told)
  <2>1. IsFiniteSet(1..Len(rows))
    BY <1>1, FS_Interval
  <2> QED BY <1>2, <2>1, FS_Subset
<1>4. Cardinality(told) \in Nat
  BY <1>3, FS_CardinalityType
<1> HIDE DEF new
<1>5. RowsTold(new, to) = told \cup IF e.matter = "suspension" /\ e.to = to THEN {n} ELSE {}
  BY <1>1 DEF RowsTold, RowsAbout
<1>6. n \notin told
  BY <1>1, <1>2
<1> HIDE DEF told
<1>7. CASE e.matter = "suspension" /\ e.to = to
  <2>1. Cardinality(told \cup {n}) = Cardinality(told) + 1
    BY <1>3, <1>6, FS_AddElement
  <2> QED BY <1>4, <1>5, <1>7, <2>1 DEF new, told
<1>8. CASE ~(e.matter = "suspension" /\ e.to = to)
  <2>1. RowsTold(new, to) = told
    BY <1>5, <1>8
  <2> QED BY <1>4, <1>8, <2>1 DEF new, told
<1> QED BY <1>7, <1>8

-----------------------------------------------------------------------------
(* The invariant.                                                          *)

\* A change under way is of an account that exists.  Past its update, the
\* account is as the update found it, and nobody else is past his.
Founded(h) ==
  /\ req[h].pc \in {"read_role", "admin_update", "commit"} => account[req[h].user].exists
  /\ req[h].pc = "commit" =>
       /\ req[h].op = "suspend" => ~account[req[h].user].suspended
       /\ req[h].op = "reinstate" => account[req[h].user].suspended
       /\ req[h].op = "approve" => ~account[req[h].user].verified
       /\ RowFree(h)

\* Nothing is told of an account before it exists.
Unborn(u) ==
  ~account[u].exists => /\ u \notin Operator /\ ledger[u] = <<>>
                        /\ account[u].role = "user" /\ ~account[u].suspended

\* The ledger of one account agrees with its row: of the rows about its role, and
\* of those about its suspension, the one committed last says what it is.
Initially(u) == IF u \in Operator THEN "admin" ELSE "user"
RowsAgree(rows, initial, a) ==
  /\ RowsTell(rows, "role", initial, a.role)
  /\ RowsTell(rows, "suspension", "active", Suspension(a))
  /\ Cardinality(RowsTold(rows, "suspended")) =
       Cardinality(RowsTold(rows, "active")) + IF a.suspended THEN 1 ELSE 0
  /\ \A i, j \in RowsAbout(rows, "verification") : i = j /\ a.verified

LedgerInv ==
  /\ AccountsInv
  /\ \A h \in Handler : Founded(h)
  /\ \A u \in User : Unborn(u) /\ RowsAgree(ledger[u], Initially(u), account[u])

LEMMA InitLedger == Init => LedgerInv
<1> SUFFICES ASSUME Init PROVE LedgerInv
  OBVIOUS
<1>1. AccountsInv
  BY InitInv
<1>2. \A h \in Handler : Founded(h)
  BY DEF Init, Idle, Ask, Founded
<1>3. \A u \in User : Unborn(u)
  BY AccountsAssumption DEF Init, NoAccount, NewAccount, Unborn
<1>4. ASSUME NEW u \in User PROVE RowsAgree(ledger[u], Initially(u), account[u])
  <2>1. account[u].role = Initially(u) /\ ~account[u].suspended
    BY AccountsAssumption DEF Init, NoAccount, NewAccount, Initially
  <2>2. ledger[u] = <<>>
    BY DEF Init
  <2>3. /\ \A matter : RowsAbout(ledger[u], matter) = {}
        /\ RowsTold(ledger[u], "suspended") = {} /\ RowsTold(ledger[u], "active") = {}
    BY <2>2 DEF RowsAbout, RowsTold
  <2> QED BY <2>1, <2>3, FS_EmptySet DEF RowsAgree, RowsTell, Suspension
<1> QED BY <1>1, <1>2, <1>3, <1>4 DEF LedgerInv

\* A change commits a row of the ledger that tells what the account becomes.
LEMMA CommitAgrees ==
  ASSUME LedgerInv, NEW h \in Handler, Commit(h)
  PROVE  \A u \in User : RowsAgree(ledger'[u], Initially(u), account'[u])
<1> DEFINE u == req[h].user
           a == account[u]
           b == account'[u]
           rows == ledger[u]
           new == ledger'[u]
<1>1. /\ u \in User /\ req[h].op \in AdminOp /\ req[h].role \in Role /\ req[h].before \in Role
      /\ a \in Account /\ rows \in Seq(Entry) /\ Founded(h)
  BY DEF Commit, LedgerInv, AccountsInv, TypeOK, StepFits, Request
<1>2. b = Changed(h) /\ \A x \in User \ {u} : account'[x] = account[x]
  BY <1>1 DEF Commit, LedgerInv, AccountsInv, TypeOK
<1>3. new = Append(rows, Detail(h)) /\ \A x \in User \ {u} : ledger'[x] = ledger[x]
  BY <1>1 DEF Commit, LedgerInv, AccountsInv, TypeOK
<1>4. \A x \in User : RowsAgree(ledger[x], Initially(x), account[x])
  BY DEF LedgerInv
<1>5. RowsAgree(rows, Initially(u), a)
  BY <1>1, <1>4
<1>6. RowsAgree(new, Initially(u), b)
  <2>1. PICK e \in Entry : e = Detail(h)
    BY DetailType DEF Commit, LedgerInv
  <2>2. new = Append(rows, e)
    BY <1>3, <2>1
  <2> HIDE DEF new
  <2> DEFINE Number(to) == Cardinality(RowsTold(rows, to))
  <2>0. /\ Number("suspended") \in Nat /\ Number("active") \in Nat
        /\ Number("suspended") = Number("active") + IF a.suspended THEN 1 ELSE 0
        /\ \A to : Cardinality(RowsTold(new, to)) =
                   Number(to) + IF e.matter = "suspension" /\ e.to = to THEN 1 ELSE 0
    BY <1>1, <1>5, <2>2, AppendTold DEF RowsAgree
  <2> HIDE DEF Number
  <2>3. CASE req[h].op = "suspend" \/ req[h].op = "reinstate"
    <3>1. /\ e.matter = "suspension" /\ e.to = Suspension(b)
          /\ b.role = a.role /\ b.verified = a.verified /\ a.suspended # b.suspended
          /\ a.suspended \in BOOLEAN /\ b.suspended \in BOOLEAN
      <4>1. CASE req[h].op = "suspend"
        <5>1. /\ e = Row(h, "suspension", "active", "suspended")
              /\ b = [a EXCEPT !.suspended = TRUE]
          BY <1>2, <2>1, <4>1 DEF Detail, Changed
        <5>2. ~a.suspended
          BY <1>1, <4>1 DEF Founded, Commit
        <5> QED BY <1>1, <5>1, <5>2 DEF Row, Account, Suspension
      <4>2. CASE req[h].op = "reinstate"
        <5>1. /\ e = Row(h, "suspension", "suspended", "active")
              /\ b = [a EXCEPT !.suspended = FALSE]
          BY <1>2, <2>1, <4>2 DEF Detail, Changed
        <5>2. a.suspended
          BY <1>1, <4>2 DEF Founded, Commit
        <5> QED BY <1>1, <5>1, <5>2 DEF Row, Account, Suspension
      <4> QED BY <2>3, <4>1, <4>2
    <3>2. RowsTell(new, "suspension", "active", Suspension(b))
      BY <1>1, <2>2, <3>1, AppendTells
    <3>3. Cardinality(RowsTold(new, "suspended")) =
            Cardinality(RowsTold(new, "active")) + IF b.suspended THEN 1 ELSE 0
      <4>1. CASE b.suspended
        BY <2>0, <3>1, <4>1 DEF Suspension
      <4>2. CASE ~b.suspended
        BY <2>0, <3>1, <4>2 DEF Suspension
      <4> QED BY <4>1, <4>2
    <3>4. /\ RowsTell(new, "role", Initially(u), b.role)
          /\ RowsAbout(new, "verification") = RowsAbout(rows, "verification")
      BY <1>1, <1>5, <2>2, <3>1, AppendOther DEF RowsAgree
    <3> QED BY <1>5, <3>1, <3>2, <3>3, <3>4 DEF RowsAgree
  <2>4. CASE req[h].op = "approve"
    <3>1. /\ e = Row(h, "verification", "unverified", "verified")
          /\ b = [a EXCEPT !.verified = TRUE] /\ ~a.verified
      BY <1>1, <1>2, <2>1, <2>4 DEF Detail, Changed, Founded, Commit
    <3>2. /\ e.matter = "verification" /\ b.verified /\ b.role = a.role
          /\ b.suspended = a.suspended /\ Suspension(b) = Suspension(a)
      BY <1>1, <3>1 DEF Row, Account, Suspension
    <3>3. /\ RowsTell(new, "role", Initially(u), b.role)
          /\ RowsTell(new, "suspension", "active", Suspension(b))
      BY <1>1, <1>5, <2>2, <3>2, AppendOther DEF RowsAgree
    <3>4. RowsAbout(rows, "verification") = {}
      BY <1>5, <3>1 DEF RowsAgree
    <3>5. RowsAbout(new, "verification") = {Len(rows) + 1}
      BY <1>1, <2>2, <3>2, <3>4, AppendRows
    <3> QED BY <2>0, <3>2, <3>3, <3>5 DEF RowsAgree
  <2>5. CASE req[h].op = "role"
    <3>1. e = Row(h, "role", req[h].before, req[h].role) /\ b = [a EXCEPT !.role = req[h].role]
      BY <1>2, <2>1, <2>5 DEF Detail, Changed
    <3>2. /\ e.matter = "role" /\ e.to = b.role /\ b.verified = a.verified
          /\ b.suspended = a.suspended /\ Suspension(b) = Suspension(a)
      BY <1>1, <3>1 DEF Row, Account, Suspension
    <3>3. RowsTell(new, "role", Initially(u), b.role)
      BY <1>1, <2>2, <3>2, AppendTells
    <3>4. /\ RowsTell(new, "suspension", "active", Suspension(b))
          /\ RowsAbout(new, "verification") = RowsAbout(rows, "verification")
      BY <1>1, <1>5, <2>2, <3>2, AppendOther DEF RowsAgree
    <3> QED BY <1>5, <2>0, <3>2, <3>3, <3>4 DEF RowsAgree
  <2> QED BY <1>1, <2>3, <2>4, <2>5 DEF AdminOp
<1> QED BY <1>2, <1>3, <1>4, <1>6

-----------------------------------------------------------------------------
(* Every step.                                                             *)

\* But for commits, a step leaves roles and suspensions alone.
Kept(u) ==
  /\ account'[u].role = account[u].role /\ account'[u].suspended = account[u].suspended
  /\ account[u].exists =>
       /\ account'[u].exists
       /\ account[u].verified => account'[u].verified
       /\ account'[u].verified # account[u].verified
            => \E h \in Handler : VerifyMark(h) /\ req[h].user = u

LEMMA OthersKept ==
  ASSUME LedgerInv, [Next]_vars, \A h \in Handler : ~Commit(h)
  PROVE  ledger' = ledger /\ \A u \in User : Kept(u)
<1>1. ledger' = ledger
  BY DEF Next, vars, db, Arrive, Register, ResendVerification, RequestPasswordReset, Login,
     VerifyEmail, ConfirmPasswordReset, RefreshSession, AdminCommand, SetAdminUserRole, ChangeRole, Begin,
     ModerateAccount, Serve, CreateUser, ConsumeLinks, IssueLink, VerifyConsume, VerifyMark,
     StartSession, RefreshUser, RefuseRefresh, Rotate, ResetPassword, ResetConsume, ResetRevoke, ReadRole,
     AdminUpdate, Abandon, Logout, AccessExpires, SessionExpires, LinkExpires
<1>2. AccountsInv /\ account \in [User -> Account]
  BY DEF LedgerInv, AccountsInv, TypeOK
<1>3. ASSUME NEW h \in Handler, CreateUser(h), NEW u \in User PROVE Kept(u)
  <2>1. CASE account' = account
    BY <2>1 DEF Kept
  <2>2. CASE ~account[req[h].user].exists /\ account' = [account EXCEPT ![req[h].user] = NewAccount]
    <3>1. Unborn(u)
      BY DEF LedgerInv
    <3>2. PICK a \in Account : a = NewAccount
      BY DEF NewAccount, Account, Role
    <3>3. a.exists = TRUE /\ a.role = "user" /\ a.suspended = FALSE
      BY <3>2 DEF NewAccount
    <3>4. \/ account'[u] = account[u]
          \/ ~account[u].exists /\ account'[u] = a
      BY <1>2, <2>2, <3>2
    <3> QED BY <1>2, <3>1, <3>3, <3>4 DEF Kept, Unborn, Account
  <2> QED BY <1>3, <2>1, <2>2 DEF CreateUser
<1>4. ASSUME NEW h \in Handler, VerifyMark(h), NEW u \in User PROVE Kept(u)
  BY <1>2, <1>4 DEF VerifyMark, Kept, Account
<1>5. ASSUME NEW h \in Handler, ResetPassword(h), NEW u \in User PROVE Kept(u)
  BY <1>2, <1>5 DEF ResetPassword, Kept, Account
<1>6. CASE account' = account
  BY <1>1, <1>6 DEF Kept
<1> QED
  BY <1>1, <1>3, <1>4, <1>5, <1>6 DEF Next, vars, db, Arrive, Register, ResendVerification,
     RequestPasswordReset, Login, VerifyEmail, ConfirmPasswordReset, RefreshSession, AdminCommand,
     SetAdminUserRole, ChangeRole, Begin, ModerateAccount, Serve, ConsumeLinks, IssueLink, VerifyConsume,
     StartSession, RefreshUser, RefuseRefresh, Rotate, ResetConsume, ResetRevoke, ReadRole, AdminUpdate,
     Abandon, Logout, AccessExpires, SessionExpires, LinkExpires

\* A change begins with an account that exists,
LEMMA ArriveFounds ==
  ASSUME AccountsInv, NEW h \in Handler, Arrive(h)
  PROVE  /\ UNCHANGED db /\ \A g \in Handler \ {h} : req'[g] = req[g]
         /\ req'[h].pc # "commit"
         /\ req'[h].pc \in {"read_role", "admin_update"} => account[req'[h].user].exists
<1> USE DEF AccountsInv, TypeOK
<1>1. UNCHANGED db
  BY DEF Arrive, Register, ResendVerification, RequestPasswordReset, Login, VerifyEmail,
         ConfirmPasswordReset, RefreshSession, AdminCommand, SetAdminUserRole, ChangeRole, Begin,
         ModerateAccount
<1> DEFINE Founding ==
      /\ \A g \in Handler \ {h} : req'[g] = req[g]
      /\ req'[h].pc # "commit"
      /\ req'[h].pc \in {"read_role", "admin_update"} => account[req'[h].user].exists
<1>2. ASSUME NEW q, Accept(h, q), q.pc # "commit",
             q.pc \in {"read_role", "admin_update"} => account[q.user].exists
      PROVE  Founding
  BY <1>2 DEF Accept
<1>3. ASSUME NEW op, NEW pc, NEW u, NEW t, NEW role, NEW before, NEW password,
             Accept(h, Ask(op, pc, u, t, role, before, password)),
             pc # "commit", pc \in {"read_role", "admin_update"} => account[u].exists
      PROVE  Founding
  <2>1. /\ Ask(op, pc, u, t, role, before, password).pc = pc
        /\ Ask(op, pc, u, t, role, before, password).user = u
    BY DEF Ask
  <2> QED BY <1>2, <1>3, <2>1
<1>4. ASSUME NEW u \in User,
             Register(h, u) \/ ResendVerification(h, u) \/ RequestPasswordReset(h, u) \/ Login(h, u)
      PROVE  Founding
  <2>1. CASE Register(h, u)
    BY <1>3, <2>1 DEF Register
  <2>2. CASE ResendVerification(h, u)
    BY <1>3, <2>2 DEF ResendVerification
  <2>3. CASE RequestPasswordReset(h, u)
    BY <1>3, <2>3 DEF RequestPasswordReset
  <2>4. CASE Login(h, u)
    BY <1>3, <2>4 DEF Login
  <2> QED BY <1>4, <2>1, <2>2, <2>3, <2>4
<1>5. ASSUME NEW l \in Link, VerifyEmail(h, l) \/ ConfirmPasswordReset(h, l) PROVE Founding
  <2>1. CASE VerifyEmail(h, l)
    <3>1. PICK u : u = link[l].user
      OBVIOUS
    <3>2. Accept(h, Ask("verify", "verify_consume", u, l, "user", "user", 0))
      BY <2>1, <3>1 DEF VerifyEmail
    <3> QED BY <1>3, <3>2
  <2>2. CASE ConfirmPasswordReset(h, l)
    <3>1. PICK u : u = link[l].user
      OBVIOUS
    <3>2. Accept(h, Ask("reset", "reset_password", u, l, "user", "user", 0))
      BY <2>2, <3>1 DEF ConfirmPasswordReset
    <3> QED BY <1>3, <3>2
  <2> QED BY <1>5, <2>1, <2>2
<1>6. ASSUME NEW s \in Session, RefreshSession(h, s) PROVE Founding
  BY <1>3, <1>6 DEF RefreshSession
<1>7. CASE AsksChange(h)
  BY <1>2, <1>7, ChangeAsks
<1> QED BY <1>1, <1>4, <1>5, <1>6, <1>7 DEF Arrive, AdminCommand, SetAdminUserRole, AsksChange

\* goes on to the update of it, and comes to its commit only by taking the lock of
\* the account's row.
LEMMA ServeFounds ==
  ASSUME AccountsInv, NEW h \in Handler, Serve(h) \/ Abandon(h)
  PROVE  /\ \A g \in Handler \ {h} : req'[g] = req[g]
         /\ req'[h].pc # "read_role"
         /\ req'[h].pc = "admin_update" =>
              req[h].pc = "read_role" /\ account' = account /\ req'[h].user = req[h].user
         /\ req'[h].pc = "commit" =>
              /\ AdminUpdate(h) /\ ~Refused(h)
              /\ req'[h].user = req[h].user /\ req'[h].op = req[h].op
<1> USE DEF AccountsInv, TypeOK
<1>1. CASE Finish(h)
  BY <1>1 DEF Finish, Idle, Ask
<1>2. CASE \E pc \in {"consume_links", "issue_link", "verify_mark", "start_session",
                      "reset_consume", "reset_revoke"} : Goto(h, pc)
  BY <1>2 DEF Goto, Request
<1>3. CASE RefreshUser(h)
  BY <1>3 DEF RefreshUser, Request
<1>4. CASE AdminUpdate(h) /\ ~Refused(h)
  BY <1>4 DEF AdminUpdate, Request
<1>5. CASE ReadRole(h) /\ ~Finish(h)
  BY <1>5 DEF ReadRole, Request, db
<1> QED BY <1>1, <1>2, <1>3, <1>4, <1>5 DEF Serve, CreateUser, ConsumeLinks, IssueLink,
   VerifyConsume, VerifyMark, StartSession, RefuseRefresh, Rotate, ResetPassword, ResetConsume,
   ResetRevoke, ReadRole, AdminUpdate, Commit, Abandon

LEMMA NextLedger == LedgerInv /\ [Next]_vars => LedgerInv'
<1> SUFFICES ASSUME LedgerInv, [Next]_vars PROVE LedgerInv'
  OBVIOUS
<1>0. AccountsInv /\ AccountsInv'
  BY NextInv DEF LedgerInv
<1>1. \A u \in User : /\ account[u].exists => account'[u].exists
                      /\ account[u].exists /\ account[u].verified => account'[u].verified
  <2> TAKE u \in User
  <2>1. Persists(u)
    BY <1>0, PersistsStep
  <2> QED BY <2>1 DEF Persists
\* Of an account, only the commit of a change changes the role and suspension.
<1>2. ASSUME NEW u \in User, \A h \in Handler : Commit(h) => req[h].user # u
      PROVE  Kept(u) /\ ledger'[u] = ledger[u]
  <2>1. CASE \A h \in Handler : ~Commit(h)
    BY <2>1, OthersKept
  <2>2. CASE \E h \in Handler : Commit(h)
    BY <1>0, <1>2, <2>2 DEF Commit, Kept, AccountsInv, TypeOK
  <2> QED BY <2>1, <2>2
<1>3. \A u \in User : RowsAgree(ledger'[u], Initially(u), account'[u])
  <2>1. CASE \E h \in Handler : Commit(h)
    BY <2>1, CommitAgrees
  <2>2. CASE \A h \in Handler : ~Commit(h)
    <3> TAKE u \in User
    <3>1. Kept(u) /\ ledger'[u] = ledger[u]
      BY <2>2, OthersKept
    <3>2. RowsAgree(ledger[u], Initially(u), account[u])
      BY DEF LedgerInv
    <3>3. RowsAbout(ledger[u], "verification") # {} => account[u].exists
      BY DEF LedgerInv, Unborn, RowsAbout
    <3> QED BY <3>1, <3>2, <3>3 DEF RowsAgree, Kept, Suspension
  <2> QED BY <2>1, <2>2
<1>4. ASSUME NEW u \in User PROVE Unborn(u)'
  <2>1. CASE account[u].exists
    BY <1>1, <2>1 DEF Unborn
  <2>2. CASE ~account[u].exists
    <3>1. \A h \in Handler : Commit(h) => req[h].user # u
      BY <2>2 DEF LedgerInv, Founded, Commit
    <3> QED BY <1>2, <2>2, <3>1 DEF LedgerInv, Unborn, Kept
  <2> QED BY <2>1, <2>2
<1>5. ASSUME NEW h \in Handler, Arrive(h) \/ Serve(h) \/ Abandon(h), NEW g \in Handler
      PROVE  Founded(g)'
  <2>1. /\ \A f \in Handler \ {h} : req'[f] = req[f]
        /\ req'[h].pc = "commit" =>
             /\ AdminUpdate(h) /\ ~Refused(h)
             /\ req'[h].user = req[h].user /\ req'[h].op = req[h].op
        /\ req'[h].pc \in {"read_role", "admin_update"} =>
             account' = account /\ account[req'[h].user].exists
    <3>1. CASE Arrive(h)
      BY <1>0, <3>1, ArriveFounds DEF db
    <3>2. CASE Serve(h) \/ Abandon(h)
      <4>1. req[h].pc = "read_role" => account[req[h].user].exists
        BY DEF LedgerInv, Founded
      <4> QED BY <1>0, <3>2, <4>1, ServeFounds
    <3> QED BY <1>5, <3>1, <3>2
  <2>2. Founded(g) /\ Founded(h)
    BY DEF LedgerInv
  <2>3. /\ req[g].pc \in {"read_role", "admin_update", "commit"} => req[g].user \in User
        /\ req'[g].pc \in {"read_role", "admin_update", "commit"} => req'[g].user \in User
    BY <1>0 DEF AccountsInv, StepFits
  <2>4. RowFree(g)' <=> \A f \in Handler \ {g} : req'[f].pc = "commit" => req'[f].user # req'[g].user
    BY DEF RowFree
  <2>5. CASE g # h
    <3>1. req'[g] = req[g]
      BY <2>1, <2>5
    <3>2. req[g].pc \in {"read_role", "admin_update", "commit"} => account'[req[g].user].exists
      BY <1>1, <2>2, <2>3 DEF Founded
    <3>3. ASSUME req[g].pc = "commit"
          PROVE  /\ RowFree(g)'
                 /\ account'[req[g].user].suspended = account[req[g].user].suspended
                 /\ account'[req[g].user].verified = account[req[g].user].verified
      <4>1. \A f \in Handler \ {g} : req[f].pc = "commit" => req[f].user # req[g].user
        BY <2>2, <3>3 DEF Founded, RowFree
      <4>2. ASSUME NEW f \in Handler \ {g}, req'[f].pc = "commit" PROVE req'[f].user # req[g].user
        <5>1. CASE f # h
          BY <2>1, <4>1, <4>2, <5>1
        <5>2. CASE f = h
          <6>1. RowFree(h) /\ req'[h].user = req[h].user
            BY <2>1, <4>2, <5>2 DEF AdminUpdate
          <6> QED BY <2>5, <3>3, <5>2, <6>1 DEF RowFree
        <5> QED BY <5>1, <5>2
      <4>3. \A f \in Handler : Commit(f) => req[f].user # req[g].user
        <5>1. ~Commit(g)
          <6> SUFFICES ASSUME Commit(g) PROVE FALSE
            OBVIOUS
          <6>1. req'[g].pc # "commit"
            BY <1>0 DEF Commit, Finish, Idle, Ask, AccountsInv, TypeOK
          <6> QED BY <3>1, <3>3, <6>1
        <5> QED BY <4>1, <5>1 DEF Commit
      <4>4. Kept(req[g].user)
        BY <1>2, <2>3, <3>3, <4>3
      <4>5. ASSUME NEW f \in Handler, VerifyMark(f), req[f].user = req[g].user PROVE FALSE
        BY <3>3, <4>5 DEF VerifyMark, RowFree
      <4> QED BY <2>2, <2>4, <3>1, <3>3, <4>2, <4>4, <4>5 DEF Kept, Founded
    <3> QED BY <2>2, <3>1, <3>2, <3>3 DEF Founded
  <2>6. CASE g = h
    <3>1. CASE req'[h].pc \in {"read_role", "admin_update"}
      BY <2>1, <2>6, <3>1 DEF Founded
    <3>2. CASE req'[h].pc = "commit"
      <4>1. /\ AdminUpdate(h) /\ ~Refused(h)
            /\ req'[h].user = req[h].user /\ req'[h].op = req[h].op
        BY <2>1, <3>2
      <4>2. account' = account /\ RowFree(h) /\ req[h].pc = "admin_update"
        BY <4>1 DEF AdminUpdate, db
      <4>3. account[req[h].user].exists
        BY <2>2, <4>2 DEF Founded
      <4>4. /\ req[h].op = "suspend" => ~account[req[h].user].suspended
            /\ req[h].op = "reinstate" => account[req[h].user].suspended
            /\ req[h].op = "approve" => ~account[req[h].user].verified
        BY <4>1 DEF Refused
      <4>5. RowFree(h)'
        BY <2>1, <2>4, <2>6, <4>1, <4>2 DEF RowFree
      <4> QED BY <2>6, <4>1, <4>2, <4>3, <4>4, <4>5 DEF Founded
    <3> QED BY <2>6, <3>1, <3>2 DEF Founded
  <2> QED BY <2>5, <2>6
<1>6. ASSUME UNCHANGED <<account, req>>, NEW g \in Handler PROVE Founded(g)'
  <2>1. Founded(g)
    BY DEF LedgerInv
  <2> QED BY <1>6, <2>1 DEF Founded, RowFree
<1>7. \A g \in Handler : Founded(g)'
  BY <1>5, <1>6 DEF Next, vars, Logout, AccessExpires, SessionExpires, LinkExpires
<1> QED BY <1>0, <1>3, <1>4, <1>7 DEF LedgerInv

\* Every reachable state satisfies the invariant.
THEOREM LedgerInvariance == Spec => []LedgerInv
BY InitLedger, NextLedger, PTL DEF Spec

\* The last row committed about a matter tells what the account is, and the row
\* shown first is that one, or was overtaken by it.
LEMMA TellsWhatStands ==
  ASSUME NEW u \in User, NEW matter, NEW initial, NEW current,
         RowsTell(ledger[u], matter, initial, current)
  PROVE  Tells(u, matter, initial, current)
<1>1. About(u, matter) = RowsAbout(ledger[u], matter)
  BY DEF About, RowsAbout
<1>2. CASE About(u, matter) = {}
  BY <1>1, <1>2 DEF RowsTell, Tells, ShownFirst
<1>3. CASE About(u, matter) # {}
  <2>1. PICK l \in About(u, matter) :
          (\A j \in About(u, matter) : j <= l) /\ ledger[u][l].to = current
    BY <1>1, <1>3 DEF RowsTell
  <2>2. ASSUME NEW i \in ShownFirst(u, matter)
        PROVE  ledger[u][i].to = current \/ Overtaken(u, matter, i)
    <3>1. i \in About(u, matter) /\ ledger[u][l].at <= ledger[u][i].at /\ i <= l
      BY <2>1 DEF ShownFirst
    <3>2. i \in 1..Len(ledger[u]) /\ l \in 1..Len(ledger[u])
      BY <3>1 DEF About
    <3>3. CASE i = l
      BY <2>1, <3>3
    <3>4. CASE i < l
      BY <3>1, <3>4 DEF Overtaken
    <3> QED BY <3>1, <3>2, <3>3, <3>4
  <2> QED BY <1>3, <2>2 DEF Tells
<1> QED BY <1>2, <1>3

\* "An action that is not logged did not happen, and a log row for a change that
\* failed is a lie" (Audited): for any admins racing, the ledger holds one more
\* suspension than reinstatements of an account that is suspended and as many of
\* one that is not, one verification by hand at most, and the row it shows first
\* says what the account is, or tells of a change that was overtaken.
THEOREM LedgerTells == Spec => []LedgerAgrees
<1>1. ASSUME LedgerInv PROVE LedgerAgrees
  <2> SUFFICES ASSUME NEW u \in User
               PROVE  /\ Tells(u, "role", Initially(u), account[u].role)
                      /\ Tells(u, "suspension", "active", Suspension(account[u]))
                      /\ Told(u, "suspended") =
                           Told(u, "active") + IF account[u].suspended THEN 1 ELSE 0
                      /\ \A i, j \in About(u, "verification") : i = j /\ account[u].verified
    BY DEF LedgerAgrees, Initially
  <2>1. RowsAgree(ledger[u], Initially(u), account[u])
    BY <1>1 DEF LedgerInv
  <2>2. /\ About(u, "verification") = RowsAbout(ledger[u], "verification")
        /\ \A to : Told(u, to) = Cardinality(RowsTold(ledger[u], to))
    BY DEF About, RowsAbout, Told, RowsTold
  <2> QED BY <2>1, <2>2, TellsWhatStands DEF RowsAgree
<1> QED BY <1>1, LedgerInvariance, PTL

===============================================================================
