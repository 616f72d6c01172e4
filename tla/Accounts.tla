------------------------------- MODULE Accounts -------------------------------
(***************************************************************************)
(* Accounts, their sessions, their emailed links and what admins do to     *)
(* them: internal/httpapi/auth.go and the account actions of internal/db   *)
(* (roles.go, accounts.go, audit.go), over the tables users,               *)
(* refresh_tokens, the two link tables and admin_actions.                  *)
(*                                                                         *)
(* The handlers of auth.go run each query as a statement of its own; an    *)
(* admin's change is one transaction at READ COMMITTED, which holds the    *)
(* lock of the account's row from its UPDATE to its commit.  A request is  *)
(* therefore split at its database calls, a transaction at its BEGIN, the  *)
(* statement that takes the lock and its commit.                           *)
(***************************************************************************)
EXTENDS Naturals, Sequences, FiniteSets

CONSTANTS
  User,        \* identities: an email address with its username
  Known,       \* those with an account at the start
  Operator,    \* of these, the ones cmd/admin has promoted before
  Session,     \* refresh tokens in circulation at one time
  Link,        \* emailed links in circulation at one time
  Handler,     \* requests and cmd/admin runs at work at one time
  Nobody,      \* no user: the user of no row
  Served,      \* the operations of an instance, a subset of Op
  MaxPassword, \* bound: passwords an account goes through
  MaxChanges   \* bound: changes of one account, in the ledger or under way

AdminOp == {"suspend", "reinstate", "approve", "role"}
Op == {"register", "resend", "verify", "login", "refresh", "logout", "forgot", "reset"} \cup AdminOp

ASSUME AccountsAssumption ==
  /\ Known \subseteq User /\ Operator \subseteq Known
  /\ Nobody \notin User \cup Session \cup Link
  /\ Served \subseteq Op
  /\ MaxPassword \in Nat /\ MaxChanges \in Nat

VARIABLES
  account,   \* users: one row for an identity, by its unique indexes
  session,   \* refresh_tokens, each with the access token minted beside it
  link,      \* email_verification_tokens and password_reset_tokens
  ledger,    \* admin_actions about each account, in the order they were committed
  req        \* what each handler at work still knows

db == <<account, session, link, ledger>>
vars == <<account, session, link, ledger, req>>

-----------------------------------------------------------------------------
(* The tables. *)

Role == {"user", "admin"}

\* password counts the passwords the account has had: equal numbers are the
\* same password.
Account == [exists : BOOLEAN, verified : BOOLEAN, suspended : BOOLEAN, role : Role, password : Nat]
NoAccount == [exists |-> FALSE, verified |-> FALSE, suspended |-> FALSE, role |-> "user", password |-> 0]
NewAccount == [exists |-> TRUE, verified |-> FALSE, suspended |-> FALSE, role |-> "user", password |-> 1]

\* live: the refresh token is neither revoked nor expired.  access: the access
\* token issued with it has not expired; nothing can revoke it.  role is the
\* role that access token claims, password the one the session was logged in
\* with, before any rotation (history).
SessionRow == [user : User \cup {Nobody}, live : BOOLEAN, access : BOOLEAN, role : Role,
               password : Nat]
NoSession == [user |-> Nobody, live |-> FALSE, access |-> FALSE, role |-> "user",
              password |-> 0]

LinkRow == [user : User \cup {Nobody}, kind : {"verify", "reset"}, live : BOOLEAN]
NoLink == [user |-> Nobody, kind |-> "verify", live |-> FALSE]

\* A ledger row: what the action was about, the before and after of its detail,
\* and created_at, which is now(): the start of the transaction that wrote it.
\* The ledger is read by created_at, newest first; no query reads the order of
\* the commits.
Entry == [matter : {"suspension", "verification", "role"},
          from : Role \cup {"active", "suspended", "unverified"},
          to : Role \cup {"active", "suspended", "verified"}, at : Nat]

LiveSessions(u) == {s \in Session : session[s].live /\ session[s].user = u}
LiveLinks(u, kind) == {l \in Link : link[l].live /\ link[l].user = u /\ link[l].kind = kind}
Admins == {u \in User : account[u].role = "admin"}

-----------------------------------------------------------------------------
(* Requests being served. *)

Step == {"create_user", "consume_links", "issue_link", "verify_consume", "verify_mark",
         "start_session", "refresh_user", "refuse_refresh", "rotate",
         "reset_password", "reset_consume", "reset_revoke", "read_role", "admin_update", "commit"}

\* token is the session or link presented; role what a login or refresh read of
\* the account, or the role to set; before the role a change read first; seen
\* the sessions an open transaction has revoked; began its now().
Request == [op : Op \cup {"none"}, pc : {"idle"} \cup Step, user : User \cup {Nobody},
            token : Session \cup Link \cup {Nobody}, role : Role, before : Role,
            password : Nat, seen : SUBSET Session, began : Nat]

Ask(op, pc, u, t, role, before, password) ==
  [op |-> op, pc |-> pc, user |-> u, token |-> t, role |-> role, before |-> before,
   password |-> password, seen |-> {}, began |-> 0]
Idle == Ask("none", "idle", Nobody, Nobody, "user", "user", 0)

Serving(h) == req[h].pc # "idle"
Accept(h, q) ==
  /\ q.op \in Served /\ ~Serving(h)
  /\ req' = [req EXCEPT ![h] = q]

Goto(h, pc) == req' = [req EXCEPT ![h].pc = pc]
Finish(h) == req' = [req EXCEPT ![h] = Idle]

\* Mutant: revoking deletes the row.
Revoked_deletes(S) == [s \in Session \ S |-> session[s]]

Revoked(S) == [s \in Session |-> IF s \in S THEN [session[s] EXCEPT !.live = FALSE] ELSE session[s]]

\* Mutant: changes lock the row FOR SHARE when they read it, and upgrade.
RowFree_shared(h) ==
  \A g \in Handler \ {h} : req[g].pc \in {"admin_update", "commit"} => req[g].user # req[h].user

\* No open transaction of another holds the lock of the row h is to update.
RowFree(h) == \A g \in Handler \ {h} : req[g].pc = "commit" => req[g].user # req[h].user

\* A token identifier stands for a new row once its old one is dead and nobody
\* refers to it.
FreshSession(s) ==
  /\ ~session[s].live /\ ~session[s].access
  /\ \A h \in Handler : req[h].token # s /\ s \notin req[h].seen
FreshLink(l) == ~link[l].live /\ \A h \in Handler : req[h].token # l

\* The room the bounds on Session and Link leave to the requests that will
\* need a row.
Starting == {h \in Handler : req[h].op \in {"login", "refresh"}}
Issuing == {h \in Handler : req[h].op \in {"register", "resend", "forgot"}}
SessionRoom == Cardinality(Starting) < Cardinality({s \in Session : FreshSession(s)})
LinkRoom == Cardinality(Issuing) < Cardinality({l \in Link : FreshLink(l)})

-----------------------------------------------------------------------------
(* Registration, and the links sent by email. *)

\* Register: the count that makes a clean 409.
Register(h, u) ==
  /\ ~account[u].exists /\ LinkRoom
  /\ Accept(h, Ask("register", "create_user", u, Nobody, "user", "user", 0))
  /\ UNCHANGED db

\* Mutant: an insert that overwrites, ON CONFLICT DO UPDATE.
CreateUser_upsert(h) ==
  /\ req[h].pc = "create_user"
  /\ account' = [account EXCEPT ![req[h].user] = NewAccount]
  /\ Goto(h, "consume_links")
  /\ UNCHANGED <<session, link, ledger>>

\* The insert: losing the race to a unique index is the same 409.
CreateUser(h) ==
  LET u == req[h].user IN
  /\ req[h].pc = "create_user"
  /\ \/ account[u].exists /\ Finish(h) /\ UNCHANGED account
     \/ /\ ~account[u].exists
        /\ account' = [account EXCEPT ![u] = NewAccount]
        /\ Goto(h, "consume_links")
  /\ UNCHANGED <<session, link, ledger>>

\* ResendVerification goes on for an unverified, unsuspended account only.
ResendVerification(h, u) ==
  /\ account[u].exists /\ ~account[u].verified /\ ~account[u].suspended /\ LinkRoom
  /\ Accept(h, Ask("resend", "consume_links", u, Nobody, "user", "user", 0))
  /\ UNCHANGED db

RequestPasswordReset(h, u) ==
  /\ account[u].exists /\ LinkRoom
  /\ Accept(h, Ask("forgot", "consume_links", u, Nobody, "user", "user", 0))
  /\ UNCHANGED db

Kind(h) == IF req[h].op = "forgot" THEN "reset" ELSE "verify"

\* issueVerificationEmail and issuePasswordResetEmail: spend what is outstanding,
ConsumeLinks(h) ==
  /\ req[h].pc = "consume_links"
  /\ link' = [l \in Link |-> IF l \in LiveLinks(req[h].user, Kind(h))
                             THEN [link[l] EXCEPT !.live = FALSE] ELSE link[l]]
  /\ Goto(h, "issue_link")
  /\ UNCHANGED <<account, session, ledger>>

\* then store the new one; sending it changes nothing here.
IssueLink(h) ==
  /\ req[h].pc = "issue_link"
  /\ \E l \in Link :
       /\ FreshLink(l)
       /\ link' = [link EXCEPT ![l] = [user |-> req[h].user, kind |-> Kind(h), live |-> TRUE]]
  /\ Finish(h)
  /\ UNCHANGED <<account, session, ledger>>

\* VerifyEmail: look the link up, spend it, mark the account.
VerifyEmail(h, l) ==
  /\ link[l].live /\ link[l].kind = "verify"
  /\ Accept(h, Ask("verify", "verify_consume", link[l].user, l, "user", "user", 0))
  /\ UNCHANGED db

VerifyConsume(h) ==
  /\ req[h].pc = "verify_consume"
  /\ link' = [link EXCEPT ![req[h].token].live = FALSE]
  /\ Goto(h, "verify_mark")
  /\ UNCHANGED <<account, session, ledger>>

VerifyMark(h) ==
  /\ req[h].pc = "verify_mark" /\ RowFree(h)
  /\ account' = [account EXCEPT ![req[h].user].verified = TRUE]
  /\ Finish(h)
  /\ UNCHANGED <<session, link, ledger>>

-----------------------------------------------------------------------------
(* Sessions. *)

\* Login of somebody who knows the password the account has when it is read.
Login(h, u) ==
  /\ account[u].exists /\ ~account[u].suspended /\ SessionRoom
  /\ Accept(h, Ask("login", "start_session", u, Nobody, account[u].role, "user", account[u].password))
  /\ UNCHANGED db

\* startSession: both tokens, from what was read.
StartSession(h) ==
  /\ req[h].pc = "start_session"
  /\ \E s \in Session :
       /\ FreshSession(s)
       /\ session' = [session EXCEPT ![s] =
            [user |-> req[h].user, live |-> TRUE, access |-> TRUE, role |-> req[h].role,
             password |-> req[h].password]]
  /\ Finish(h)
  /\ UNCHANGED <<account, link, ledger>>

\* Mutant: GetLiveRefreshToken without revoked_at IS NULL.
RefreshSession_revoked(h, s) ==
  /\ session[s].user # Nobody /\ SessionRoom
  /\ Accept(h, Ask("refresh", "refresh_user", session[s].user, s, "user", "user", session[s].password))
  /\ UNCHANGED db

\* RefreshSession: the token presented is live,
RefreshSession(h, s) ==
  /\ session[s].live /\ SessionRoom
  /\ Accept(h, Ask("refresh", "refresh_user", session[s].user, s, "user", "user", session[s].password))
  /\ UNCHANGED db

\* Mutant: revocation is trusted to have ended a suspended account's sessions.
RefreshUser_trusting(h) ==
  /\ req[h].pc = "refresh_user"
  /\ req' = [req EXCEPT ![h].pc = "rotate", ![h].role = account[req[h].user].role]
  /\ UNCHANGED db

\* its account is read, and is not suspended,
RefreshUser(h) ==
  LET a == account[req[h].user] IN
  /\ req[h].pc = "refresh_user"
  /\ req' = [req EXCEPT ![h].pc = IF a.suspended THEN "refuse_refresh" ELSE "rotate",
                        ![h].role = a.role]
  /\ UNCHANGED db

RefuseRefresh(h) ==
  /\ req[h].pc = "refuse_refresh"
  /\ session' = Revoked({req[h].token})
  /\ Finish(h)
  /\ UNCHANGED <<account, link, ledger>>

\* and the token is revoked, whether or not it still was live.
Rotate(h) ==
  /\ req[h].pc = "rotate"
  /\ session' = Revoked({req[h].token})
  /\ Goto(h, "start_session")
  /\ UNCHANGED <<account, link, ledger>>

\* Logout is one statement.
Logout(s) ==
  /\ "logout" \in Served /\ session[s].live
  /\ session' = Revoked({s})
  /\ UNCHANGED <<account, link, ledger, req>>

-----------------------------------------------------------------------------
(* ConfirmPasswordReset: five statements. *)

\* Changes of u's password under way.
Resetting(u) == {h \in Handler : req[h].op = "reset" /\ req[h].user = u}

ConfirmPasswordReset(h, l) ==
  LET u == link[l].user IN
  /\ link[l].live /\ link[l].kind = "reset"
  /\ account[u].password + Cardinality(Resetting(u)) < MaxPassword
  /\ Accept(h, Ask("reset", "reset_password", u, l, "user", "user", 0))
  /\ UNCHANGED db

ResetPassword(h) ==
  /\ req[h].pc = "reset_password" /\ RowFree(h)
  /\ account' = [account EXCEPT ![req[h].user].password = @ + 1]
  /\ Goto(h, "reset_consume")
  /\ UNCHANGED <<session, link, ledger>>

ResetConsume(h) ==
  /\ req[h].pc = "reset_consume"
  /\ link' = [link EXCEPT ![req[h].token].live = FALSE]
  /\ Goto(h, "reset_revoke")
  /\ UNCHANGED <<account, session, ledger>>

ResetRevoke(h) ==
  /\ req[h].pc = "reset_revoke"
  /\ session' = Revoked(LiveSessions(req[h].user))
  /\ Finish(h)
  /\ UNCHANGED <<account, link, ledger>>

-----------------------------------------------------------------------------
(* What admins do, through Audited: Suspend, Reinstate, VerifyByHand and     *)
(* ChangeRole.                                                               *)

\* requireAdmin: the access token says so, for as long as it lasts.
ClaimsAdmin(a) == \E s \in Session : session[s].access /\ session[s].user = a /\ session[s].role = "admin"

\* The clock of now().  Only the order of the changes of an account matters, so
\* it moves on from the latest that is in the ledger or still under way.
Stamps(u) == {ledger[u][i].at : i \in 1..Len(ledger[u])}
               \cup {req[h].began : h \in {g \in Handler : req[g].user = u}}
Now(u, n) == (\A m \in Stamps(u) : m < n) /\ (n = 1 \/ n - 1 \in Stamps(u))

\* BEGIN, which fixes the transaction's now().
Begin(h, q) ==
  /\ \E n \in 1..MaxChanges : Accept(h, [q EXCEPT !.began = n]) /\ Now(q.user, n)
  /\ UNCHANGED db

ChangeRole(h, u, role) ==
  account[u].exists /\ Begin(h, Ask("role", "read_role", u, Nobody, role, "user", 0))

\* From the portal, an admin changes anybody's role but their own.
SetAdminUserRole(h, a, u, role) == ClaimsAdmin(a) /\ a # u /\ ChangeRole(h, u, role)

\* From the host, cmd/admin promotes and demotes with no actor.
AdminCommand(h, u, role) == ChangeRole(h, u, role)

\* Suspend, Reinstate and VerifyByHand, asked for in the portal.
ModerateAccount(h, a, u, op) ==
  /\ op \in {"suspend", "reinstate", "approve"}
  /\ ClaimsAdmin(a) /\ (op = "suspend" => a # u)
  /\ account[u].exists
  /\ Begin(h, Ask(op, "admin_update", u, Nobody, "user", "user", 0))

\* A role change reads the account before it updates it: ErrRoleUnchanged.
ReadRole(h) ==
  LET role == account[req[h].user].role IN
  /\ req[h].pc = "read_role"
  /\ \/ role = req[h].role /\ Finish(h)
     \/ /\ role # req[h].role
        /\ req' = [req EXCEPT ![h].pc = "admin_update", ![h].before = role]
  /\ UNCHANGED db

\* ErrLastAdmin: no committed admin but the one being demoted.
LastAdmin(h) == req[h].before = "admin" /\ Admins \subseteq {req[h].user}

\* Mutant: SuspendUser without suspended_at IS NULL.
Refused_suspendsAgain(h) ==
  LET a == account[req[h].user] IN
  \/ req[h].op = "reinstate" /\ ~a.suspended
  \/ req[h].op = "approve" /\ a.verified
  \/ req[h].op = "role" /\ LastAdmin(h)

\* The UPDATE matches no row, or ErrLastAdmin: the transaction rolls back.
Refused(h) ==
  LET a == account[req[h].user] IN
  \/ req[h].op = "suspend" /\ a.suspended
  \/ req[h].op = "reinstate" /\ ~a.suspended
  \/ req[h].op = "approve" /\ a.verified
  \/ req[h].op = "role" /\ LastAdmin(h)

\* The UPDATE, which waits for the row's lock and then decides on the row as it
\* is, CountAdmins and RevokeAllRefreshTokensForUser.
AdminUpdate(h) ==
  /\ req[h].pc = "admin_update" /\ RowFree(h)
  /\ \/ Refused(h) /\ Finish(h)
     \/ /\ ~Refused(h)
        /\ req' = [req EXCEPT ![h].pc = "commit",
                              ![h].seen = IF req[h].op \in {"suspend", "role"}
                                          THEN LiveSessions(req[h].user) ELSE {}]
  /\ UNCHANGED db

\* The account as the change leaves it, and the ledger row that says so.
Changed(h) ==
  LET a == account[req[h].user] IN
  CASE req[h].op = "suspend"   -> [a EXCEPT !.suspended = TRUE]
    [] req[h].op = "reinstate" -> [a EXCEPT !.suspended = FALSE]
    [] req[h].op = "approve"   -> [a EXCEPT !.verified = TRUE]
    [] req[h].op = "role"      -> [a EXCEPT !.role = req[h].role]

Row(h, matter, from, to) == [matter |-> matter, from |-> from, to |-> to, at |-> req[h].began]
Detail(h) ==
  CASE req[h].op = "suspend"   -> Row(h, "suspension", "active", "suspended")
    [] req[h].op = "reinstate" -> Row(h, "suspension", "suspended", "active")
    [] req[h].op = "approve"   -> Row(h, "verification", "unverified", "verified")
    [] req[h].op = "role"      -> Row(h, "role", req[h].before, req[h].role)

\* InsertAdminAction and the commit.
Commit(h) ==
  LET u == req[h].user IN
  /\ req[h].pc = "commit"
  /\ account' = [account EXCEPT ![u] = Changed(h)]
  /\ session' = Revoked(req[h].seen)
  /\ ledger' = [ledger EXCEPT ![u] = Append(@, Detail(h))]
  /\ Finish(h)
  /\ UNCHANGED link

-----------------------------------------------------------------------------
(* Around the handlers. *)

\* The client leaves, the process dies or a query fails: a transaction rolls
\* back, what other handlers wrote statement by statement stays.
Abandon(h) == Serving(h) /\ Finish(h) /\ UNCHANGED db

\* Time passes: an access token lasts 15 minutes, a refresh token 30 days.
AccessExpires(s) ==
  /\ session[s].access
  /\ session' = [session EXCEPT ![s].access = FALSE]
  /\ UNCHANGED <<account, link, ledger, req>>

SessionExpires(s) ==
  /\ session[s].live /\ ~session[s].access
  /\ session' = Revoked({s})
  /\ UNCHANGED <<account, link, ledger, req>>

LinkExpires(l) ==
  /\ link[l].live
  /\ link' = [link EXCEPT ![l].live = FALSE]
  /\ UNCHANGED <<account, session, ledger, req>>

-----------------------------------------------------------------------------
Init ==
  /\ account = [u \in User |-> IF u \in Operator THEN [NewAccount EXCEPT !.role = "admin"]
                               ELSE IF u \in Known THEN NewAccount ELSE NoAccount]
  /\ session = [s \in Session |-> NoSession]
  /\ link = [l \in Link |-> NoLink]
  /\ ledger = [u \in User |-> <<>>]
  /\ req = [h \in Handler |-> Idle]

\* A request, or a run of cmd/admin, begins.
Arrive(h) ==
  \/ \E u \in User :
       \/ Register(h, u) \/ ResendVerification(h, u) \/ RequestPasswordReset(h, u) \/ Login(h, u)
  \/ \E l \in Link : VerifyEmail(h, l) \/ ConfirmPasswordReset(h, l)
  \/ \E s \in Session : RefreshSession(h, s)
  \/ \E u \in User, role \in Role : AdminCommand(h, u, role)
  \/ \E a, u \in User :
       \/ \E role \in Role : SetAdminUserRole(h, a, u, role)
       \/ \E op \in AdminOp : ModerateAccount(h, a, u, op)

\* The handler's next database call, and what follows it.
Serve(h) ==
  \/ CreateUser(h) \/ ConsumeLinks(h) \/ IssueLink(h)
  \/ VerifyConsume(h) \/ VerifyMark(h)
  \/ StartSession(h) \/ RefreshUser(h) \/ RefuseRefresh(h) \/ Rotate(h)
  \/ ResetPassword(h) \/ ResetConsume(h) \/ ResetRevoke(h)
  \/ ReadRole(h) \/ AdminUpdate(h) \/ Commit(h)

Next ==
  \/ \E h \in Handler : Arrive(h) \/ Serve(h) \/ Abandon(h)
  \/ \E s \in Session : Logout(s) \/ AccessExpires(s) \/ SessionExpires(s)
  \/ \E l \in Link : LinkExpires(l)

Spec == Init /\ [][Next]_vars

\* Every goroutine runs and every query is answered.  PostgreSQL queues those
\* that wait for a row's lock, so none waits for ever while others take turns.
\* Access tokens do expire.
FairSpec ==
  /\ Spec
  /\ \A h \in Handler :
       /\ WF_vars(Serve(h))
       /\ SF_vars(VerifyMark(h) \/ ResetPassword(h) \/ AdminUpdate(h))
  /\ \A s \in Session : WF_vars(AccessExpires(s))

===============================================================================
