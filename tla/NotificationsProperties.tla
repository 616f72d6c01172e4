------------------------ MODULE NotificationsProperties ------------------------
(***************************************************************************)
(* What Notifications must guarantee: who is told, and what a shutdown may *)
(* cut off.                                                                *)
(***************************************************************************)
EXTENDS Notifications

\* The shape of the rows, the requests and the process; no row and no marker is
\* dated later than the writes begun.
TypeOK ==
  /\ clock \in 0..MaxClock
  /\ event \in [Event -> [kind : Kind, sender : User \cup {Nobody}, text : BOOLEAN,
                          at : 0..clock, pc : Phase, passed : BOOLEAN]]
  /\ marker \in [User -> 0..clock]
  /\ reader \in [Reader -> [user : User \cup {Nobody}, at : 0..clock]]
  /\ server \in {"up", "draining", "waiting", "closing", "failing", "stopped", "down"}
  /\ late \in BOOLEAN /\ held \in BOOLEAN

\* "Counting only up to that message, rather than everything unread now, keeps
\* two messages sent at once from each seeing the other and both staying
\* silent" (GetNotificationRecipient): however writes, decisions and marks
\* interleave, nobody is left with unread messages of which the first kept
\* silent, unless a mark begun before it committed after it had decided.
FirstUnreadTold ==
  \A u \in User : \A e \in Unread(u) :
    event[e].pc = "silent" /\ (\A f \in Unread(u) : event[f].at >= event[e].at) => event[e].passed

\* "Later ones wait until they read it" (notify).  A reply email that joins one
\* still unread is for a message written before the one emailed, which had not
\* committed when that one decided.
SecondIsEarlier ==
  [][\A e, f \in Event :
       LET u == Counterpart(event[e].sender) IN
       /\ event[e].kind = "reply" /\ event[e].pc = "written" /\ event'[e].pc = "sending"
       /\ event[f].kind = "reply" /\ event[f].pc \in Emailed /\ f \in Unread(u)
       => event[e].at < event[f].at]_vars

\* "So a deploy does not cut an email off mid-send" (WaitForNotifications) and
\* "so nothing is cut off mid-query" (run): a shutdown within its deadline ends
\* no request before its decision and cuts no email off, not even of a request
\* that was answered while the server drained.
ShutdownCutsNothing ==
  [][server # "stopped" /\ server' = "stopped" /\ ~late =>
       \A e \in Event : event[e].pc \notin InFlight \cup {"sending"}]_vars

\* The deadline ends both waits of the shutdown, for the requests and for the
\* emails, whatever hangs.  The process then stops, unless a request that hangs
\* keeps its connection from pool.Close for ever.
ShutdownEnds ==
  server = "draining" ~> \/ server \in {"stopped", "down"}
                         \/ [](server = "closing" /\ (~Idle \/ held))

-----------------------------------------------------------------------------
(* What the repository says and an interleaving refutes. *)

\* "One reply email per unread spell" (notify).
OneEmailPerSpell ==
  [][\A e, f \in Event :
       LET u == Counterpart(event[e].sender) IN
       /\ event[e].kind = "reply" /\ event[e].pc = "written" /\ event'[e].pc = "sending"
       => ~(event[f].kind = "reply" /\ event[f].pc \in Emailed /\ f \in Unread(u))]_vars

===============================================================================
