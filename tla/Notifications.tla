---------------------------- MODULE Notifications ----------------------------
(***************************************************************************)
(* The emails one conversation causes, and how the server stops while they *)
(* are on their way: notifications.go, the requests that call notify,      *)
(* MarkConversationRead, and the shutdown in cmd/api/main.go.              *)
(*                                                                         *)
(* A message's created_at and a read marker are now(), the start of the    *)
(* transaction that writes them; they are seen from its commit on.  The    *)
(* model's clock counts such starts, no two in the same microsecond.       *)
(* Whether a request may write at all is the matter of Messaging.          *)
(***************************************************************************)
EXTENDS Naturals, FiniteSets

CONSTANTS
  Owner, Enquirer,  \* the two participants
  Nobody,           \* no user
  MaxEvents,        \* bound: requests that write and then notify
  MaxReaders,       \* bound: requests that mark the conversation read at one time
  MaxClock          \* bound: writes begun

User == {Owner, Enquirer}
Event == 1..MaxEvents
Reader == 1..MaxReaders

ASSUME NotificationsAssumption ==
  /\ Owner # Enquirer /\ Nobody \notin User
  /\ MaxEvents \in Nat /\ MaxReaders \in Nat /\ MaxClock \in Nat

VARIABLES
  clock,      \* writes begun so far
  event,      \* each request that notifies, and the message row it inserts
  marker,     \* owner_read_at and enquirer_read_at, 0 for NULL
  reader,     \* the requests marking the conversation read
  server,     \* the process: its life in cmd/api's run
  late,       \* shutdownCtx is done
  held        \* while pool.Close waits: a request left out here has a connection

vars == <<clock, event, marker, reader, server, late, held>>
requests == <<clock, event, marker, reader>>
process == <<server, late, held>>

-----------------------------------------------------------------------------
(* opened stands for a conversation started or opened by an offer, shared   *)
(* for its address being shared.  text: the request inserts a message.      *)
(* Past "written" the request has decided: silent when its reply is not the *)
(* first unread, untold when the recipient opted out, is suspended or not   *)
(* verified, when a cap is reached, or when its client left before it could *)
(* decide.  passed (history): a mark begun before this event committed      *)
(* after its decision.                                                      *)

Kind == {"opened", "shared", "reply"}
InFlight == {"writing", "written"}
Emailed == {"sending", "sent", "cut"}
Phase == {"unused", "silent", "untold"} \cup InFlight \cup Emailed

NoEvent == [kind |-> "reply", sender |-> Nobody, text |-> FALSE, at |-> 0, pc |-> "unused",
            passed |-> FALSE]
NoReader == [user |-> Nobody, at |-> 0]

Counterpart(u) == IF u = Owner THEN Enquirer ELSE Owner

Committed(e) == event[e].pc \notin {"unused", "writing"}
Happened(kind) == \E e \in Event : event[e].kind = kind /\ Committed(e)
UnderWay(kind) == \E e \in Event : event[e].kind = kind /\ event[e].pc = "writing"

\* The messages waiting for u: from the other side, newer than u's marker.
Unread(u) ==
  {e \in Event : Committed(e) /\ event[e].text
                 /\ event[e].sender # u /\ event[e].at > marker[u]}

Moved(e, pc) == [event EXCEPT ![e].pc = pc]

-----------------------------------------------------------------------------
(* The requests. *)

\* Requests go on while the server drains; none gets a connection after that.
Serving == server \in {"up", "draining"}

\* The write begins.  The records of events and of readers are taken in order.
Begin(e, kind, u, text) ==
  /\ Serving /\ clock < MaxClock
  /\ event[e].pc = "unused" /\ \A f \in 1..(e - 1) : event[f].pc # "unused"
  /\ clock' = clock + 1
  /\ event' = [event EXCEPT ![e] = [kind |-> kind, sender |-> u, text |-> text, at |-> clock + 1,
                                    pc |-> "writing", passed |-> FALSE]]
  /\ UNCHANGED <<marker, reader, process>>

\* StartConversation by the enquirer, or an owner's offer with or without a
\* note, of which one wins; a message, or the note of an offer that joins;
\* ShareAddress, of which the first one counts.
Open(e, u, text) ==
  /\ ~Happened("opened") /\ ~UnderWay("opened")
  /\ u = Enquirer => text
  /\ Begin(e, "opened", u, text)

SendMessage(e, u) == Happened("opened") /\ Begin(e, "reply", u, TRUE)

ShareAddress(e) ==
  /\ Happened("opened") /\ ~Happened("shared") /\ ~UnderWay("shared")
  /\ Begin(e, "shared", Owner, FALSE)

Commit(e) ==
  /\ event[e].pc = "writing"
  /\ event' = Moved(e, "written")
  /\ UNCHANGED <<clock, marker, reader, process>>

\* The client leaves or a query fails: the write rolls back, or the recipient is
\* never read, as notify runs in the request's context.
Abandon(e) ==
  /\ \/ event[e].pc = "writing" /\ event' = [event EXCEPT ![e] = NoEvent]
     \/ event[e].pc = "written" /\ event' = Moved(e, "untold")
  /\ UNCHANGED <<clock, marker, reader, process>>

\* Mutant: everything unread by now is counted.
UnreadThrough_all(e) == Unread(Counterpart(event[e].sender))

\* GetNotificationRecipient: what the recipient has not read, up to this message.
UnreadThrough(e) ==
  {f \in Unread(Counterpart(event[e].sender)) : event[f].at <= event[e].at}

\* Mutant: every unread reply sends an email.
Due_always(e) == event[e].kind = "reply" => UnreadThrough(e) # {}

\* "One reply email per unread spell: only for the first message the recipient
\* has not read."
Due(e) == event[e].kind = "reply" => Cardinality(UnreadThrough(e)) = 1

\* notify reads the recipient, decides, and hands the email to a goroutine; the
\* caps are RateLimiter's.
Notify(e) ==
  /\ event[e].pc = "written"
  /\ \/ ~Due(e) /\ event' = Moved(e, "silent")
     \/ Due(e) /\ event' = Moved(e, "untold")
     \/ Due(e) /\ event' = Moved(e, "sending")
  /\ UNCHANGED <<clock, marker, reader, process>>

\* The goroutine: the provider accepts the email, refuses it or times out, and
\* whichever it is nothing follows but a log line.
Deliver(e) ==
  /\ event[e].pc = "sending"
  /\ event' = Moved(e, "sent")
  /\ UNCHANGED <<clock, marker, reader, process>>

\* Mutant: the marker is put just after the newest message.
MarkRead_after(r, u) ==
  /\ Serving /\ Happened("opened") /\ clock < MaxClock
  /\ reader[r] = NoReader /\ \A q \in 1..(r - 1) : reader[q] # NoReader
  /\ clock' = clock
  /\ reader' = [reader EXCEPT ![r] = [user |-> u, at |-> clock + 1]]
  /\ UNCHANGED <<event, marker, process>>

MarkRead(r, u) ==
  /\ Serving /\ Happened("opened") /\ clock < MaxClock
  /\ reader[r] = NoReader /\ \A q \in 1..(r - 1) : reader[q] # NoReader
  /\ clock' = clock + 1
  /\ reader' = [reader EXCEPT ![r] = [user |-> u, at |-> clock + 1]]
  /\ UNCHANGED <<event, marker, process>>

\* Marks commit in any order, whatever their times.
MarkCommit(r) ==
  LET u == reader[r].user
      overtaken == {e \in Event : event[e].sender = Counterpart(u) /\ event[e].at > reader[r].at
                                  /\ event[e].pc \notin InFlight} IN
  /\ reader[r] # NoReader
  /\ marker' = [marker EXCEPT ![u] = reader[r].at]
  /\ event' = [e \in Event |-> IF e \in overtaken THEN [event[e] EXCEPT !.passed = TRUE] ELSE event[e]]
  /\ reader' = [reader EXCEPT ![r] = NoReader]
  /\ UNCHANGED <<clock, process>>

-----------------------------------------------------------------------------
(* The process. *)

Idle == (\A e \in Event : event[e].pc \notin InFlight) /\ (\A r \in Reader : reader[r] = NoReader)
Sending == {e \in Event : event[e].pc = "sending"}

\* SIGTERM: no new requests, and 15 seconds from here.
Signal ==
  /\ server = "up" /\ server' = "draining"
  /\ UNCHANGED <<requests, late, held>>

Deadline ==
  /\ server \in {"draining", "waiting"} /\ ~late /\ late' = TRUE
  /\ UNCHANGED <<requests, server, held>>

\* Mutant: the emails are waited for before the requests that cause them.
Drained_emailsOnly ==
  /\ server = "draining" /\ Sending = {} /\ server' = "waiting"
  /\ UNCHANGED <<requests, late, held>>

\* srv.Shutdown returns once no request is at work,
Drained ==
  /\ server = "draining" /\ Idle /\ server' = "waiting"
  /\ UNCHANGED <<requests, late, held>>

\* or gives up at the deadline, and run returns the error; it returns at once when
\* the listener fails.  Either way pool.Close is deferred, and requests are at work.
Close(to) ==
  /\ server' = to /\ held' \in BOOLEAN
  /\ UNCHANGED <<requests, late>>

GiveUp == server = "draining" /\ late /\ Close("closing")
Fail == server = "up" /\ Close("failing")

\* The process is gone: emails under way are cut off, requests under way end
\* where they are, a write with or without its commit.
Exit(to) ==
  /\ server' = to
  /\ \E saved \in SUBSET {e \in Event : event[e].pc = "writing"} :
       event' = [e \in Event |->
         CASE event[e].pc = "sending"                  -> [event[e] EXCEPT !.pc = "cut"]
           [] event[e].pc = "written" \/ e \in saved   -> [event[e] EXCEPT !.pc = "untold"]
           [] event[e].pc = "writing" /\ e \notin saved -> NoEvent
           [] OTHER                                    -> event[e]]
  /\ reader' = [r \in Reader |-> NoReader]
  /\ late' = FALSE /\ held' = FALSE
  /\ UNCHANGED <<clock, marker>>

\* pool.Close waits for every connection to be given back: Shutdown cancels no
\* request's context, and no query has a time limit.
Release ==
  /\ held /\ held' = FALSE
  /\ UNCHANGED <<requests, server, late>>

Closed ==
  /\ server \in {"closing", "failing"} /\ ~held
  /\ (\A e \in Event : event[e].pc # "writing") /\ (\A r \in Reader : reader[r] = NoReader)
  /\ Exit(IF server = "closing" THEN "stopped" ELSE "down")

\* WaitForNotifications, or the deadline, whichever comes first; no request is
\* left, and emails hold no connection, so that pool.Close returns at once.
Waited == server = "waiting" /\ Sending = {} /\ Exit("stopped")

\* Mutant: run waits for the emails alone.
Overdue_never == FALSE /\ Exit("stopped")

Overdue == server = "waiting" /\ late /\ Exit("stopped")

\* The process is killed.
Crash == server \notin {"stopped", "down"} /\ Exit("down")

Restart ==
  /\ server \in {"stopped", "down"} /\ server' = "up"
  /\ UNCHANGED <<requests, late, held>>

-----------------------------------------------------------------------------
Init ==
  /\ clock = 0
  /\ event = [e \in Event |-> NoEvent]
  /\ marker = [u \in User |-> 0]
  /\ reader = [r \in Reader |-> NoReader]
  /\ server = "up" /\ late = FALSE /\ held = FALSE

Next ==
  \/ \E e \in Event :
       \/ \E u \in User : SendMessage(e, u) \/ \E text \in BOOLEAN : Open(e, u, text)
       \/ ShareAddress(e)
       \/ Commit(e) \/ Abandon(e) \/ Notify(e)
       \/ Deliver(e)
  \/ \E r \in Reader : MarkCommit(r) \/ \E u \in User : MarkRead(r, u)
  \/ Signal \/ Deadline \/ Drained \/ GiveUp \/ Fail \/ Release \/ Closed
  \/ Waited \/ Overdue \/ Crash \/ Restart

Spec == Init /\ [][Next]_vars

\* Only the shutdown itself is sure to go on: requests and the email provider
\* may hang, the deadline passes all the same, and the pool closes once no request
\* is at work.
FairSpec ==
  /\ Spec /\ WF_vars(Deadline) /\ WF_vars(Drained \/ GiveUp)
  /\ WF_vars(Waited \/ Overdue) /\ WF_vars(Idle /\ Closed)

===============================================================================
