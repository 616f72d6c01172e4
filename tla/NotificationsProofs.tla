-------------------------- MODULE NotificationsProofs --------------------------
(***************************************************************************)
(* Proofs, for any number of requests and writes, of the safety properties *)
(* of Notifications.                                                       *)
(***************************************************************************)
EXTENDS NotificationsProperties, FiniteSetTheorems, TLAPS

-----------------------------------------------------------------------------
(* The inductive invariant. *)

\* A request that writes has one of the participants behind it, and a reply has
\* a text; so has a mark.
Named ==
  /\ \A e \in Event : event[e].pc # "unused" =>
       event[e].sender \in User /\ (event[e].kind = "reply" => event[e].text)
  /\ \A r \in Reader : reader[r] # NoReader => reader[r].user \in User

\* No two writes begin at the same time.
Dated ==
  \A e, f \in Event :
    event[e].pc # "unused" /\ event[f].pc # "unused" /\ e # f => event[e].at # event[f].at

\* Once srv.Shutdown has returned no request is at work; it gives up only at the
\* deadline.
Drain == (server = "waiting" => Idle) /\ (server = "closing" => late)

NotificationsInv == TypeOK /\ Named /\ Dated /\ Drain /\ FirstUnreadTold

\* What an event's record may be once the clock shows t.
EventUntil(t) ==
  [kind : Kind, sender : User \cup {Nobody}, text : BOOLEAN, at : 0..t, pc : Phase, passed : BOOLEAN]

\* A step that only takes requests on: no message is redated or withdrawn, no
\* marker moves and no request falls silent.
GoesOn ==
  /\ marker' = marker
  /\ \A e \in Event :
       /\ Committed(e) => /\ event'[e].pc \notin {"unused", "writing"}
                          /\ event'[e].text = event[e].text
                          /\ event'[e].sender = event[e].sender
                          /\ event'[e].at = event[e].at
                          /\ event'[e].passed = event[e].passed
       /\ event'[e].pc = "silent" => event[e].pc = "silent"

\* A step after which every request that has begun is one that had, with its
\* record but for where it stands.
MovesOnly ==
  \A e \in Event : event'[e].pc # "unused" =>
    /\ event[e].pc # "unused"
    /\ event'[e].sender = event[e].sender /\ event'[e].kind = event[e].kind
    /\ event'[e].text = event[e].text /\ event'[e].at = event[e].at

-----------------------------------------------------------------------------
(* Lemmas on users and sets. *)

LEMMA Counterparts ==
  ASSUME NEW u \in User
  PROVE  Counterpart(u) \in User /\ Counterpart(u) # u /\ Counterpart(Counterpart(u)) = u
BY NotificationsAssumption DEF Counterpart, User

LEMMA OneOfTwo ==
  ASSUME NEW u \in User, NEW v \in User
  PROVE  v # u <=> u = Counterpart(v)
BY NotificationsAssumption DEF Counterpart, User

\* Finitely many requests are unread up to a message; when it is one, it is the
\* only one, and when it is not one, the message is not the only one.
LEMMA CountsOne ==
  ASSUME NEW S \in SUBSET Event
  PROVE  /\ Cardinality(S) = 1 => \A e, f \in S : e = f
         /\ Cardinality(S) # 1 => \A e \in S : \E f \in S : f # e
<1>1. IsFiniteSet(S)
  <2>1. IsFiniteSet(Event)
    BY FS_Interval, NotificationsAssumption DEF Event
  <2> QED BY <2>1, FS_Subset
<1>2. Cardinality(S) = 1 <=> \E x : S = {x}
  BY <1>1, FS_Singleton
<1>3. ASSUME Cardinality(S) # 1, NEW e \in S
      PROVE  \E f \in S : f # e
  BY <1>2, <1>3
<1> QED BY <1>2, <1>3

-----------------------------------------------------------------------------
(* Types. *)

LEMMA NoEventTyped ==
  ASSUME TypeOK
  PROVE  NoEvent \in EventUntil(clock)
BY NotificationsAssumption DEF NoEvent, EventUntil, Kind, Phase, TypeOK

LEMMA MovedTyped ==
  ASSUME TypeOK, NEW e \in Event, NEW pc \in Phase
  PROVE  Moved(e, pc) \in [Event -> EventUntil(clock)]
BY DEF TypeOK, Moved, EventUntil

LEMMA BeginTyped ==
  ASSUME TypeOK, NEW e \in Event, NEW kind \in Kind, NEW u \in User, NEW text \in BOOLEAN,
         Begin(e, kind, u, text)
  PROVE  TypeOK'
<1> DEFINE new == [kind |-> kind, sender |-> u, text |-> text, at |-> clock + 1,
                   pc |-> "writing", passed |-> FALSE]
<1>1. clock' \in 0..MaxClock /\ clock' = clock + 1 /\ clock \in Nat
  BY NotificationsAssumption DEF Begin, TypeOK
<1>2. new \in EventUntil(clock')
  BY <1>1 DEF EventUntil, Phase, InFlight
<1>3. event \in [Event -> EventUntil(clock')]
  BY <1>1 DEF TypeOK, EventUntil
<1>4. event' = [event EXCEPT ![e] = new]
  BY DEF Begin
<1>5. event' \in [Event -> EventUntil(clock')]
  BY <1>2, <1>3, <1>4
<1>6. marker' \in [User -> 0..clock']
  BY <1>1 DEF Begin, TypeOK
<1>7. reader' \in [Reader -> [user : User \cup {Nobody}, at : 0..clock']]
  BY <1>1 DEF Begin, TypeOK
<1>8. UNCHANGED process
  BY DEF Begin
<1> QED BY <1>1, <1>5, <1>6, <1>7, <1>8 DEF TypeOK, EventUntil, process

\* A request that begins is one of three.
LEMMA Begins ==
  ASSUME NEW e \in Event,
         \/ \E u \in User : SendMessage(e, u) \/ \E text \in BOOLEAN : Open(e, u, text)
         \/ ShareAddress(e)
  PROVE  \E kind \in Kind, u \in User, text \in BOOLEAN :
           Begin(e, kind, u, text) /\ (kind = "reply" => text)
<1>1. CASE \E u \in User : SendMessage(e, u)
  BY <1>1 DEF SendMessage, Kind
<1>2. CASE \E u \in User : \E text \in BOOLEAN : Open(e, u, text)
  BY <1>2 DEF Open, Kind
<1>3. CASE ShareAddress(e)
  BY <1>3 DEF ShareAddress, Kind, User
<1> QED BY <1>1, <1>2, <1>3

\* A request moves on, or is taken back.
LEMMA EventStepTyped ==
  ASSUME TypeOK, event' \in [Event -> EventUntil(clock)],
         UNCHANGED <<clock, marker, reader, process>>
  PROVE  TypeOK'
BY DEF TypeOK, EventUntil, process

LEMMA RequestTyped ==
  ASSUME TypeOK, NEW e \in Event, Commit(e) \/ Abandon(e) \/ Notify(e) \/ Deliver(e)
  PROVE  TypeOK'
<1>1. event' \in [Event -> EventUntil(clock)]
  <2>1. CASE event' = [event EXCEPT ![e] = NoEvent]
    <3>1. event \in [Event -> EventUntil(clock)]
      BY DEF TypeOK, EventUntil
    <3> QED BY <2>1, <3>1, NoEventTyped
  <2>2. CASE \E pc \in Phase : event' = Moved(e, pc)
    BY <2>2, MovedTyped
  <2>3. \/ event' = [event EXCEPT ![e] = NoEvent]
        \/ \E pc \in {"written", "untold", "silent", "sending", "sent"} : event' = Moved(e, pc)
    BY DEF Commit, Abandon, Notify, Deliver
  <2> QED BY <2>1, <2>2, <2>3 DEF Phase, InFlight, Emailed
<1>2. UNCHANGED <<clock, marker, reader, process>>
  BY DEF Commit, Abandon, Notify, Deliver
<1> QED BY <1>1, <1>2, EventStepTyped

LEMMA MarkReadTyped ==
  ASSUME TypeOK, NEW r \in Reader, NEW u \in User, MarkRead(r, u)
  PROVE  TypeOK'
<1> DEFINE new == [user |-> u, at |-> clock + 1]
<1>1. clock' \in 0..MaxClock /\ clock' = clock + 1 /\ clock \in Nat
  BY NotificationsAssumption DEF MarkRead, TypeOK
<1>2. event' \in [Event -> EventUntil(clock')]
  BY <1>1 DEF MarkRead, TypeOK, EventUntil
<1>3. marker' \in [User -> 0..clock']
  BY <1>1 DEF MarkRead, TypeOK
<1>4. reader' \in [Reader -> [user : User \cup {Nobody}, at : 0..clock']]
  <2>1. new \in [user : User \cup {Nobody}, at : 0..clock']
    BY <1>1
  <2>2. reader \in [Reader -> [user : User \cup {Nobody}, at : 0..clock']]
    BY <1>1 DEF TypeOK
  <2>3. reader' = [reader EXCEPT ![r] = new]
    BY DEF MarkRead
  <2> QED BY <2>1, <2>2, <2>3
<1>5. UNCHANGED process
  BY DEF MarkRead
<1> QED BY <1>1, <1>2, <1>3, <1>4, <1>5 DEF TypeOK, EventUntil, process

LEMMA MarkCommitTyped ==
  ASSUME TypeOK, Named, NEW r \in Reader, MarkCommit(r)
  PROVE  TypeOK'
<1>1. clock' = clock /\ clock \in Nat /\ UNCHANGED process
  BY NotificationsAssumption DEF MarkCommit, TypeOK
<1>2. event' \in [Event -> EventUntil(clock)]
  <2>1. PICK S : event' = [e \in Event |-> IF e \in S THEN [event[e] EXCEPT !.passed = TRUE]
                                           ELSE event[e]]
    BY DEF MarkCommit
  <2>2. \A e \in Event : event[e] \in EventUntil(clock)
    BY DEF TypeOK, EventUntil
  <2>3. \A e \in Event : [event[e] EXCEPT !.passed = TRUE] \in EventUntil(clock)
    BY <2>2 DEF EventUntil
  <2> QED BY <2>1, <2>2, <2>3
<1>3. marker' \in [User -> 0..clock]
  BY DEF MarkCommit, TypeOK, Named
<1>4. reader' \in [Reader -> [user : User \cup {Nobody}, at : 0..clock]]
  BY <1>1 DEF MarkCommit, TypeOK, NoReader
<1> QED BY <1>1, <1>2, <1>3, <1>4 DEF TypeOK, EventUntil, process

LEMMA ExitTyped ==
  ASSUME TypeOK, NEW to \in {"stopped", "down"}, Exit(to)
  PROVE  TypeOK'
<1>1. /\ clock' = clock /\ clock \in Nat /\ marker' = marker
      /\ server' = to /\ late' = FALSE /\ held' = FALSE
  BY NotificationsAssumption DEF Exit, TypeOK
<1>2. event' \in [Event -> EventUntil(clock)]
  <2>1. \A e \in Event : event[e] \in EventUntil(clock)
    BY DEF TypeOK, EventUntil
  <2>2. \A e \in Event : /\ [event[e] EXCEPT !.pc = "cut"] \in EventUntil(clock)
                         /\ [event[e] EXCEPT !.pc = "untold"] \in EventUntil(clock)
    BY <2>1 DEF EventUntil, Phase, Emailed
  <2>3. PICK saved \in SUBSET {e \in Event : event[e].pc = "writing"} :
          event' = [e \in Event |->
            CASE event[e].pc = "sending"                  -> [event[e] EXCEPT !.pc = "cut"]
              [] event[e].pc = "written" \/ e \in saved   -> [event[e] EXCEPT !.pc = "untold"]
              [] event[e].pc = "writing" /\ e \notin saved -> NoEvent
              [] OTHER                                    -> event[e]]
    BY DEF Exit
  <2>4. \A e \in Event : event'[e] \in EventUntil(clock)
    BY <2>1, <2>2, <2>3, NoEventTyped
  <2> QED BY <2>3, <2>4
<1>3. reader' \in [Reader -> [user : User \cup {Nobody}, at : 0..clock]]
  BY <1>1 DEF Exit, NoReader
<1> QED BY <1>1, <1>2, <1>3 DEF TypeOK, EventUntil

-----------------------------------------------------------------------------
(* What the steps keep. *)

LEMMA MovesKeep ==
  ASSUME Named, Dated, MovesOnly, \A r \in Reader : reader'[r] # NoReader => reader'[r] = reader[r]
  PROVE  Named' /\ Dated'
<1>1. Named'
  BY DEF Named, MovesOnly
<1>2. Dated'
  BY DEF Dated, MovesOnly
<1> QED BY <1>1, <1>2

\* A request that begins is dated after all that have begun.
LEMMA BeginKeeps ==
  ASSUME TypeOK, Named, Dated, NEW e \in Event, NEW kind \in Kind, NEW u \in User,
         NEW text \in BOOLEAN, kind = "reply" => text, Begin(e, kind, u, text)
  PROVE  Named' /\ Dated' /\ GoesOn
<1>1. /\ event[e].pc = "unused" /\ clock \in Nat
      /\ event'[e].at = clock + 1 /\ event'[e].pc = "writing" /\ event'[e].sender = u
      /\ event'[e].kind = kind /\ event'[e].text = text
      /\ \A f \in Event : f # e => event'[f] = event[f]
      /\ \A f \in Event : event[f].at \in Nat /\ event[f].at < clock + 1
      /\ reader' = reader /\ marker' = marker
  BY NotificationsAssumption DEF Begin, TypeOK
<1>2. Named'
  BY <1>1 DEF Named
<1>3. Dated'
  BY <1>1 DEF Dated
<1>4. GoesOn
  BY <1>1 DEF GoesOn, Committed
<1> QED BY <1>2, <1>3, <1>4

LEMMA RequestKeeps ==
  ASSUME TypeOK, NEW e \in Event, Commit(e) \/ Abandon(e) \/ Notify(e) \/ Deliver(e)
  PROVE  /\ MovesOnly /\ reader' = reader
         /\ event'[e].pc # "silent" => GoesOn
<1>1. /\ DOMAIN event = Event /\ reader' = reader /\ marker' = marker
      /\ event[e].pc \in {"writing", "written", "sending"}
  BY DEF TypeOK, Commit, Abandon, Notify, Deliver
<1>2. CASE event[e].pc = "writing" /\ event' = [event EXCEPT ![e] = NoEvent]
  <2>1. event'[e].pc = "unused" /\ \A f \in Event : f # e => event'[f] = event[f]
    BY <1>1, <1>2 DEF NoEvent
  <2> QED BY <1>1, <1>2, <2>1 DEF MovesOnly, GoesOn, Committed
<1>3. CASE \E pc \in {"written", "untold", "silent", "sending", "sent"} : event' = Moved(e, pc)
  <2>1. PICK pc \in {"written", "untold", "silent", "sending", "sent"} : event' = Moved(e, pc)
    BY <1>3
  <2>2. /\ \A f \in Event : f # e => event'[f] = event[f]
        /\ event'[e] = [event[e] EXCEPT !.pc = pc]
    BY <1>1, <2>1 DEF Moved
  <2>3. /\ event'[e].pc = pc /\ event'[e].sender = event[e].sender
        /\ event'[e].kind = event[e].kind /\ event'[e].text = event[e].text
        /\ event'[e].at = event[e].at /\ event'[e].passed = event[e].passed
    BY <2>2 DEF TypeOK
  <2>4. MovesOnly
    BY <1>1, <2>2, <2>3 DEF MovesOnly
  <2>5. ASSUME pc # "silent"
        PROVE  GoesOn
    BY <1>1, <2>2, <2>3, <2>5 DEF GoesOn, Committed
  <2> QED BY <1>1, <2>3, <2>4, <2>5
<1>4. \/ event[e].pc = "writing" /\ event' = [event EXCEPT ![e] = NoEvent]
      \/ \E pc \in {"written", "untold", "silent", "sending", "sent"} : event' = Moved(e, pc)
  BY DEF Commit, Abandon, Notify, Deliver
<1> QED BY <1>2, <1>3, <1>4

LEMMA ExitKeeps ==
  ASSUME TypeOK, NEW to, Exit(to)
  PROVE  MovesOnly /\ GoesOn /\ \A r \in Reader : reader'[r] = NoReader
<1>1. PICK saved \in SUBSET {e \in Event : event[e].pc = "writing"} :
        event' = [e \in Event |->
          CASE event[e].pc = "sending"                  -> [event[e] EXCEPT !.pc = "cut"]
            [] event[e].pc = "written" \/ e \in saved   -> [event[e] EXCEPT !.pc = "untold"]
            [] event[e].pc = "writing" /\ e \notin saved -> NoEvent
            [] OTHER                                    -> event[e]]
  BY DEF Exit
<1>2. ASSUME NEW e \in Event
      PROVE  \/ event'[e] = event[e] /\ event[e].pc \notin {"writing", "written", "sending"}
             \/ event[e].pc = "sending" /\ event'[e] = [event[e] EXCEPT !.pc = "cut"]
             \/ /\ event[e].pc \in {"writing", "written"}
                /\ event'[e] = [event[e] EXCEPT !.pc = "untold"]
             \/ event[e].pc = "writing" /\ event'[e] = NoEvent
  BY <1>1
<1>3. marker' = marker /\ \A r \in Reader : reader'[r] = NoReader
  BY DEF Exit
<1>4. ASSUME NEW e \in Event, NEW pc, event'[e] = [event[e] EXCEPT !.pc = pc]
      PROVE  /\ event'[e].pc = pc /\ event'[e].sender = event[e].sender
             /\ event'[e].kind = event[e].kind /\ event'[e].text = event[e].text
             /\ event'[e].at = event[e].at /\ event'[e].passed = event[e].passed
  BY <1>4 DEF TypeOK
<1>5. NoEvent.pc = "unused"
  BY DEF NoEvent
<1>6. MovesOnly
  <2> SUFFICES ASSUME NEW e \in Event, event'[e].pc # "unused"
               PROVE  /\ event[e].pc # "unused"
                      /\ event'[e].sender = event[e].sender /\ event'[e].kind = event[e].kind
                      /\ event'[e].text = event[e].text /\ event'[e].at = event[e].at
    BY DEF MovesOnly
  <2>1. CASE event'[e] = event[e] /\ event[e].pc \notin {"writing", "written", "sending"}
    BY <2>1
  <2>2. CASE event[e].pc = "sending" /\ event'[e] = [event[e] EXCEPT !.pc = "cut"]
    BY <1>4, <2>2
  <2>3. CASE event[e].pc \in {"writing", "written"} /\ event'[e] = [event[e] EXCEPT !.pc = "untold"]
    BY <1>4, <2>3
  <2>4. event'[e] # NoEvent
    BY <1>5
  <2> QED BY <1>2, <2>1, <2>2, <2>3, <2>4
<1>7. GoesOn
  <2>1. ASSUME NEW e \in Event
        PROVE  /\ Committed(e) => /\ event'[e].pc \notin {"unused", "writing"}
                                  /\ event'[e].text = event[e].text
                                  /\ event'[e].sender = event[e].sender
                                  /\ event'[e].at = event[e].at
                                  /\ event'[e].passed = event[e].passed
               /\ event'[e].pc = "silent" => event[e].pc = "silent"
    <3>1. CASE event'[e] = event[e] /\ event[e].pc \notin {"writing", "written", "sending"}
      BY <3>1 DEF Committed
    <3>2. CASE event[e].pc = "sending" /\ event'[e] = [event[e] EXCEPT !.pc = "cut"]
      BY <1>4, <3>2
    <3>3. CASE /\ event[e].pc \in {"writing", "written"}
               /\ event'[e] = [event[e] EXCEPT !.pc = "untold"]
      BY <1>4, <3>3
    <3>4. CASE event[e].pc = "writing" /\ event'[e] = NoEvent
      BY <1>5, <3>4 DEF Committed
    <3> QED BY <1>2, <3>1, <3>2, <3>3, <3>4
  <2> QED BY <1>3, <2>1 DEF GoesOn
<1> QED BY <1>3, <1>6, <1>7

\* Who had the first unread message, silent, still has it, and it is marked
\* passed as it was.
LEMMA GoesOnTells ==
  ASSUME FirstUnreadTold, GoesOn
  PROVE  FirstUnreadTold'
<1> SUFFICES ASSUME NEW u \in User, NEW e \in Event, (e \in Unread(u))',
                    event'[e].pc = "silent",
                    \A f \in Unread(u)' : event'[f].at >= event'[e].at
             PROVE  event'[e].passed
  BY DEF FirstUnreadTold, Unread
<1>1. event[e].pc = "silent" /\ Committed(e)
  BY DEF GoesOn, Committed
<1>2. e \in Unread(u) /\ event'[e].at = event[e].at /\ event'[e].passed = event[e].passed
  BY <1>1 DEF GoesOn, Unread
<1>3. ASSUME NEW f \in Unread(u)
      PROVE  f \in Unread(u)' /\ event'[f].at = event[f].at
  BY DEF GoesOn, Unread, Committed
<1>4. \A f \in Unread(u) : event[f].at >= event[e].at
  BY <1>2, <1>3
<1> QED BY <1>1, <1>2, <1>4 DEF FirstUnreadTold

\* A reply keeps silent because the recipient has not read an earlier message,
\* or has read this one: "only for the first message the recipient has not
\* read" (notify).
LEMMA SilenceTells ==
  ASSUME TypeOK, Named, Dated, FirstUnreadTold, NEW e \in Event, Notify(e),
         event'[e].pc = "silent"
  PROVE  FirstUnreadTold'
<1>1. /\ event[e].pc = "written" /\ ~Due(e) /\ event' = Moved(e, "silent") /\ marker' = marker
      /\ \A f \in Event : f # e => event'[f] = event[f]
      /\ event'[e] = [event[e] EXCEPT !.pc = "silent"]
  BY DEF Notify, Moved, TypeOK
<1>2. /\ event'[e].sender = event[e].sender /\ event'[e].text = event[e].text
      /\ event'[e].at = event[e].at
  BY <1>1 DEF TypeOK
<1> SUFFICES ASSUME NEW u \in User, NEW g \in Event, (g \in Unread(u))',
                    event'[g].pc = "silent",
                    \A f \in Unread(u)' : event'[f].at >= event'[g].at
             PROVE  event'[g].passed
  BY DEF FirstUnreadTold, Unread
<1>3. \A f \in Event : f \in Unread(u)' <=> f \in Unread(u)
  BY <1>1, <1>2 DEF Unread, Committed
<1>4. \A f \in Event : event'[f].at = event[f].at
  BY <1>1, <1>2
<1>5. g \in Unread(u) /\ \A f \in Unread(u) : event[f].at >= event[g].at
  <2>1. \A f \in Unread(u) : f \in Event
    BY DEF Unread
  <2> QED BY <1>3, <1>4, <2>1
<1>6. CASE g # e
  BY <1>1, <1>5, <1>6 DEF FirstUnreadTold
<1>7. CASE g = e
  <2>1. event[e].sender \in User /\ event[e].kind = "reply" /\ Cardinality(UnreadThrough(e)) # 1
    BY <1>1 DEF Due, Named
  <2>2. u = Counterpart(event[e].sender)
    BY <1>5, <1>7, <2>1, OneOfTwo DEF Unread
  <2>3. e \in UnreadThrough(e) /\ UnreadThrough(e) \in SUBSET Event
    BY <1>5, <1>7, <2>2 DEF UnreadThrough, Unread, TypeOK
  <2>4. PICK f \in UnreadThrough(e) : f # e
    BY <2>1, <2>3, CountsOne
  <2>5. f \in Unread(u) /\ event[f].at <= event[e].at /\ f \in Event /\ event[f].pc # "unused"
    BY <2>2, <2>4 DEF UnreadThrough, Unread, Committed
  <2>6. event[f].at # event[e].at /\ event[f].at \in Nat /\ event[e].at \in Nat
    BY <1>1, <2>4, <2>5 DEF Dated, TypeOK
  <2> QED BY <1>5, <1>7, <2>5, <2>6
<1> QED BY <1>6, <1>7

\* A mark that commits leaves behind what it was begun before.
LEMMA MarkCommitKeeps ==
  ASSUME TypeOK, Named, Dated, FirstUnreadTold, NEW r \in Reader, MarkCommit(r)
  PROVE  Named' /\ Dated' /\ FirstUnreadTold'
<1> DEFINE v == reader[r].user
           t == reader[r].at
           overtaken == {e \in Event : event[e].sender = Counterpart(v) /\ event[e].at > t
                                       /\ event[e].pc \notin InFlight}
<1>1. /\ v \in User /\ t \in Nat
      /\ marker' = [marker EXCEPT ![v] = t]
      /\ \A e \in Event : event'[e] = IF e \in overtaken THEN [event[e] EXCEPT !.passed = TRUE]
                                      ELSE event[e]
      /\ reader' = [reader EXCEPT ![r] = NoReader]
  BY NotificationsAssumption DEF MarkCommit, Named, TypeOK
<1>2. \A e \in Event :
        /\ event'[e].pc = event[e].pc /\ event'[e].sender = event[e].sender
        /\ event'[e].kind = event[e].kind /\ event'[e].text = event[e].text
        /\ event'[e].at = event[e].at
        /\ e \in overtaken => event'[e].passed
        /\ e \notin overtaken => event'[e].passed = event[e].passed
  <2> HIDE DEF overtaken
  <2> QED BY <1>1 DEF TypeOK
<1> HIDE DEF v, t
<1>3. \A q \in Reader : reader'[q] # NoReader => reader'[q] = reader[q]
  BY <1>1 DEF TypeOK
<1>4. MovesOnly
  BY <1>2 DEF MovesOnly
<1>5. Named' /\ Dated'
  BY <1>3, <1>4, MovesKeep
<1>6. FirstUnreadTold'
  <2> SUFFICES ASSUME NEW u \in User, NEW e \in Event, (e \in Unread(u))',
                      event'[e].pc = "silent",
                      \A f \in Unread(u)' : event'[f].at >= event'[e].at
               PROVE  event'[e].passed
    BY DEF FirstUnreadTold, Unread
  <2>1. event[e].pc = "silent" /\ Committed(e) /\ event[e].text /\ event[e].sender # u
    BY <1>2 DEF Unread, Committed
  <2>2. CASE u = v
    <3>1. event[e].at > t
      BY <1>1, <1>2, <2>2 DEF Unread, TypeOK
    <3>2. event[e].sender = Counterpart(v)
      BY <2>1, <2>2, OneOfTwo, Counterparts DEF Named
    <3> QED BY <1>2, <2>1, <3>1, <3>2 DEF InFlight
  <2>3. CASE u # v
    <3>1. marker'[u] = marker[u]
      BY <1>1, <2>3 DEF TypeOK
    <3>2. \A f \in Event : f \in Unread(u)' <=> f \in Unread(u)
      BY <1>2, <3>1 DEF Unread, Committed
    <3>3. e \in Unread(u) /\ \A f \in Unread(u) : event[f].at >= event[e].at
      <4>1. \A f \in Unread(u) : f \in Event
        BY DEF Unread
      <4> QED BY <1>2, <3>2, <4>1
    <3>4. event[e].passed
      BY <2>1, <3>3 DEF FirstUnreadTold
    <3> QED BY <1>2, <3>4
  <2> QED BY <2>2, <2>3
<1> QED BY <1>5, <1>6

-----------------------------------------------------------------------------
(* The theorems. *)

\* From the first state on, rows and requests have their types and owners,
\* write times differ, srv.Shutdown waits for the requests, and the first
\* unread message has told.
THEOREM Invariance == Spec => []NotificationsInv
<1>1. Init => NotificationsInv
  <2> SUFFICES ASSUME Init PROVE NotificationsInv
    OBVIOUS
  <2>1. /\ \A e \in Event : event[e] = NoEvent
        /\ \A r \in Reader : reader[r] = NoReader
        /\ server = "up"
    BY DEF Init
  <2>2. TypeOK
    <3>1. clock \in 0..MaxClock /\ clock = 0
      BY NotificationsAssumption DEF Init
    <3>2. event \in [Event -> EventUntil(0)]
      <4>1. NoEvent \in EventUntil(0)
        BY DEF NoEvent, EventUntil, Kind, Phase
      <4> QED BY <4>1 DEF Init
    <3>3. reader \in [Reader -> [user : User \cup {Nobody}, at : 0..0]]
      BY DEF Init, NoReader
    <3>4. marker \in [User -> 0..0]
      BY DEF Init
    <3>5. late = FALSE /\ held = FALSE /\ server = "up"
      BY DEF Init
    <3> QED BY <3>1, <3>2, <3>3, <3>4, <3>5 DEF TypeOK, EventUntil
  <2>3. NoEvent.pc = "unused"
    BY DEF NoEvent
  <2>4. Named /\ Dated /\ Drain
    BY <2>1, <2>3 DEF Named, Dated, Drain
  <2>5. FirstUnreadTold
    BY <2>1, <2>3 DEF FirstUnreadTold, Unread
  <2> QED BY <2>2, <2>4, <2>5 DEF NotificationsInv
<1>2. NotificationsInv /\ [Next]_vars => NotificationsInv'
  <2> SUFFICES ASSUME NotificationsInv, [Next]_vars PROVE NotificationsInv'
    OBVIOUS
  <2> USE DEF NotificationsInv
  <2>1. ASSUME NEW e \in Event,
               \/ \E u \in User : SendMessage(e, u) \/ \E text \in BOOLEAN : Open(e, u, text)
               \/ ShareAddress(e)
        PROVE  NotificationsInv'
    <3>1. PICK kind \in Kind, u \in User, text \in BOOLEAN :
            Begin(e, kind, u, text) /\ (kind = "reply" => text)
      BY <2>1, Begins
    <3>2. TypeOK' /\ Named' /\ Dated' /\ FirstUnreadTold'
      BY <3>1, BeginTyped, BeginKeeps, GoesOnTells
    <3>3. Drain'
      BY <3>1 DEF Begin, Serving, Drain, process
    <3> QED BY <3>2, <3>3
  <2>2. ASSUME NEW e \in Event, Commit(e) \/ Abandon(e) \/ Notify(e) \/ Deliver(e)
        PROVE  NotificationsInv'
    <3>1. TypeOK'
      BY <2>2, RequestTyped
    <3>2. Named' /\ Dated'
      BY <2>2, RequestKeeps, MovesKeep
    <3>3. FirstUnreadTold'
      <4>1. event'[e].pc = "silent" => Notify(e)
        <5>1. event[e] \in EventUntil(clock) /\ DOMAIN event = Event
          BY DEF TypeOK, EventUntil
        <5>2. Commit(e) => event'[e].pc = "written"
          BY <5>1 DEF Commit, Moved, EventUntil
        <5>3. Abandon(e) => event'[e].pc # "silent"
          BY <5>1 DEF Abandon, Moved, NoEvent, EventUntil
        <5>4. Deliver(e) => event'[e].pc = "sent"
          BY <5>1 DEF Deliver, Moved, EventUntil
        <5> QED BY <2>2, <5>2, <5>3, <5>4
      <4>2. CASE event'[e].pc = "silent"
        BY <4>1, <4>2, SilenceTells
      <4>3. CASE event'[e].pc # "silent"
        BY <2>2, <4>3, RequestKeeps, GoesOnTells
      <4> QED BY <4>2, <4>3
    <3>4. Drain'
      <4>1. server' = server /\ late' = late /\ reader' = reader
        BY <2>2 DEF Commit, Abandon, Notify, Deliver, process
      <4> SUFFICES ASSUME server' = "waiting" PROVE Idle'
        BY <4>1 DEF Drain
      <4>2. server = "waiting" /\ Idle
        BY <4>1 DEF Drain
      <4>3. event[e].pc = "sending" /\ Deliver(e) /\ Idle
        BY <2>2, <4>2 DEF Idle, InFlight, Commit, Abandon, Notify, Deliver
      <4>4. event'[e].pc = "sent" /\ \A f \in Event : f # e => event'[f] = event[f]
        BY <4>3 DEF Deliver, Moved, TypeOK
      <4> QED BY <4>1, <4>3, <4>4 DEF Idle, InFlight
    <3> QED BY <3>1, <3>2, <3>3, <3>4
  <2>3. ASSUME NEW r \in Reader, MarkCommit(r)
        PROVE  NotificationsInv'
    <3>1. TypeOK' /\ Named' /\ Dated' /\ FirstUnreadTold'
      BY <2>3, MarkCommitTyped, MarkCommitKeeps
    <3>2. Drain'
      BY <2>3 DEF Drain, Idle, MarkCommit, process
    <3> QED BY <3>1, <3>2
  <2>4. ASSUME NEW r \in Reader, NEW u \in User, MarkRead(r, u)
        PROVE  NotificationsInv'
    <3>1. TypeOK'
      BY <2>4, MarkReadTyped
    <3>2. /\ event' = event /\ marker' = marker
          /\ server' \in {"up", "draining"}
      BY <2>4 DEF MarkRead, Serving, process
    <3>3. \A q \in Reader : reader'[q] = reader[q] \/ reader'[q].user = u
      BY <2>4 DEF MarkRead, TypeOK
    <3>4. Named' /\ Dated' /\ Drain'
      BY <3>2, <3>3 DEF Named, Dated, Drain
    <3>5. FirstUnreadTold'
      BY <3>2 DEF FirstUnreadTold, Unread, Committed
    <3> QED BY <3>1, <3>4, <3>5
  <2>5. CASE Closed \/ Waited \/ Overdue \/ Crash
    <3>1. PICK to \in {"stopped", "down"} : Exit(to)
      BY <2>5 DEF Closed, Waited, Overdue, Crash
    <3>2. TypeOK'
      BY <3>1, ExitTyped
    <3>3. Named' /\ Dated' /\ FirstUnreadTold'
      BY <3>1, ExitKeeps, MovesKeep, GoesOnTells
    <3>4. Drain'
      BY <3>1 DEF Exit, Drain
    <3> QED BY <3>2, <3>3, <3>4
  <2>6. CASE \/ Signal \/ Deadline \/ Drained \/ GiveUp \/ Fail \/ Release
           \/ Restart \/ UNCHANGED vars
    <3>1. clock' = clock /\ event' = event /\ marker' = marker /\ reader' = reader
      BY <2>6 DEF Signal, Deadline, Drained, GiveUp, Fail, Close, Release, Restart,
                  vars, requests
    <3>2. TypeOK'
      BY <2>6, <3>1 DEF TypeOK, Signal, Deadline, Drained, GiveUp, Fail, Close, Release,
                        Restart, vars
    <3>3. Named' /\ Dated' /\ FirstUnreadTold'
      BY <3>1 DEF Named, Dated, FirstUnreadTold, Unread, Committed
    <3>4. Drain'
      BY <2>6, <3>1 DEF Drain, Idle, Signal, Deadline, Drained, GiveUp, Fail, Close,
                        Release, Restart, vars
    <3> QED BY <3>2, <3>3, <3>4
  <2> QED BY <2>1, <2>2, <2>3, <2>4, <2>5, <2>6 DEF Next
<1> QED BY <1>1, <1>2, PTL DEF Spec

\* Rows, requests and the process have their types, and nothing is dated later
\* than the writes begun, however many requests there are.
THEOREM TypeCorrect == Spec => []TypeOK
<1>1. NotificationsInv => TypeOK
  BY DEF NotificationsInv
<1> QED BY <1>1, Invariance, PTL

\* The first message waiting for a reader has not kept silent, unless a mark
\* begun before it committed after it had decided (GetNotificationRecipient).
THEOREM FirstUnreadTells == Spec => []FirstUnreadTold
<1>1. NotificationsInv => FirstUnreadTold
  BY DEF NotificationsInv
<1> QED BY <1>1, Invariance, PTL

\* A second reply email in an unread spell is for a message written before the
\* one already emailed (notify).
THEOREM SecondsAreEarlier == Spec => SecondIsEarlier
<1>1. NotificationsInv /\ [Next]_vars =>
        [\A e, f \in Event :
           LET u == Counterpart(event[e].sender) IN
           /\ event[e].kind = "reply" /\ event[e].pc = "written" /\ event'[e].pc = "sending"
           /\ event[f].kind = "reply" /\ event[f].pc \in Emailed /\ f \in Unread(u)
           => event[e].at < event[f].at]_vars
  <2> SUFFICES ASSUME NotificationsInv, Next, NEW e \in Event, NEW f \in Event,
                      event[e].kind = "reply", event[e].pc = "written", event'[e].pc = "sending",
                      event[f].pc \in Emailed, f \in Unread(Counterpart(event[e].sender)),
                      ~(event[e].at < event[f].at)
               PROVE  FALSE
    OBVIOUS
  <2> USE DEF NotificationsInv
  <2>1. event[e].sender \in User /\ event[e].text
    BY DEF Named
  <2>2. event[e].at \in Nat /\ event[f].at \in Nat /\ marker \in [User -> Nat]
    BY NotificationsAssumption DEF TypeOK
  <2>3. Notify(e)
    <3>1. ASSUME NEW g \in Event, NEW pc \in {"written", "untold", "silent", "sent"},
                 event' = Moved(g, pc)
          PROVE  FALSE
      BY <3>1 DEF Moved, TypeOK
    <3>2. ASSUME NEW g \in Event, event' = [event EXCEPT ![g] = NoEvent]
          PROVE  FALSE
      BY <3>2 DEF NoEvent, TypeOK
    <3>3. ASSUME NEW g \in Event,
                 \/ \E u \in User : SendMessage(g, u) \/ \E text \in BOOLEAN : Open(g, u, text)
                 \/ ShareAddress(g)
          PROVE  FALSE
      <4>1. PICK kind \in Kind, u \in User, text \in BOOLEAN : Begin(g, kind, u, text)
        BY <3>3, Begins
      <4> QED BY <4>1 DEF Begin, TypeOK
    <3>4. ASSUME NEW r \in Reader, MarkCommit(r)
          PROVE  FALSE
      <4>1. event'[e].pc = event[e].pc
        BY <3>4 DEF MarkCommit, TypeOK
      <4> QED BY <4>1
    <3>5. ASSUME NEW to, Exit(to)
          PROVE  FALSE
      <4>1. event'[e] = [event[e] EXCEPT !.pc = "untold"]
        BY <3>5 DEF Exit
      <4> QED BY <4>1 DEF TypeOK
    <3>6. CASE \E g \in Event : Commit(g) \/ Abandon(g) \/ Notify(g) \/ Deliver(g)
      <4>1. PICK g \in Event : Commit(g) \/ Abandon(g) \/ Notify(g) \/ Deliver(g)
        BY <3>6
      <4>2. Notify(g) /\ event' = Moved(g, "sending")
        BY <3>1, <3>2, <4>1 DEF Commit, Abandon, Notify, Deliver
      <4>3. g = e
        BY <4>2 DEF Moved, TypeOK
      <4> QED BY <4>2, <4>3
    <3>7. event' # event
      OBVIOUS
    <3>8. \/ \E g \in Event :
               \/ \E u \in User : SendMessage(g, u) \/ \E text \in BOOLEAN : Open(g, u, text)
               \/ ShareAddress(g)
          \/ \E g \in Event : Commit(g) \/ Abandon(g) \/ Notify(g) \/ Deliver(g)
          \/ \E r \in Reader : MarkCommit(r)
          \/ \E to \in {"stopped", "down"} : Exit(to)
      BY <3>7 DEF Next, MarkRead, Signal, Deadline, Drained, GiveUp, Fail, Close, Release, Closed,
                  Waited, Overdue, Crash, Restart, requests
    <3> QED BY <3>3, <3>4, <3>5, <3>6, <3>8
  <2>4. Cardinality(UnreadThrough(e)) = 1
    <3>1. event'[e].pc # "silent" \/ Due(e)
      BY <2>3 DEF Notify
    <3>2. Due(e)
      BY <2>3 DEF Notify, Moved, TypeOK
    <3> QED BY <3>2 DEF Due
  <2>5. f \in UnreadThrough(e) /\ UnreadThrough(e) \in SUBSET Event
    BY <2>2 DEF UnreadThrough, Unread
  <2>6. e \in UnreadThrough(e)
    <3>1. Counterpart(event[e].sender) \in User /\ Counterpart(event[e].sender) # event[e].sender
      BY <2>1, Counterparts
    <3>2. event[e].at > marker[Counterpart(event[e].sender)]
      BY <2>2, <3>1 DEF Unread
    <3> QED BY <2>1, <2>2, <3>1, <3>2 DEF UnreadThrough, Unread, Committed
  <2>7. e = f
    BY <2>4, <2>5, <2>6, CountsOne
  <2> QED BY <2>7 DEF Emailed
<1> QED BY <1>1, Invariance, PTL DEF Spec, SecondIsEarlier

\* A shutdown within its deadline ends no request before its decision and cuts
\* no email off: run waits for the requests first and then for the emails.
THEOREM ShutdownsCutNothing == Spec => ShutdownCutsNothing
<1>1. NotificationsInv /\ [Next]_vars =>
        [server # "stopped" /\ server' = "stopped" /\ ~late =>
           \A e \in Event : event[e].pc \notin InFlight \cup {"sending"}]_vars
  <2> SUFFICES ASSUME NotificationsInv, Next, server # "stopped", server' = "stopped", ~late
               PROVE  \A e \in Event : event[e].pc \notin InFlight \cup {"sending"}
    OBVIOUS
  <2>1. Waited
    <3>1. ~Closed
      BY DEF Closed, NotificationsInv, Drain, Exit
    <3> QED
      BY <3>1 DEF Next, SendMessage, Open, ShareAddress, Begin, Commit, Abandon, Notify, Deliver,
                  MarkCommit, MarkRead, Signal, Deadline, Drained, GiveUp, Fail, Close, Release,
                  Overdue, Crash, Exit, Restart, process
  <2>2. Idle /\ Sending = {}
    BY <2>1 DEF Waited, NotificationsInv, Drain
  <2> QED BY <2>2 DEF Idle, Sending
<1> QED BY <1>1, Invariance, PTL DEF Spec, ShutdownCutsNothing

===============================================================================
