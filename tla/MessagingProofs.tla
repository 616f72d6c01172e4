--------------------------- MODULE MessagingProofs ---------------------------
(***************************************************************************)
(* Proofs, for any number of users, listings, housing requests and         *)
(* handlers, of the properties of Messaging.                               *)
(***************************************************************************)
EXTENDS MessagingRefinesThread, TLAPS

-----------------------------------------------------------------------------
(* Lemmas on the tables and on the requests being served. *)

\* A conversation's key names its two different participants.
LEMMA PairFacts ==
  ASSUME NEW c \in Pair
  PROVE  /\ c[1] \in Listing /\ c[2] \in User
         /\ c = <<c[1], c[2]>>
         /\ OwnerOf(c) \in User /\ EnquirerOf(c) \in User
         /\ OwnerOf(c) # EnquirerOf(c)
         /\ OwnerOf(c) # Nobody /\ EnquirerOf(c) # Nobody
BY MessagingAssumption DEF Pair, OwnerOf, EnquirerOf

\* The key an offer's conversation has.
LEMMA PairOf ==
  ASSUME NEW l \in Listing, NEW u \in User, <<l, u>> \in Pair
  PROVE  /\ OwnerOf(<<l, u>>) = Owner[l]
         /\ EnquirerOf(<<l, u>>) = u
         /\ <<l, u>>[1] = l
BY DEF OwnerOf, EnquirerOf

LEMMA IdleType == Idle \in Request
BY DEF Idle, Request, Finished, Step

LEMMA AcceptType ==
  ASSUME NEW h \in Handler, NEW op \in Op, NEW pc \in Step, NEW u \in User, NEW c \in Pair,
         NEW r \in Post \cup {Nobody}, NEW note \in BOOLEAN,
         req \in [Handler -> Request], Accept(h, op, pc, u, c, r, note)
  PROVE  req' \in [Handler -> Request]
<1>1. [op |-> op, pc |-> pc, who |-> u, conv |-> c, post |-> r,
       note |-> note, retried |-> FALSE] \in Request
  BY DEF Request
<1> QED BY <1>1 DEF Accept

LEMMA GotoType ==
  ASSUME NEW h \in Handler, NEW pc \in Finished \cup Step,
         req \in [Handler -> Request], Goto(h, pc)
  PROVE  req' \in [Handler -> Request]
<1>1. [req[h] EXCEPT !.pc = pc] \in Request
  BY DEF Request
<1> QED BY <1>1 DEF Goto

\* An added message is the sender's.
LEMMA AddMessageType ==
  ASSUME NEW c \in Pair, NEW u \in User,
         messages \in [Pair -> Seq(User)], AddMessage(c, u)
  PROVE  messages' \in [Pair -> Seq(User)]
BY DEF AddMessage

LEMMA OpenRowType ==
  ASSUME NEW u \in User
  PROVE  /\ OpenRow(u) = [openedBy |-> u, closedBy |-> Nobody, shared |-> FALSE]
         /\ OpenRow(u) \in Row
BY DEF OpenRow, NoRow, Row
-----------------------------------------------------------------------------
(* The inductive invariant. *)

\* The tables agree with each other.
TablesAgree == OpenedFirst /\ OpenedForAReason /\ OffersHaveConversation

MessagingInv ==
  /\ TypeOK
  /\ RequestsGrounded
  /\ TablesAgree
  /\ OneWinner
  /\ RetryFindsConversation

\* Nothing a handler may rely on is taken back by a step.
NothingDeleted ==
  /\ \A c \in Pair : Exists(c) => Exists(c)'
  /\ \A a \in Answer : offers[a] # "none" => offers'[a] # "none"

\* A step of handler h leaves the other handlers' requests alone, so the
\* invariants over requests only have to be shown of the request of h.
LEMMA RequestStep ==
  ASSUME MessagingInv, NEW h \in Handler, TypeOK', NothingDeleted,
         \A g \in Handler \ {h} : req'[g] = req[g],
         req'[h] = Idle \/ Grounded(req[h])',
         req'[h].pc = "offer_create" => ~req'[h].retried,
         req'[h].pc = "ok" /\ req'[h].op = "start" => ~Exists(req'[h].conv),
         req'[h].pc = "ok" /\ req'[h].op = "offer"
           => offers[<<req'[h].post, req'[h].conv[1]>>] = "none"
  PROVE  RequestsGrounded' /\ OneWinner' /\ RetryFindsConversation'
<1>1. RequestsGrounded'
  <2> SUFFICES ASSUME NEW g \in Handler, g # h, req[g] # Idle
               PROVE  Grounded(req[g])'
    BY DEF RequestsGrounded, Idle
  <2>1. req'[g] = req[g] /\ Grounded(req[g])
    BY DEF MessagingInv, RequestsGrounded
  <2>2. req[g].op \in {"offer", "withdraw"} => <<req[g].post, req[g].conv[1]>> \in Answer
    BY <2>1, PairFacts DEF Grounded, Answer
  <2> QED BY <2>1, <2>2 DEF Grounded, NothingDeleted, Participants, OwnerOf, EnquirerOf
<1>2. OneWinner'
  <2> SUFFICES ASSUME NEW g \in Handler, g # h, req'[g].pc = "ok", req'[h].pc = "ok",
                      req'[g].op = req'[h].op,
                      \/ req'[h].op = "start" /\ req'[g].conv = req'[h].conv
                      \/ req'[h].op = "offer" /\ OfferOf(g)' = OfferOf(h)'
               PROVE  FALSE
    BY DEF MessagingInv, OneWinner, OfferOf
  <2>1. req'[g] = req[g] /\ Grounded(req[g])
    BY DEF MessagingInv, RequestsGrounded, Idle
  <2> QED BY <2>1 DEF Grounded, OfferOf
<1>3. RetryFindsConversation'
  BY DEF MessagingInv, RetryFindsConversation
<1> QED BY <1>1, <1>2, <1>3

\* A step of h that only reads.
LEMMA ReadingStep ==
  ASSUME MessagingInv, NEW h \in Handler, UNCHANGED db, req' \in [Handler -> Request],
         \A g \in Handler \ {h} : req'[g] = req[g],
         req'[h] = Idle \/ Grounded(req[h])',
         req'[h].pc = "offer_create" => ~req'[h].retried,
         req'[h].pc = "ok" => req'[h].op \notin {"start", "offer"}
  PROVE  MessagingInv'
<1>1. TypeOK'
  BY DEF MessagingInv, TypeOK, db
<1>2. NothingDeleted
  BY DEF NothingDeleted, Exists, db
<1>3. RequestsGrounded' /\ OneWinner' /\ RetryFindsConversation'
  BY <1>1, <1>2, RequestStep
<1>4. TablesAgree'
  BY DEF MessagingInv, TablesAgree, OpenedFirst, OpenedForAReason,
         OffersHaveConversation, Closed, Exists, db
<1> QED BY <1>1, <1>3, <1>4 DEF MessagingInv

\* What is known of a handler that is about to take a step.
LEMMA AtStep ==
  ASSUME MessagingInv, NEW h \in Handler, req[h].pc \notin Finished
  PROVE  /\ Grounded(req[h])
         /\ req[h] \in Request
         /\ req[h].conv \in Pair /\ req[h].who \in User
         /\ conv[req[h].conv] \in Row
<1>1. Grounded(req[h]) /\ req[h] \in Request
  BY DEF MessagingInv, RequestsGrounded, TypeOK, Idle, Finished
<1>2. req[h].conv \in Pair
  BY <1>1 DEF Grounded
<1>3. req[h].who \in User
  BY <1>1, <1>2, PairFacts DEF Grounded, Participants
<1> QED BY <1>1, <1>2, <1>3 DEF MessagingInv, TypeOK

-----------------------------------------------------------------------------
(* A request arrives. *)

LEMMA ArriveInv ==
  ASSUME MessagingInv, NEW h \in Handler, Arrive(h)
  PROVE  MessagingInv'
<1>1. ASSUME NEW op \in Op, NEW pc \in Step, NEW u \in User, NEW c \in Pair,
             NEW r \in Post \cup {Nobody}, NEW note \in BOOLEAN,
             Accept(h, op, pc, u, c, r, note), UNCHANGED db,
             pc \in StepsOf[op] \ {"offer_create", "offer_join", "offer_reopen", "offer_recheck"},
             u \in Participants(c),
             op = "start" => u = EnquirerOf(c),
             op \in {"share", "offer", "withdraw"} => u = OwnerOf(c),
             op = "share" => u \in Verified,
             op \in {"offer", "withdraw"} => r \in Post /\ Poster[r] = EnquirerOf(c),
             op \in {"send", "close", "share", "withdraw"} => Exists(c),
             op = "withdraw" => offers[<<r, c[1]>>] # "none"
      PROVE  MessagingInv'
  <2>1. req' \in [Handler -> Request]
    <3>1. req \in [Handler -> Request]
      BY DEF MessagingInv, TypeOK
    <3> QED BY <1>1, <3>1, AcceptType
  <2>2. /\ req'[h] = [op |-> op, pc |-> pc, who |-> u, conv |-> c, post |-> r,
                      note |-> note, retried |-> FALSE]
        /\ \A g \in Handler \ {h} : req'[g] = req[g]
    BY <1>1 DEF Accept, MessagingInv, TypeOK
  <2>3. pc \notin {"ok", "refused", "failed", "idle"}
    BY DEF Step
  <2>4. Exists(c)' = Exists(c) /\ offers' = offers
    BY <1>1 DEF Exists, db
  <2>5. Grounded(req[h])'
    BY <1>1, <2>2, <2>3, <2>4 DEF Grounded, Participants, OwnerOf, EnquirerOf
  <2>6. req'[h].pc \notin {"ok", "offer_create"}
    BY <1>1, <2>2, <2>3
  <2> QED BY <1>1, <2>1, <2>2, <2>5, <2>6, ReadingStep
<1> DEFINE First(op, pc) == /\ op \in Op /\ pc \in Step
                           /\ pc \in StepsOf[op] \ {"offer_create", "offer_join",
                                                    "offer_reopen", "offer_recheck"}
<1>0. /\ First("start", "start_lookup") /\ First("send", "send_insert")
      /\ First("close", "close_update") /\ First("share", "share_listing")
      /\ First("offer", "offer_listing") /\ First("withdraw", "withdraw_update")
  BY DEF Op, Step, StepsOf
<1>2. CASE \E u \in User, c \in Pair : StartConversation(h, u, c)
  <2> PICK u \in User, c \in Pair : StartConversation(h, u, c) BY <1>2
  <2>1. u \in Participants(c)
    BY DEF StartConversation, Participants
  <2> QED BY <1>0, <1>1, <2>1 DEF StartConversation
<1>3. CASE \E u \in User, c \in Pair : SendMessage(h, u, c)
  <2> PICK u \in User, c \in Pair : SendMessage(h, u, c) BY <1>3
  <2> QED BY <1>0, <1>1 DEF SendMessage
<1>4. CASE \E u \in User, c \in Pair : CloseConversation(h, u, c)
  <2> PICK u \in User, c \in Pair : CloseConversation(h, u, c) BY <1>4
  <2> QED BY <1>0, <1>1 DEF CloseConversation
<1>5. CASE \E u \in User, c \in Pair : ShareAddress(h, u, c)
  <2> PICK u \in User, c \in Pair : ShareAddress(h, u, c) BY <1>5
  <2>1. u \in Participants(c)
    BY DEF ShareAddress, Participants
  <2> QED BY <1>0, <1>1, <2>1 DEF ShareAddress
<1>6. CASE \E r \in Post, l \in Listing, note \in BOOLEAN : CreateOffer(h, r, l, note)
  <2> PICK r \in Post, l \in Listing, note \in BOOLEAN : CreateOffer(h, r, l, note) BY <1>6
  <2>1. <<l, Poster[r]>> \in Pair /\ OwnerOf(<<l, Poster[r]>>) \in User
    BY PairFacts DEF CreateOffer
  <2>2. PICK c \in Pair, u \in User :
          /\ c = <<l, Poster[r]>> /\ u = OwnerOf(c)
          /\ Accept(h, "offer", "offer_listing", u, c, r, note) /\ UNCHANGED db
    BY <2>1 DEF CreateOffer
  <2>3. Poster[r] = EnquirerOf(c) /\ u \in Participants(c) /\ r \in Post \cup {Nobody}
    BY <2>2 DEF EnquirerOf, Participants
  <2>4. CASE note = TRUE
    BY <1>0, <1>1, <2>2, <2>3, <2>4
  <2>5. CASE note = FALSE
    BY <1>0, <1>1, <2>2, <2>3, <2>5
  <2> QED BY <2>4, <2>5
<1>7. CASE \E r \in Post, l \in Listing : WithdrawOffer(h, r, l)
  <2> PICK r \in Post, l \in Listing : WithdrawOffer(h, r, l) BY <1>7
  <2>1. <<l, Poster[r]>> \in Pair /\ OwnerOf(<<l, Poster[r]>>) \in User
    BY PairFacts DEF WithdrawOffer
  <2>2. Exists(<<l, Poster[r]>>) /\ offers[<<r, <<l, Poster[r]>>[1]>>] # "none"
    BY DEF WithdrawOffer, MessagingInv, TablesAgree, OffersHaveConversation
  <2>3. /\ EnquirerOf(<<l, Poster[r]>>) = Poster[r]
        /\ OwnerOf(<<l, Poster[r]>>) \in Participants(<<l, Poster[r]>>)
    BY DEF EnquirerOf, Participants
  <2> QED BY <1>0, <1>1, <2>1, <2>2, <2>3 DEF WithdrawOffer
<1> QED BY <1>2, <1>3, <1>4, <1>5, <1>6, <1>7 DEF Arrive

-----------------------------------------------------------------------------
(* A handler takes its next step. *)

\* The operation a step belongs to.
LEMMA OpOfStep ==
  ASSUME NEW q, Grounded(q)
  PROVE  /\ q.pc \in {"start_lookup", "start_insert"} => q.op = "start"
         /\ q.pc = "send_insert" => q.op = "send"
         /\ q.pc = "close_update" => q.op = "close"
         /\ q.pc \in {"share_listing", "share_update", "share_reread"} => q.op = "share"
         /\ q.pc \in {"offer_listing", "offer_lookup", "offer_read", "offer_create",
                      "offer_join", "offer_reopen", "offer_recheck"} => q.op = "offer"
         /\ q.pc = "withdraw_update" => q.op = "withdraw"
BY DEF Grounded, Op, StepsOf

\* What Goto leaves of the requests.
LEMMA GotoFacts ==
  ASSUME MessagingInv, NEW h \in Handler, NEW pc \in Finished \cup Step, Goto(h, pc)
  PROVE  /\ req' \in [Handler -> Request]
         /\ \A g \in Handler \ {h} : req'[g] = req[g]
         /\ req'[h].pc = pc /\ req'[h].op = req[h].op /\ req'[h].who = req[h].who
         /\ req'[h].conv = req[h].conv /\ req'[h].post = req[h].post
         /\ req'[h].retried = req[h].retried
<1>1. req \in [Handler -> Request]
  BY DEF MessagingInv, TypeOK
<1>2. req' \in [Handler -> Request]
  BY <1>1, GotoType
<1>3. req' = [req EXCEPT ![h] = [req[h] EXCEPT !.pc = pc]] /\ req[h] \in Request
  BY <1>1 DEF Goto
<1>4. req'[h] = [req[h] EXCEPT !.pc = pc]
  BY <1>1, <1>3
<1> QED BY <1>1, <1>2, <1>3, <1>4 DEF Request

\* A handler that moves on stays grounded as long as nothing was deleted and
\* the step it moves to asks no more than it knows.
LEMMA GotoGrounded ==
  ASSUME MessagingInv, NEW h \in Handler, NEW pc \in Finished \cup Step, Serving(h),
         Goto(h, pc), NothingDeleted,
         pc \in StepsOf[req[h].op] \cup {"ok", "refused", "failed"},
         pc \in {"offer_join", "offer_reopen", "offer_recheck"} => Exists(req[h].conv)',
         req[h].op = "start" /\ pc = "ok" => Exists(req[h].conv)',
         req[h].op = "offer" /\ pc = "ok" => offers'[OfferOf(h)] # "none"
  PROVE  Grounded(req[h])'
<1>1. Grounded(req[h]) /\ req[h].conv \in Pair
  BY AtStep DEF Serving
<1>2. Exists(req[h].conv) => Exists(req[h].conv)'
  BY <1>1, GotoFacts DEF NothingDeleted, Exists
<1>3. req[h].op \in {"offer", "withdraw"} => <<req[h].post, req[h].conv[1]>> \in Answer
  BY <1>1, PairFacts DEF Grounded, Answer
<1> QED BY <1>1, <1>2, <1>3, GotoFacts
        DEF Grounded, NothingDeleted, OfferOf, Participants, OwnerOf, EnquirerOf, Exists

\* A step that reads and moves on.
LEMMA GotoReading ==
  ASSUME MessagingInv, NEW h \in Handler, NEW pc \in Finished \cup Step, Serving(h),
         Goto(h, pc), UNCHANGED db,
         pc \in StepsOf[req[h].op] \cup {"ok", "refused", "failed"},
         pc \in {"offer_join", "offer_reopen", "offer_recheck"} => Exists(req[h].conv),
         pc = "offer_create" => ~req[h].retried,
         pc = "ok" => req[h].op \notin {"start", "offer"}
  PROVE  MessagingInv'
<1>1. NothingDeleted
  BY DEF NothingDeleted, Exists, db
<1>2. Exists(req[h].conv) => Exists(req[h].conv)'
  BY GotoFacts DEF Exists, db
<1>3. req[h].op = "offer" /\ pc = "ok" => offers'[OfferOf(h)] # "none"
  OBVIOUS
<1>4. Grounded(req[h])'
  BY <1>1, <1>2, <1>3, GotoGrounded
<1> QED BY <1>4, GotoFacts, ReadingStep

\* The steps that write nothing.
LEMMA ReadingStepsInv ==
  ASSUME MessagingInv, NEW h \in Handler,
         \/ StartLookup(h) \/ ShareListing(h) \/ ShareReread(h) \/ OfferListing(h)
         \/ OfferLookup(h) \/ OfferRead(h)
  PROVE  MessagingInv'
<1> DEFINE q == req[h]
<1>1. q.pc \notin Finished
  BY DEF StartLookup, ShareListing, ShareReread, OfferListing, OfferLookup, OfferRead, Finished
<1>2. Grounded(q)
  BY <1>1, AtStep
<1>3. CASE StartLookup(h)
  <2>1. q.op = "start" BY <1>2, <1>3, OpOfStep DEF StartLookup
  <2>2. PICK pc \in {"refused", "start_insert"} : Goto(h, pc) BY <1>3 DEF StartLookup
  <2> QED BY <1>1, <1>3, <2>1, <2>2, GotoReading
          DEF StartLookup, StepsOf, Serving, Finished, Step
<1>4. CASE ShareListing(h)
  <2>1. q.op = "share" BY <1>2, <1>4, OpOfStep DEF ShareListing
  <2>2. PICK pc \in {"refused", "share_update"} : Goto(h, pc) BY <1>4 DEF ShareListing
  <2> QED BY <1>1, <1>4, <2>1, <2>2, GotoReading
          DEF ShareListing, StepsOf, Serving, Finished, Step
<1>5. CASE ShareReread(h)
  <2>1. q.op = "share" BY <1>2, <1>5, OpOfStep DEF ShareReread
  <2>2. PICK pc \in {"refused", "ok"} : Goto(h, pc) BY <1>5 DEF ShareReread
  <2> QED BY <1>1, <1>5, <2>1, <2>2, GotoReading
          DEF ShareReread, StepsOf, Serving, Finished, Step
<1>6. CASE OfferListing(h)
  <2>1. q.op = "offer" BY <1>2, <1>6, OpOfStep DEF OfferListing
  <2>2. PICK pc \in {"refused", "offer_lookup"} : Goto(h, pc) BY <1>6 DEF OfferListing
  <2> QED BY <1>1, <1>6, <2>1, <2>2, GotoReading
          DEF OfferListing, StepsOf, Serving, Finished, Step
<1>7. CASE OfferLookup(h)
  <2>1. q.op = "offer" BY <1>2, <1>7, OpOfStep DEF OfferLookup
  <2>2. PICK pc \in {"refused", "offer_read"} : Goto(h, pc) BY <1>7 DEF OfferLookup
  <2> QED BY <1>1, <1>7, <2>1, <2>2, GotoReading
          DEF OfferLookup, StepsOf, Serving, Finished, Step
<1>8. CASE OfferRead(h)
  <2>1. q.op = "offer" /\ UNCHANGED db BY <1>2, <1>8, OpOfStep DEF OfferRead
  <2>2. q.retried => Exists(q.conv) BY <1>2 DEF Grounded
  <2>3. CASE ~Exists(q.conv)
    <3>1. Goto(h, "offer_create") BY <1>8, <2>3 DEF OfferRead, ConversationRule
    <3> QED BY <1>1, <2>1, <2>2, <2>3, <3>1, GotoReading DEF StepsOf, Serving, Finished, Step
  <2>4. CASE Exists(q.conv)
    <3>1. \E pc \in {"offer_join", "offer_reopen", "refused"} : Goto(h, pc)
      BY <1>8, <2>4 DEF OfferRead, ConversationRule
    <3>2. PICK pc \in {"offer_join", "offer_reopen", "refused"} : Goto(h, pc) BY <3>1
    <3> QED BY <1>1, <2>1, <2>4, <3>2, GotoReading DEF StepsOf, Serving, Finished, Step
  <2> QED BY <2>3, <2>4
<1> QED BY <1>3, <1>4, <1>5, <1>6, <1>7, <1>8

\* Looking again after a unique violation: had nobody made the same offer, the
\* violation came from the conversation, which is there to be joined.
LEMMA OfferRecheckInv ==
  ASSUME MessagingInv, NEW h \in Handler, OfferRecheck(h)
  PROVE  MessagingInv'
<1> DEFINE q == req[h]
<1>1. Grounded(q) /\ q \in Request /\ q.op = "offer" /\ Exists(q.conv)
  BY AtStep, OpOfStep DEF OfferRecheck, Grounded, Finished
<1>2. PICK pc \in {"refused", "offer_read"}, again \in BOOLEAN :
        req' = [req EXCEPT ![h] = [q EXCEPT !.pc = pc, !.retried = again]]
  BY <1>1 DEF OfferRecheck, MessagingInv, TypeOK
<1>3. /\ [q EXCEPT !.pc = pc, !.retried = again] \in Request
      /\ req' \in [Handler -> Request]
      /\ \A g \in Handler \ {h} : req'[g] = req[g]
      /\ req'[h] = [q EXCEPT !.pc = pc, !.retried = again]
  BY <1>1, <1>2 DEF MessagingInv, TypeOK, Request, Finished, Step
<1>4. /\ req'[h].pc = pc /\ req'[h].op = q.op /\ req'[h].who = q.who
      /\ req'[h].conv = q.conv /\ req'[h].post = q.post
  BY <1>1, <1>3 DEF Request
<1>5. Exists(q.conv)' /\ UNCHANGED db
  BY <1>1, <1>3, <1>4 DEF OfferRecheck, Exists, db
<1>6. Grounded(req[h])'
  BY <1>1, <1>4, <1>5 DEF Grounded, StepsOf, Participants, OwnerOf, EnquirerOf, Exists, db
<1> QED BY <1>1, <1>3, <1>4, <1>5, <1>6, ReadingStep

\* A request that is dropped leaves the tables as they are.
LEMMA AbandonInv ==
  ASSUME MessagingInv, NEW h \in Handler, Abandon(h)
  PROVE  MessagingInv'
<1>1. /\ req' \in [Handler -> Request] /\ req'[h] = Idle
      /\ \A g \in Handler \ {h} : req'[g] = req[g]
  BY IdleType DEF Abandon, MessagingInv, TypeOK
<1> QED BY <1>1, ReadingStep DEF Abandon, Idle

\* Adding a message to a conversation that is there breaks no table: the first
\* message of a conversation stays the first.
LEMMA AddMessageAgrees ==
  ASSUME MessagingInv, NEW c \in Pair, NEW u \in User, Exists(c), AddMessage(c, u),
         UNCHANGED <<conv, offers>>
  PROVE  TablesAgree' /\ messages' \in [Pair -> Seq(User)]
<1>1. messages \in [Pair -> Seq(User)] /\ messages' \in [Pair -> Seq(User)]
  BY AddMessageType DEF MessagingInv, TypeOK
<1>2. ASSUME NEW d \in Pair, messages[d] # <<>>
      PROVE  messages'[d] # <<>> /\ messages'[d][1] = messages[d][1]
  <2>1. CASE d = c
    <3>1. messages[c] \in Seq(User) /\ messages'[c] = Append(messages[c], u)
      BY <1>1 DEF AddMessage
    <3> QED BY <1>2, <2>1, <3>1
  <2>2. CASE d # c
    BY <1>1, <1>2, <2>2 DEF AddMessage
  <2> QED BY <2>1, <2>2
<1>3. OpenedForAReason'
  BY <1>2 DEF MessagingInv, TablesAgree, OpenedForAReason, OwnerOf, EnquirerOf
<1>4. \A d \in Pair : d # c => messages'[d] = messages[d]
  BY <1>1 DEF AddMessage
<1>5. OpenedFirst'
  BY <1>4 DEF MessagingInv, TablesAgree, OpenedFirst, Closed, Exists
<1> QED BY <1>1, <1>3, <1>5
        DEF MessagingInv, TablesAgree, OffersHaveConversation, Exists

LEMMA SendInsertInv ==
  ASSUME MessagingInv, NEW h \in Handler, SendInsert(h)
  PROVE  MessagingInv'
<1> DEFINE q == req[h]
<1>1. /\ Grounded(q) /\ q.op = "send" /\ q.conv \in Pair /\ q.who \in User /\ Serving(h)
      /\ Exists(q.conv)
  BY AtStep, OpOfStep DEF SendInsert, Serving, Finished, Grounded
<1>2. TablesAgree' /\ messages' \in [Pair -> Seq(User)]
  BY <1>1, AddMessageAgrees DEF SendInsert
<1>3. NothingDeleted
  BY DEF SendInsert, NothingDeleted, Exists
<1>4. Goto(h, "ok") /\ "ok" \in Finished \cup Step
  BY DEF SendInsert, Finished
<1>5. TypeOK'
  BY <1>2, <1>4, GotoFacts DEF SendInsert, MessagingInv, TypeOK, Posts
<1>6. Grounded(req[h])'
  BY <1>1, <1>3, <1>4, GotoGrounded
<1>7. RequestsGrounded' /\ OneWinner' /\ RetryFindsConversation'
  BY <1>1, <1>3, <1>4, <1>5, <1>6, GotoFacts, RequestStep
<1> QED BY <1>2, <1>5, <1>7 DEF MessagingInv

\* A change of one existing row that leaves who opened it breaks no table.
LEMMA RowAgrees ==
  ASSUME MessagingInv, NEW c \in Pair, NEW row \in Row, Exists(c),
         row.openedBy = conv[c].openedBy,
         conv' = [conv EXCEPT ![c] = row], UNCHANGED <<messages, offers>>
  PROVE  TablesAgree' /\ conv' \in [Pair -> Row] /\ NothingDeleted
<1>1. conv \in [Pair -> Row]
  BY DEF MessagingInv, TypeOK
<1>2. \A d \in Pair : conv'[d].openedBy = conv[d].openedBy
  BY <1>1
<1>3. \A d \in Pair : d # c => conv'[d] = conv[d]
  BY <1>1
<1>4. NothingDeleted
  BY <1>2 DEF NothingDeleted, Exists
<1>5. OpenedFirst'
  BY <1>2, <1>3 DEF MessagingInv, TablesAgree, OpenedFirst, Closed, Exists
<1>6. OpenedForAReason'
  BY <1>2 DEF MessagingInv, TablesAgree, OpenedForAReason, OwnerOf, EnquirerOf
<1>7. OffersHaveConversation'
  <2> SUFFICES ASSUME NEW r \in Post, NEW l \in Listing, offers[<<r, l>>] # "none"
               PROVE  <<l, Poster[r]>> \in Pair /\ Exists(<<l, Poster[r]>>)'
    BY DEF OffersHaveConversation
  <2>1. <<l, Poster[r]>> \in Pair /\ Exists(<<l, Poster[r]>>)
    BY DEF MessagingInv, TablesAgree, OffersHaveConversation
  <2> QED BY <1>1, <1>2, <2>1 DEF Exists
<1> QED BY <1>1, <1>4, <1>5, <1>6, <1>7 DEF TablesAgree

LEMMA RowStepInv ==
  ASSUME MessagingInv, NEW h \in Handler, CloseUpdate(h) \/ ShareUpdate(h)
  PROVE  MessagingInv'
<1> DEFINE q == req[h]
<1>1. /\ Grounded(q) /\ q.op \in {"close", "share"} /\ q.conv \in Pair /\ q.who \in User
      /\ Serving(h) /\ Exists(q.conv) /\ conv[q.conv] \in Row
  BY AtStep, OpOfStep DEF CloseUpdate, ShareUpdate, Serving, Finished, Grounded
<1>2. PICK pc \in {"ok", "share_reread"} :
        Goto(h, pc) /\ pc \in StepsOf[q.op] \cup {"ok", "refused", "failed"}
  <2>1. CASE CloseUpdate(h)
    BY <2>1 DEF CloseUpdate
  <2>2. CASE ShareUpdate(h)
    <3>1. q.op = "share" BY <1>1, <2>2, OpOfStep DEF ShareUpdate
    <3> QED BY <2>2, <3>1 DEF ShareUpdate, StepsOf
  <2> QED BY <2>1, <2>2
<1>3. TablesAgree' /\ conv' \in [Pair -> Row] /\ NothingDeleted
  <2>1. PICK row \in Row : /\ row.openedBy = conv[q.conv].openedBy
                           /\ conv' = [conv EXCEPT ![q.conv] = row]
    <3>1. conv = [conv EXCEPT ![q.conv] = conv[q.conv]]
      BY <1>1 DEF MessagingInv, TypeOK
    <3>2. CASE CloseUpdate(h)
      <4>1. /\ [conv[q.conv] EXCEPT !.closedBy = q.who] \in Row
            /\ [conv[q.conv] EXCEPT !.closedBy = q.who].openedBy = conv[q.conv].openedBy
        BY <1>1 DEF Row
      <4> QED BY <1>1, <3>1, <3>2, <4>1 DEF CloseUpdate
    <3>3. CASE ShareUpdate(h)
      <4>1. /\ [conv[q.conv] EXCEPT !.shared = TRUE] \in Row
            /\ [conv[q.conv] EXCEPT !.shared = TRUE].openedBy = conv[q.conv].openedBy
        BY <1>1 DEF Row
      <4> QED BY <1>1, <3>1, <3>3, <4>1 DEF ShareUpdate
    <3> QED BY <3>2, <3>3
  <2> QED BY <1>1, <2>1, RowAgrees DEF CloseUpdate, ShareUpdate
<1>4. TypeOK'
  BY <1>2, <1>3, GotoFacts DEF CloseUpdate, ShareUpdate, MessagingInv, TypeOK, Posts, Finished, Step
<1>5. Grounded(req[h])'
  BY <1>1, <1>2, <1>3, GotoGrounded DEF Finished, Step
<1>6. RequestsGrounded' /\ OneWinner' /\ RetryFindsConversation'
  BY <1>1, <1>2, <1>3, <1>4, <1>5, GotoFacts, RequestStep DEF Finished, Step
<1> QED BY <1>3, <1>4, <1>6 DEF MessagingInv

\* A transaction that writes into one conversation, opening it or not, keeps
\* the tables in agreement as long as what it opens has its reason.
LEMMA WriteAgrees ==
  ASSUME MessagingInv, NEW c \in Pair, Exists(c)', NothingDeleted,
         \A d \in Pair : d # c => conv'[d] = conv[d] /\ messages'[d] = messages[d],
         Exists(c) => conv'[c].openedBy = conv[c].openedBy,
         messages[c] # <<>> => messages'[c] # <<>> /\ messages'[c][1] = messages[c][1],
         \A r \in Post, l \in Listing :
           offers[<<r, l>>] = "none" /\ offers'[<<r, l>>] # "none" => <<l, Poster[r]>> = c,
         ~Exists(c) /\ conv'[c].openedBy = EnquirerOf(c)
           => messages'[c] # <<>> /\ messages'[c][1] = EnquirerOf(c),
         ~Exists(c) /\ conv'[c].openedBy = OwnerOf(c)
           => \E r \in Post : Poster[r] = EnquirerOf(c) /\ offers'[<<r, c[1]>>] # "none"
  PROVE  TablesAgree'
<1>1. OpenedFirst'
  BY DEF MessagingInv, TablesAgree, OpenedFirst, Closed, Exists
<1>2. OffersHaveConversation'
  <2> SUFFICES ASSUME NEW r \in Post, NEW l \in Listing, offers'[<<r, l>>] # "none"
               PROVE  <<l, Poster[r]>> \in Pair /\ Exists(<<l, Poster[r]>>)'
    BY DEF OffersHaveConversation, Exists
  <2>1. CASE offers[<<r, l>>] = "none"
    <3>1. <<l, Poster[r]>> = c BY <2>1
    <3> QED BY <3>1 DEF Exists
  <2>2. CASE offers[<<r, l>>] # "none"
    <3>1. <<l, Poster[r]>> \in Pair /\ Exists(<<l, Poster[r]>>)
      BY <2>2 DEF MessagingInv, TablesAgree, OffersHaveConversation
    <3> QED BY <3>1 DEF NothingDeleted, Exists
  <2> QED BY <2>1, <2>2
<1>3. OpenedForAReason'
  <2> SUFFICES ASSUME NEW d \in Pair
               PROVE  /\ conv'[d].openedBy = EnquirerOf(d) =>
                           messages'[d] # <<>> /\ messages'[d][1] = EnquirerOf(d)
                      /\ conv'[d].openedBy = OwnerOf(d) =>
                           \E r \in Post : /\ Poster[r] = EnquirerOf(d)
                                          /\ offers'[<<r, d[1]>>] # "none"
    BY DEF OpenedForAReason, OwnerOf, EnquirerOf
  <2>1. \A r \in Post : offers[<<r, d[1]>>] # "none" => offers'[<<r, d[1]>>] # "none"
    BY PairFacts DEF NothingDeleted, Answer
  <2>2. /\ conv[d].openedBy = EnquirerOf(d) =>
             messages[d] # <<>> /\ messages[d][1] = EnquirerOf(d)
        /\ conv[d].openedBy = OwnerOf(d) =>
             \E r \in Post : Poster[r] = EnquirerOf(d) /\ offers[<<r, d[1]>>] # "none"
    BY DEF MessagingInv, TablesAgree, OpenedForAReason
  <2>3. CASE d # c
    BY <2>1, <2>2, <2>3
  <2>4. CASE d = c /\ Exists(c)
    BY <2>1, <2>2, <2>4
  <2>5. CASE d = c /\ ~Exists(c)
    BY <2>5
  <2> QED BY <2>3, <2>4, <2>5
<1> QED BY <1>1, <1>2, <1>3 DEF TablesAgree

\* A transaction of h that committed: what is left to show of its last step.
LEMMA CommitInv ==
  ASSUME MessagingInv, NEW h \in Handler, Serving(h), Goto(h, "ok"), UNCHANGED Posts,
         conv' \in [Pair -> Row], messages' \in [Pair -> Seq(User)],
         offers' \in [Answer -> {"none", "live", "withdrawn"}],
         NothingDeleted, TablesAgree',
         req[h].op = "start" => ~Exists(req[h].conv) /\ Exists(req[h].conv)',
         req[h].op = "offer" => offers[OfferOf(h)] = "none" /\ offers'[OfferOf(h)] # "none"
  PROVE  MessagingInv'
<1>1. "ok" \in Finished \cup Step
  BY DEF Finished
<1>2. TypeOK'
  BY <1>1, GotoFacts DEF MessagingInv, TypeOK, Posts
<1>3. Grounded(req[h])'
  BY <1>1, GotoGrounded
<1>4. RequestsGrounded' /\ OneWinner' /\ RetryFindsConversation'
  BY <1>1, <1>2, <1>3, GotoFacts, RequestStep DEF OfferOf
<1> QED BY <1>2, <1>4 DEF MessagingInv

\* Appending keeps what was first.
LEMMA AddMessageFacts ==
  ASSUME NEW c \in Pair, NEW u \in User,
         messages \in [Pair -> Seq(User)], AddMessage(c, u)
  PROVE  /\ messages' \in [Pair -> Seq(User)]
         /\ \A d \in Pair : d # c => messages'[d] = messages[d]
         /\ messages[c] # <<>> => messages'[c] # <<>> /\ messages'[c][1] = messages[c][1]
         /\ messages[c] = <<>> => messages'[c] # <<>> /\ messages'[c][1] = u
<1>1. messages' \in [Pair -> Seq(User)]
  BY AddMessageType
<1>2. \A d \in Pair : d # c => messages'[d] = messages[d]
  BY DEF AddMessage
<1>3. messages[c] \in Seq(User) /\ messages'[c] = Append(messages[c], u)
  BY DEF AddMessage
<1>4. messages[c] # <<>> => messages'[c] # <<>> /\ messages'[c][1] = messages[c][1]
  BY <1>3
<1>5. messages[c] = <<>> => messages'[c] # <<>> /\ messages'[c][1] = u
  BY <1>3
<1> QED BY <1>1, <1>2, <1>4, <1>5

LEMMA StartInsertInv ==
  ASSUME MessagingInv, NEW h \in Handler, StartInsert(h)
  PROVE  MessagingInv'
<1> DEFINE q == req[h]
           c == req[h].conv
<1>1. /\ Grounded(q) /\ q.op = "start" /\ c \in Pair /\ q.who = EnquirerOf(c)
      /\ q.who \in User /\ Serving(h) /\ q.who # Nobody /\ q.who # OwnerOf(c)
  <2>1. /\ Grounded(q) /\ q.op = "start" /\ c \in Pair /\ q.who \in User /\ Serving(h)
    BY AtStep, OpOfStep DEF StartInsert, Serving, Finished
  <2> QED BY <2>1, PairFacts DEF Grounded
<1>2. CASE Exists(c)
  <2>1. Goto(h, "refused") /\ UNCHANGED db
    BY <1>2 DEF StartInsert, db, Posts
  <2> QED BY <1>1, <2>1, GotoReading DEF Finished, Step
<1>3. CASE ~Exists(c)
  <2>1. /\ conv' = [conv EXCEPT ![c] = OpenRow(q.who)] /\ AddMessage(c, q.who)
        /\ Goto(h, "ok") /\ UNCHANGED <<Posts, offers>>
    BY <1>3 DEF StartInsert
  <2>2. /\ conv \in [Pair -> Row] /\ messages \in [Pair -> Seq(User)]
        /\ offers \in [Answer -> {"none", "live", "withdrawn"}]
        /\ OpenRow(q.who) \in Row /\ OpenRow(q.who).openedBy = q.who
    BY <1>1, OpenRowType DEF MessagingInv, TypeOK
  <2>3. /\ conv' \in [Pair -> Row] /\ conv'[c].openedBy = q.who
        /\ \A d \in Pair : d # c => conv'[d] = conv[d]
    BY <1>1, <2>1, <2>2
  <2>4. Exists(c)' /\ NothingDeleted
    <3>1. Exists(c)'
      BY <1>1, <2>3, GotoFacts, <2>1 DEF Exists, Finished
    <3>2. \A d \in Pair : Exists(d) => Exists(d)'
      BY <1>3, <2>3 DEF Exists
    <3> QED BY <2>1, <3>1, <3>2 DEF NothingDeleted
  <2>5. messages[c] = <<>>
    BY <1>1, <1>3 DEF MessagingInv, TablesAgree, OpenedFirst
  <2>6. TablesAgree'
    <3>1. /\ \A d \in Pair : d # c => messages'[d] = messages[d]
          /\ messages'[c] # <<>> /\ messages'[c][1] = q.who
      BY <1>1, <2>1, <2>2, <2>5, AddMessageFacts
    <3>2. PICK k \in Pair : k = c
      BY <1>1
    <3>3. Exists(k)'
      BY <1>1, <2>3, <3>2 DEF Exists
    <3> QED BY <1>1, <1>3, <2>1, <2>3, <2>4, <2>5, <3>1, <3>2, <3>3, WriteAgrees
  <2>7. messages' \in [Pair -> Seq(User)]
    BY <1>1, <2>1, <2>2, AddMessageFacts
  <2> QED BY <1>1, <1>3, <2>1, <2>2, <2>3, <2>4, <2>6, <2>7, CommitInv
<1> QED BY <1>2, <1>3

\* What makeOffer's last statements leave behind.
LEMMA WriteOfferFacts ==
  ASSUME MessagingInv, NEW h \in Handler, Serving(h), req[h].op = "offer",
         WriteOffer(h), ~Offered(h)
  PROVE  /\ offers' \in [Answer -> {"none", "live", "withdrawn"}]
         /\ offers[OfferOf(h)] = "none" /\ offers'[OfferOf(h)] # "none"
         /\ \A a \in Answer : offers[a] # "none" => offers'[a] # "none"
         /\ \A r \in Post, l \in Listing :
              offers[<<r, l>>] = "none" /\ offers'[<<r, l>>] # "none"
                => <<l, Poster[r]>> = req[h].conv
         /\ messages' \in [Pair -> Seq(User)]
         /\ \A d \in Pair : d # req[h].conv => messages'[d] = messages[d]
         /\ messages[req[h].conv] # <<>> =>
              /\ messages'[req[h].conv] # <<>>
              /\ messages'[req[h].conv][1] = messages[req[h].conv][1]
<1> DEFINE c == req[h].conv
<1>1. /\ Grounded(req[h]) /\ c \in Pair /\ req[h].who \in User
      /\ req[h].post \in Post /\ Poster[req[h].post] = EnquirerOf(c)
  BY AtStep DEF Serving, Grounded
<1>2. OfferOf(h) \in Answer /\ OfferOf(h) = <<req[h].post, c[1]>>
  BY <1>1, PairFacts DEF OfferOf, Answer
<1>3. offers \in [Answer -> {"none", "live", "withdrawn"}] /\ messages \in [Pair -> Seq(User)]
  BY DEF MessagingInv, TypeOK
<1>4. offers' = [offers EXCEPT ![OfferOf(h)] = "live"]
  BY DEF WriteOffer
<1>5. \A r \in Post, l \in Listing :
         offers[<<r, l>>] = "none" /\ offers'[<<r, l>>] # "none" => <<l, Poster[r]>> = c
  <2> SUFFICES ASSUME NEW r \in Post, NEW l \in Listing,
                      offers[<<r, l>>] # offers'[<<r, l>>]
               PROVE  <<l, Poster[r]>> = c
    OBVIOUS
  <2>1. <<r, l>> \in Answer
    BY DEF Answer
  <2>2. <<r, l>> = OfferOf(h)
    BY <1>2, <1>3, <1>4, <2>1
  <2>3. r = req[h].post /\ l = c[1]
    BY <1>2, <2>2
  <2> QED BY <1>1, <2>3, PairFacts DEF EnquirerOf
<1>6. CASE req[h].note
  <2>1. AddMessage(c, req[h].who)
    BY <1>6 DEF WriteOffer
  <2> QED BY <1>1, <1>2, <1>3, <1>4, <1>5, <2>1, AddMessageFacts DEF Offered
<1>7. CASE ~req[h].note
  <2>1. messages' = messages
    BY <1>7 DEF WriteOffer
  <2> QED BY <1>1, <1>2, <1>3, <1>4, <1>5, <2>1 DEF Offered
<1> QED BY <1>6, <1>7

\* An offer is committed together with the row of its conversation: opened by
\* the owner when there was none, and by whoever had opened it otherwise.
LEMMA OfferWriteInv ==
  ASSUME MessagingInv, NEW h \in Handler, Serving(h), req[h].op = "offer",
         WriteOffer(h), ~Offered(h), UNCHANGED Posts, NEW row \in Row,
         conv' = [conv EXCEPT ![req[h].conv] = row],
         Exists(req[h].conv) => row.openedBy = conv[req[h].conv].openedBy,
         ~Exists(req[h].conv) => row.openedBy = OwnerOf(req[h].conv)
  PROVE  MessagingInv'
<1>1. PICK c \in Pair : /\ c = req[h].conv /\ Grounded(req[h]) /\ req[h].post \in Post
                       /\ Poster[req[h].post] = EnquirerOf(c)
  BY AtStep DEF Serving, Grounded
<1>2. conv \in [Pair -> Row]
  BY DEF MessagingInv, TypeOK
<1>3. /\ conv' \in [Pair -> Row] /\ conv'[c].openedBy = row.openedBy
      /\ \A d \in Pair : d # c => conv'[d] = conv[d]
  BY <1>1, <1>2
<1>4. row.openedBy # Nobody
  BY <1>1, PairFacts DEF Exists
<1>5. Exists(c)' /\ \A d \in Pair : Exists(d) => Exists(d)'
  BY <1>1, <1>3, <1>4 DEF Exists
<1>6. NothingDeleted
  BY <1>5, WriteOfferFacts DEF NothingDeleted
<1>7. Goto(h, "ok") /\ "ok" \in Finished \cup Step
  BY DEF WriteOffer, Finished
<1>8. Exists(req[h].conv)'
  BY <1>1, <1>5, <1>7, GotoFacts DEF Exists
<1>9. TablesAgree'
  <2>1. c[1] \in Listing /\ OwnerOf(c) # EnquirerOf(c)
    BY PairFacts
  <2>2. offers'[<<req[h].post, c[1]>>] # "none"
    BY <1>1, WriteOfferFacts DEF OfferOf
  <2>3. ~Exists(c) => conv'[c].openedBy = OwnerOf(c)
    BY <1>1, <1>3
  <2>4. ~Exists(c) => \E r \in Post : Poster[r] = EnquirerOf(c) /\ offers'[<<r, c[1]>>] # "none"
    BY <1>1, <2>2
  <2>5. /\ \A d \in Pair : d # c => conv'[d] = conv[d] /\ messages'[d] = messages[d]
        /\ messages[c] # <<>> => messages'[c] # <<>> /\ messages'[c][1] = messages[c][1]
        /\ \A r \in Post, l \in Listing :
             offers[<<r, l>>] = "none" /\ offers'[<<r, l>>] # "none" => <<l, Poster[r]>> = c
    BY <1>1, <1>3, WriteOfferFacts
  <2>6. Exists(c) => conv'[c].openedBy = conv[c].openedBy
    BY <1>1, <1>3
  <2> QED BY <1>5, <1>6, <2>1, <2>3, <2>4, <2>5, <2>6, WriteAgrees
<1> QED BY <1>3, <1>6, <1>7, <1>9, WriteOfferFacts, CommitInv

\* A unique violation rolls back: only the handler moves.
LEMMA OfferViolationInv ==
  ASSUME MessagingInv, NEW h \in Handler, Serving(h), req[h].op = "offer",
         OfferViolation(h), UNCHANGED Posts, Exists(req[h].conv)
  PROVE  MessagingInv'
<1>1. PICK pc \in {"failed", "offer_recheck"} : Goto(h, pc)
  BY DEF OfferViolation
<1> QED BY <1>1, GotoReading DEF OfferViolation, db, Posts, StepsOf, Finished, Step

LEMMA OfferCommitInv ==
  ASSUME MessagingInv, NEW h \in Handler,
         OfferCreate(h) \/ OfferJoin(h) \/ OfferReopen(h)
  PROVE  MessagingInv'
<1>1. PICK c \in Pair : /\ c = req[h].conv /\ Serving(h) /\ req[h].op = "offer"
                       /\ Grounded(req[h]) /\ conv[c] \in Row
  BY AtStep, OpOfStep DEF OfferCreate, OfferJoin, OfferReopen, Serving, Finished
<1>2. UNCHANGED Posts
  BY DEF OfferCreate, OfferJoin, OfferReopen
<1>3. CASE OfferViolation(h) /\ (Exists(c) \/ Offered(h))
  <2>2. Offered(h) => Exists(c)
    <3>1. Offered(h) => Exists(<<c[1], Poster[req[h].post]>>)
      BY <1>1, PairFacts DEF Offered, OfferOf, Grounded, MessagingInv, TablesAgree,
                             OffersHaveConversation
    <3> QED BY <1>1, <3>1, PairFacts DEF Grounded, EnquirerOf
  <2> QED BY <1>1, <1>2, <1>3, <2>2, OfferViolationInv
<1>4. CASE OfferCreate(h) /\ ~Exists(c) /\ ~Offered(h)
  <2>1. WriteOffer(h) /\ conv' = [conv EXCEPT ![c] = OpenRow(OwnerOf(c))]
    BY <1>1, <1>4 DEF OfferCreate, OfferOpener
  <2>2. OpenRow(OwnerOf(c)) \in Row /\ OpenRow(OwnerOf(c)).openedBy = OwnerOf(c)
    BY PairFacts, OpenRowType
  <2> QED BY <1>1, <1>2, <1>4, <2>1, <2>2, OfferWriteInv
<1>5. CASE OfferJoin(h) /\ ~Offered(h)
  <2>1. WriteOffer(h) /\ conv' = conv /\ Exists(c)
    BY <1>1, <1>5 DEF OfferJoin, Grounded
  <2>2. conv' = [conv EXCEPT ![c] = conv[c]]
    BY <2>1 DEF MessagingInv, TypeOK
  <2> QED BY <1>1, <1>2, <1>5, <2>1, <2>2, OfferWriteInv
<1>6. CASE OfferReopen(h) /\ Reopenable(c) /\ ~Offered(h) /\ WriteOffer(h)
  <2>1. conv' = [conv EXCEPT ![c].closedBy = Nobody] /\ Exists(c)
    BY <1>1, <1>6 DEF OfferReopen, Grounded
  <2>2. /\ [conv[c] EXCEPT !.closedBy = Nobody] \in Row
        /\ [conv[c] EXCEPT !.closedBy = Nobody].openedBy = conv[c].openedBy
    BY <1>1 DEF Row
  <2>3. conv' = [conv EXCEPT ![c] = [conv[c] EXCEPT !.closedBy = Nobody]]
    BY <2>1
  <2> QED BY <1>1, <1>2, <1>6, <2>1, <2>2, <2>3, OfferWriteInv
<1>7. CASE OfferReopen(h) /\ ~Reopenable(c)
  <2>1. Goto(h, "failed") /\ UNCHANGED db
    BY <1>1, <1>2, <1>7 DEF OfferReopen, db, Posts
  <2> QED BY <1>1, <2>1, GotoReading DEF Finished
<1> QED BY <1>1, <1>3, <1>4, <1>5, <1>6, <1>7 DEF OfferCreate, OfferJoin, OfferReopen

LEMMA WithdrawUpdateInv ==
  ASSUME MessagingInv, NEW h \in Handler, WithdrawUpdate(h)
  PROVE  MessagingInv'
<1>1. PICK c \in Pair : /\ c = req[h].conv /\ Serving(h) /\ req[h].op = "withdraw"
                       /\ Grounded(req[h]) /\ req[h].post \in Post
  BY AtStep, OpOfStep DEF WithdrawUpdate, Serving, Finished, Grounded
<1>2. OfferOf(h) \in Answer
  BY <1>1, PairFacts DEF OfferOf, Answer
<1>3. offers \in [Answer -> {"none", "live", "withdrawn"}]
  BY DEF MessagingInv, TypeOK
<1>4. CASE offers[OfferOf(h)] = "live"
  <2>1. /\ offers' = [offers EXCEPT ![OfferOf(h)] = "withdrawn"] /\ Goto(h, "ok")
        /\ UNCHANGED <<Posts, conv, messages>>
    BY <1>4 DEF WithdrawUpdate
  <2>2. /\ offers' \in [Answer -> {"none", "live", "withdrawn"}]
        /\ \A a \in Answer : offers'[a] # "none" <=> offers[a] # "none"
    BY <1>2, <1>3, <1>4, <2>1
  <2>3. NothingDeleted
    BY <2>1, <2>2 DEF NothingDeleted, Exists
  <2>4. TablesAgree'
    <3>1. \A r \in Post, l \in Listing : offers'[<<r, l>>] # "none" <=> offers[<<r, l>>] # "none"
      BY <2>2 DEF Answer
    <3>2. \A d \in Pair : d[1] \in Listing
      BY PairFacts
    <3>3. OpenedFirst'
      BY <2>1 DEF MessagingInv, TablesAgree, OpenedFirst, Closed, Exists
    <3>4. OffersHaveConversation'
      BY <2>1, <3>1 DEF MessagingInv, TablesAgree, OffersHaveConversation, Exists
    <3>5. OpenedForAReason'
      BY <2>1, <3>1, <3>2
         DEF MessagingInv, TablesAgree, OpenedForAReason, OwnerOf, EnquirerOf
    <3> QED BY <3>3, <3>4, <3>5 DEF TablesAgree
  <2>5. conv' \in [Pair -> Row] /\ messages' \in [Pair -> Seq(User)]
    BY <2>1 DEF MessagingInv, TypeOK
  <2> QED BY <1>1, <2>1, <2>2, <2>3, <2>4, <2>5, CommitInv
<1>5. CASE offers[OfferOf(h)] # "live"
  <2>1. Goto(h, "failed") /\ UNCHANGED db
    BY <1>5 DEF WithdrawUpdate, db, Posts
  <2> QED BY <1>1, <2>1, GotoReading DEF Finished
<1> QED BY <1>4, <1>5

\* Listings, housing requests and users change beside the conversations.
LEMMA SurroundingsInv ==
  ASSUME MessagingInv, Surroundings
  PROVE  MessagingInv'
<1>1. UNCHANGED <<conv, messages, offers, req>>
  BY DEF Surroundings, SetListingStatus, ModerateListing, ModerateUser, SetRequestStatus
<1>2. /\ published' \subseteq Listing /\ removed' \subseteq Listing
      /\ suspended' \subseteq User /\ wanted' \subseteq Post
  BY DEF Surroundings, SetListingStatus, ModerateListing, ModerateUser, SetRequestStatus,
         Flip, MessagingInv, TypeOK
<1>3. TypeOK'
  BY <1>1, <1>2 DEF MessagingInv, TypeOK
<1>4. RequestsGrounded'
  BY <1>1 DEF MessagingInv, RequestsGrounded, Grounded, Participants, OwnerOf, EnquirerOf, Exists
<1>5. TablesAgree'
  BY <1>1 DEF MessagingInv, TablesAgree, OpenedFirst, OpenedForAReason,
              OffersHaveConversation, Closed, Exists
<1>6. OneWinner' /\ RetryFindsConversation'
  BY <1>1 DEF MessagingInv, OneWinner, RetryFindsConversation, OfferOf
<1> QED BY <1>3, <1>4, <1>5, <1>6 DEF MessagingInv

-----------------------------------------------------------------------------
(* The theorems. *)

LEMMA InitInv == Init => MessagingInv
<1> SUFFICES ASSUME Init PROVE MessagingInv
  OBVIOUS
<1>1. NoRow \in Row
  BY DEF NoRow, Row
<1>2. TypeOK
  BY <1>1, IdleType DEF Init, TypeOK
<1>3. \A c \in Pair : ~Exists(c) /\ ~Closed(c) /\ ~conv[c].shared /\ messages[c] = <<>>
  BY DEF Init, NoRow, Exists, Closed
<1>4. \A r \in Post, l \in Listing : offers[<<r, l>>] = "none"
  BY DEF Init, Answer
<1>5. TablesAgree
  BY <1>3, <1>4, PairFacts
     DEF TablesAgree, OpenedFirst, OpenedForAReason, OffersHaveConversation, Exists
<1>6. RequestsGrounded /\ OneWinner /\ RetryFindsConversation
  BY DEF Init, RequestsGrounded, OneWinner, RetryFindsConversation, Idle
<1> QED BY <1>2, <1>5, <1>6 DEF MessagingInv

LEMMA NextInv == MessagingInv /\ [Next]_vars => MessagingInv'
<1> SUFFICES ASSUME MessagingInv, [Next]_vars PROVE MessagingInv'
  OBVIOUS
<1>1. ASSUME NEW h \in Handler, Serve(h) PROVE MessagingInv'
  BY <1>1, ReadingStepsInv, StartInsertInv, SendInsertInv, RowStepInv, OfferCommitInv,
     OfferRecheckInv, WithdrawUpdateInv DEF Serve
<1>2. CASE \E h \in Handler : Arrive(h) \/ Serve(h) \/ Abandon(h)
  BY <1>1, <1>2, ArriveInv, AbandonInv
<1>3. CASE Surroundings
  BY <1>3, SurroundingsInv
<1>4. CASE UNCHANGED vars
  BY <1>4 DEF vars, MessagingInv, TypeOK, RequestsGrounded, Grounded, Participants, OwnerOf,
              EnquirerOf, TablesAgree, OpenedFirst, OpenedForAReason, OffersHaveConversation,
              OneWinner, RetryFindsConversation, OfferOf, Closed, Exists
<1> QED BY <1>2, <1>3, <1>4 DEF Next

\* Every reachable state of the server satisfies the inductive invariant.
THEOREM Invariance == Spec => []MessagingInv
BY InitInv, NextInv, PTL DEF Spec

\* The tables and the handlers keep their shape, whatever is served at once.
THEOREM TypeCorrect == Spec => []TypeOK
<1>1. MessagingInv => TypeOK BY DEF MessagingInv
<1> QED BY <1>1, Invariance, PTL

\* Every conversation has the enquirer's first message or an offer behind it.
THEOREM ConversationsHaveReason == Spec => []OpenedForAReason
<1>1. MessagingInv => OpenedForAReason BY DEF MessagingInv, TablesAgree
<1> QED BY <1>1, Invariance, PTL

\* No offer is without its conversation.
THEOREM OffersAreAnswered == Spec => []OffersHaveConversation
<1>1. MessagingInv => OffersHaveConversation BY DEF MessagingInv, TablesAgree
<1> QED BY <1>1, Invariance, PTL

\* Of the requests racing to create one conversation or one offer, one at
\* most is told it did.
THEOREM RacesHaveOneWinner == Spec => []OneWinner
<1>1. MessagingInv => OneWinner BY DEF MessagingInv
<1> QED BY <1>1, Invariance, PTL

\* An offer's second attempt never opens a conversation.
THEOREM RetriesFindTheConversation == Spec => []RetryFindsConversation
<1>1. MessagingInv => RetryFindsConversation BY DEF MessagingInv
<1> QED BY <1>1, Invariance, PTL

=============================================================================
