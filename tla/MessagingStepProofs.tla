------------------------- MODULE MessagingStepProofs -------------------------
(***************************************************************************)
(* Proofs of the action properties of Messaging, what no step may do to a  *)
(* conversation, and that it implements Thread, for any number of users,   *)
(* listings, housing requests and handlers.  The inductive invariant comes *)
(* from MessagingProofs.                                                   *)
(***************************************************************************)
EXTENDS MessagingProofs, MessagingRefinesThread

\* The steps that write into a conversation.
Writes(h) ==
  \/ StartInsert(h) \/ SendInsert(h) \/ CloseUpdate(h) \/ ShareUpdate(h)
  \/ OfferCreate(h) \/ OfferJoin(h) \/ OfferReopen(h)

\* A step leaves c and the offers answered in it alone.
Untouched(c) ==
  /\ conv'[c] = conv[c]
  /\ messages'[c] = messages[c]
  /\ \A r \in Post : Poster[r] = EnquirerOf(c) /\ offers[<<r, c[1]>>] = "none"
                      => offers'[<<r, c[1]>>] = "none"

LEMMA WriterTouchesItsOwn ==
  ASSUME MessagingInv, NEW h \in Handler, Writes(h), NEW c \in Pair, c # req[h].conv
  PROVE  Untouched(c)
<1>1. /\ Grounded(req[h]) /\ Serving(h) /\ req[h].conv \in Pair /\ req[h].who \in User
      /\ conv \in [Pair -> Row] /\ messages \in [Pair -> Seq(User)]
  BY AtStep DEF Writes, StartInsert, SendInsert, CloseUpdate, ShareUpdate, OfferCreate,
                OfferJoin, OfferReopen, Serving, Finished, MessagingInv, TypeOK
<1>2. conv'[c] = conv[c]
  <2>1. \/ UNCHANGED conv
        \/ \E row : conv' = [conv EXCEPT ![req[h].conv] = row]
    BY DEF Writes, StartInsert, SendInsert, CloseUpdate, ShareUpdate, OfferCreate,
           OfferJoin, OfferReopen, OfferViolation
  <2> QED BY <1>1, <2>1
<1> DEFINE Commits == /\ OfferCreate(h) \/ OfferJoin(h) \/ OfferReopen(h)
                      /\ WriteOffer(h) /\ ~Offered(h)
<1>3. CASE Commits
  <2>1. req[h].op = "offer"
    BY <1>1, <1>3, OpOfStep DEF OfferCreate, OfferJoin, OfferReopen
  <2>2. c[1] \in Listing /\ c = <<c[1], EnquirerOf(c)>>
    BY PairFacts DEF EnquirerOf
  <2> QED BY <1>1, <1>2, <1>3, <2>1, <2>2, WriteOfferFacts DEF Untouched
<1>4. CASE offers' = offers /\ (messages' = messages \/ AddMessage(req[h].conv, req[h].who))
  BY <1>1, <1>2, <1>4, AddMessageFacts DEF Untouched
<1>5. \/ Commits
      \/ offers' = offers /\ (messages' = messages \/ AddMessage(req[h].conv, req[h].who))
  BY DEF Writes, StartInsert, SendInsert, CloseUpdate, ShareUpdate, OfferCreate,
         OfferJoin, OfferReopen, OfferViolation
<1> QED BY <1>3, <1>4, <1>5

\* Whatever happens to a conversation is the doing of a handler at one of the
\* writing steps, serving a request about that conversation.
LEMMA TouchedByItsWriter ==
  ASSUME MessagingInv, [Next]_vars, NEW c \in Pair, ~Untouched(c)
  PROVE  \E h \in Handler : /\ Writes(h) /\ req[h].conv = c /\ Serving(h)
                            /\ Grounded(req[h]) /\ conv[c] \in Row
<1>1. ASSUME NEW h \in Handler, WithdrawUpdate(h) PROVE Untouched(c)
  <2>1. req[h].pc \notin Finished
    BY <1>1 DEF WithdrawUpdate, Finished
  <2>2. Grounded(req[h]) /\ req[h].op = "withdraw"
    BY <1>1, <2>1, AtStep, OpOfStep DEF WithdrawUpdate
  <2>3. OfferOf(h) \in Answer
    BY <2>1, <2>2, AtStep, PairFacts DEF OfferOf, Answer, Grounded
  <2>4. offers[OfferOf(h)] # "none"
    BY <2>2 DEF Grounded, OfferOf
  <2>5. offers \in [Answer -> {"none", "live", "withdrawn"}]
    BY DEF MessagingInv, TypeOK
  <2>6. \A a \in Answer : offers[a] = "none" => offers'[a] = "none"
    BY <1>1, <2>3, <2>4, <2>5 DEF WithdrawUpdate
  <2>7. \A r \in Post : <<r, c[1]>> \in Answer
    BY PairFacts DEF Answer
  <2>8. UNCHANGED <<conv, messages>>
    BY <1>1 DEF WithdrawUpdate
  <2> QED BY <2>6, <2>7, <2>8 DEF Untouched
<1>2. CASE UNCHANGED <<conv, messages, offers>>
  BY <1>2 DEF Untouched
<1>3. \/ UNCHANGED <<conv, messages, offers>>
      \/ \E h \in Handler : Writes(h) \/ WithdrawUpdate(h)
  <2>1. ASSUME NEW h \in Handler, Arrive(h) \/ Abandon(h) PROVE UNCHANGED db
    BY <2>1 DEF Arrive, Abandon, StartConversation, SendMessage, CloseConversation,
                ShareAddress, CreateOffer, WithdrawOffer
  <2>2. ASSUME NEW h \in Handler, Serve(h)
        PROVE  UNCHANGED db \/ Writes(h) \/ WithdrawUpdate(h)
    BY <2>2 DEF Serve, Writes, StartLookup, ShareListing, ShareReread, OfferListing,
                OfferLookup, OfferRead, OfferRecheck
  <2>3. Surroundings => UNCHANGED <<conv, messages, offers>>
    BY DEF Surroundings, SetListingStatus, ModerateListing, ModerateUser, SetRequestStatus
  <2> QED BY <2>1, <2>2, <2>3 DEF Next, vars, db
<1>4. PICK h \in Handler : Writes(h)
  BY <1>1, <1>2, <1>3
<1>5. req[h].conv = c
  BY <1>4, WriterTouchesItsOwn
<1>6. req[h].pc \notin Finished
  BY <1>4 DEF Writes, StartInsert, SendInsert, CloseUpdate, ShareUpdate, OfferCreate,
              OfferJoin, OfferReopen, Finished
<1> QED BY <1>4, <1>5, <1>6, AtStep DEF Serving

-----------------------------------------------------------------------------
(* Closing. *)

\* A closure stands unless the owner who made it reopens by an offer: the
\* WHERE clauses of CloseConversation and ReopenConversation, and the unique
\* key of a conversation, leave no other step.
THEOREM ClosuresStand == Spec => ClosureStands
<1>1. ASSUME MessagingInv, [Next]_vars, NEW c \in Pair, Closed(c) PROVE KeptClosed(c)
  <2> USE DEF KeptClosed
  <2>1. CASE Untouched(c)
    BY <2>1 DEF Untouched
  <2>2. CASE ~Untouched(c)
    <3>1. PICK h \in Handler : /\ Writes(h) /\ req[h].conv = c /\ Serving(h)
                              /\ Grounded(req[h]) /\ conv[c] \in Row
      BY <1>1, <2>2, TouchedByItsWriter
    <3>2. Exists(c) /\ conv \in [Pair -> Row] /\ offers \in [Answer -> {"none", "live", "withdrawn"}]
      BY <1>1 DEF MessagingInv, TypeOK, TablesAgree, OpenedFirst
    <3>3. CASE OfferReopen(h) /\ Reopenable(c) /\ WriteOffer(h) /\ ~Offered(h)
               /\ conv' = [conv EXCEPT ![c].closedBy = Nobody]
      <4>1. /\ req[h].op = "offer" /\ req[h].post \in Post
            /\ Poster[req[h].post] = EnquirerOf(c)
        BY <3>1, <3>3, OpOfStep DEF OfferReopen, Grounded
      <4>2. OfferOf(h) = <<req[h].post, c[1]>> /\ OfferOf(h) \in Answer
        BY <3>1, <4>1, PairFacts DEF OfferOf, Answer
      <4>3. offers[OfferOf(h)] = "none" /\ offers'[OfferOf(h)] = "live"
        BY <3>2, <3>3, <4>2 DEF WriteOffer, Offered
      <4>4. conv[c].closedBy = OwnerOf(c) /\ conv'[c].closedBy = Nobody
        BY <3>1, <3>2, <3>3 DEF Reopenable, Row
      <4> QED BY <4>1, <4>2, <4>3, <4>4
    <3>4. CASE conv' = conv
      BY <3>4
    <3>5. CASE ShareUpdate(h)
      <4>1. conv' = conv \/ conv' = [conv EXCEPT ![c].shared = TRUE]
        BY <3>1, <3>5 DEF ShareUpdate
      <4> QED BY <3>1, <3>2, <4>1 DEF Row
    <3> QED BY <1>1, <3>1, <3>2, <3>3, <3>4, <3>5
            DEF Writes, StartInsert, SendInsert, CloseUpdate, OfferCreate, OfferJoin,
                OfferReopen, OfferViolation
  <2> QED BY <2>1, <2>2
<1>2. MessagingInv /\ [Next]_vars => [\A c \in Pair : KeptClosed(c)]_vars
  BY <1>1 DEF KeptClosed
<1> QED BY <1>2, Invariance, PTL DEF Spec, ClosureStands

\* A handler comes to a write it was let in for only from a check that saw the
\* conversation open: sendRefusal, or the rule of makeOffer.
LEMMA LetInWhileOpen ==
  ASSUME MessagingInv, [Next]_vars, NEW c \in Pair, NEW g \in Handler,
         g \in Late(c)', g \notin Late(c)
  PROVE  ~Closed(c)
<1>1. req'[g].pc \in {"send_insert", "offer_join"} /\ req'[g].conv = c /\ req'[g] # req[g]
  BY DEF Late
<1>2. req \in [Handler -> Request]
  BY DEF MessagingInv, TypeOK
<1>3. PICK h \in Handler : Arrive(h) \/ Serve(h) \/ Abandon(h)
  BY <1>1 DEF Next, vars, Surroundings, SetListingStatus, ModerateListing, ModerateUser,
              SetRequestStatus
<1>4. ASSUME NEW pc, Goto(h, pc)
      PROVE  g = h /\ pc \in {"send_insert", "offer_join"} /\ req[h].conv = c
  BY <1>1, <1>2, <1>4 DEF Goto, Request
<1>5. ASSUME NEW op, NEW pc, NEW u, NEW d, NEW r, NEW note, Accept(h, op, pc, u, d, r, note)
      PROVE  g = h /\ pc \in {"send_insert", "offer_join"} /\ d = c
  BY <1>1, <1>2, <1>5 DEF Accept
<1>6. CASE Arrive(h)
  <2>1. CASE \E u \in User, d \in Pair : SendMessage(h, u, d)
    <3>1. PICK op, pc, u, d, r, note : ~Closed(d) /\ Accept(h, op, pc, u, d, r, note)
      BY <2>1 DEF SendMessage, SendRefused
    <3>2. d = c
      BY <1>5, <3>1
    <3> QED BY <3>1, <3>2
  <2>2. CASE \E u \in User, d \in Pair :
               StartConversation(h, u, d) \/ CloseConversation(h, u, d) \/ ShareAddress(h, u, d)
    <3>1. PICK op, pc, u, d, r, note : /\ pc \notin {"send_insert", "offer_join"}
                                       /\ Accept(h, op, pc, u, d, r, note)
      BY <2>2 DEF StartConversation, CloseConversation, ShareAddress
    <3> QED BY <1>5, <3>1
  <2>3. CASE \E r \in Post, l \in Listing, note \in BOOLEAN : CreateOffer(h, r, l, note)
    <3>1. PICK op, pc, u, d, r, note : pc = "offer_listing" /\ Accept(h, op, pc, u, d, r, note)
      BY <2>3 DEF CreateOffer
    <3> QED BY <1>5, <3>1
  <2>4. CASE \E r \in Post, l \in Listing : WithdrawOffer(h, r, l)
    <3>1. PICK op, pc, u, d, r, note : pc = "withdraw_update" /\ Accept(h, op, pc, u, d, r, note)
      BY <2>4 DEF WithdrawOffer
    <3> QED BY <1>5, <3>1
  <2> QED BY <1>6, <2>1, <2>2, <2>3, <2>4 DEF Arrive
<1>7. CASE OfferRead(h)
  <2>1. Goto(h, ConversationRule(req[h].conv))
    BY <1>7 DEF OfferRead
  <2>2. ConversationRule(c) \in {"send_insert", "offer_join"}
    BY <1>4, <2>1
  <2> QED BY <2>2 DEF ConversationRule
<1>8. CASE OfferRecheck(h) \/ Abandon(h)
  BY <1>1, <1>2, <1>8 DEF OfferRecheck, Abandon, Idle, Request
<1>9. CASE Serve(h) /\ ~OfferRead(h) /\ ~OfferRecheck(h)
  <2>1. \E pc : Goto(h, pc) /\ pc \notin {"send_insert", "offer_join"}
    BY <1>9 DEF Serve, StartLookup, StartInsert, SendInsert, CloseUpdate, ShareListing,
                ShareUpdate, ShareReread, OfferListing, OfferLookup, OfferCreate, OfferJoin,
                OfferReopen, OfferViolation, WriteOffer, WithdrawUpdate
  <2> QED BY <1>4, <2>1
<1> QED BY <1>3, <1>6, <1>7, <1>8, <1>9

\* After a close nothing more is let in, and after the enquirer's nothing more
\* is added than what had been: SendMessage and makeOffer read the closure
\* before they write, and neither may undo it.
THEOREM ClosingSettles == Spec => CloseSettles
<1>1. ASSUME MessagingInv, [Next]_vars, NEW c \in Pair,
             conv[c].closedBy = EnquirerOf(c), Late(c) = {}, ~Untouched(c)
      PROVE  FALSE
  <2>1. PICK h \in Handler : /\ Writes(h) /\ req[h].conv = c /\ Serving(h)
                            /\ Grounded(req[h]) /\ conv[c] \in Row
    BY <1>1, TouchedByItsWriter
  <2>2. EnquirerOf(c) # Nobody /\ EnquirerOf(c) # OwnerOf(c)
    BY PairFacts
  <2>3. Closed(c) /\ Exists(c) /\ ~Reopenable(c)
    BY <1>1, <2>2 DEF Closed, Reopenable, MessagingInv, TablesAgree, OpenedFirst
  <2>4. req[h].pc \notin {"send_insert", "offer_join"}
    BY <1>1, <2>1 DEF Late
  <2>5. UNCHANGED <<conv, messages, offers>>
    BY <2>1, <2>3, <2>4 DEF Writes, StartInsert, SendInsert, CloseUpdate, ShareUpdate, Shareable,
                            ShareRefused, OfferCreate, OfferJoin, OfferReopen, OfferViolation
  <2> QED BY <1>1, <2>5 DEF Untouched
<1>2. MessagingInv /\ [Next]_vars => [\A c \in Pair : Settling(c)]_vars
  <2> SUFFICES ASSUME MessagingInv, [Next]_vars, NEW c \in Pair PROVE Settling(c)
    OBVIOUS
  <2>1. Late(c) \subseteq Handler /\ Late(c)' \subseteq Handler
    BY DEF Late
  <2>2. Closed(c) => Late(c)' \subseteq Late(c)
    BY <2>1, LetInWhileOpen
  <2> QED BY <1>1, <2>2 DEF Settling, Untouched
<1> QED BY <1>2, Invariance, PTL DEF Spec, CloseSettles

-----------------------------------------------------------------------------
(* Sharing the address. *)

\* The conditions ShareConversationAddress repeats in its WHERE clause are
\* what makes the share safe; those the handler read before are not needed.
THEOREM SharesAreDeliberate == Spec => ShareIsDeliberate
<1>1. ASSUME MessagingInv, [Next]_vars, NEW c \in Pair PROVE SharedOnPurpose(c)
  <2> USE DEF SharedOnPurpose
  <2>1. CASE Untouched(c)
    BY <2>1 DEF Untouched
  <2>2. CASE ~Untouched(c)
    <3>1. PICK h \in Handler : /\ Writes(h) /\ req[h].conv = c /\ Serving(h)
                              /\ Grounded(req[h]) /\ conv[c] \in Row
      BY <1>1, <2>2, TouchedByItsWriter
    <3>2. conv \in [Pair -> Row] /\ (conv[c].shared => Exists(c))
      BY <1>1 DEF MessagingInv, TypeOK, TablesAgree, OpenedFirst
    <3>3. CASE conv' = conv
      BY <3>3
    <3>4. CASE ~Exists(c) /\ \E u : conv' = [conv EXCEPT ![c] = OpenRow(u)]
      BY <3>2, <3>4 DEF OpenRow
    <3>5. CASE \E u : conv' = [conv EXCEPT ![c].closedBy = u]
      <4>1. PICK u : conv' = [conv EXCEPT ![c].closedBy = u] BY <3>5
      <4> QED BY <3>2, <4>1 DEF Row
    <3>6. CASE ShareUpdate(h) /\ Shareable(c, req[h].who)
      <4>1. conv'[c].shared
        BY <3>1, <3>2, <3>6 DEF ShareUpdate, Row
      <4>2. /\ req[h].op = "share" /\ req[h].who = OwnerOf(c) /\ req[h].who \in Verified
            /\ Exists(c)
        BY <3>1, <3>6, OpOfStep DEF ShareUpdate, Grounded
      <4>3. /\ ~Closed(c) /\ c[1] \in (published \cap Addressed) \ removed
            /\ Participants(c) \cap suspended = {}
        BY <3>6 DEF Shareable, ShareRefused, Available, Participants, OwnerOf
      <4> QED BY <3>1, <4>1, <4>2, <4>3
    <3> QED BY <3>1, <3>3, <3>4, <3>5, <3>6
            DEF Writes, StartInsert, SendInsert, CloseUpdate, ShareUpdate, OfferCreate,
                OfferJoin, OfferReopen, OfferViolation
  <2> QED BY <2>1, <2>2
<1>2. MessagingInv /\ [Next]_vars => [\A c \in Pair : SharedOnPurpose(c)]_vars
  BY <1>1 DEF SharedOnPurpose
<1> QED BY <1>2, Invariance, PTL DEF Spec, ShareIsDeliberate

-----------------------------------------------------------------------------
(* The refinement of Thread. *)

\* Nothing about d changes that Thread can see.
SameThread(d) ==
  /\ PhaseOf(d)' = PhaseOf(d) /\ conv'[d].shared = conv[d].shared
  /\ Len(messages'[d]) = Len(messages[d]) /\ Late(d)' = Late(d)

\* A move of Thread on c.
MoveOpen(c, n) ==
  /\ PhaseOf(c) \in {"none", "closedByOwner"} /\ PhaseOf(c)' = "open"
  /\ conv'[c].shared = conv[c].shared
  /\ Len(messages'[c]) = Len(messages[c]) + n /\ Late(c)' = Late(c)

MoveAdmit(c, h) ==
  /\ PhaseOf(c) = "open" /\ PhaseOf(c)' = "open"
  /\ conv'[c].shared = conv[c].shared /\ Len(messages'[c]) = Len(messages[c])
  /\ h \notin Late(c) /\ Late(c)' = Late(c) \cup {h}

MoveArrival(c, h, n) ==
  /\ PhaseOf(c)' = PhaseOf(c) /\ conv'[c].shared = conv[c].shared
  /\ Len(messages'[c]) = Len(messages[c]) + n
  /\ h \in Late(c) /\ Late(c)' = Late(c) \ {h}

MoveShut(c) ==
  /\ PhaseOf(c) = "open" /\ PhaseOf(c)' \in {"closedByOwner", "closedByEnquirer"}
  /\ conv'[c].shared = conv[c].shared
  /\ Len(messages'[c]) = Len(messages[c]) /\ Late(c)' = Late(c)

MoveDisclose(c) ==
  /\ PhaseOf(c) = "open" /\ PhaseOf(c)' = "open"
  /\ ~conv[c].shared /\ conv'[c].shared = TRUE
  /\ Len(messages'[c]) = Len(messages[c]) /\ Late(c)' = Late(c)

Move(c) ==
  \/ MoveShut(c) \/ MoveDisclose(c)
  \/ \E n \in {0, 1} : MoveOpen(c, n)
  \/ \E h \in Handler : MoveAdmit(c, h) \/ \E n \in {0, 1} : MoveArrival(c, h, n)

LEMMA StutterMaps ==
  ASSUME \A d \in Pair : SameThread(d)
  PROVE  UNCHANGED T!threadVars
BY DEF SameThread, T!threadVars

\* A move on one conversation, the others being let alone, is a step of Thread.
LEMMA MoveMaps ==
  ASSUME NEW c \in Pair, Move(c), \A d \in Pair \ {c} : SameThread(d)
  PROVE  T!ThreadNext
<1> USE DEF SameThread
<1>1. CASE \E n \in {0, 1} : MoveOpen(c, n)
  <2>1. PICK n \in {0, 1} : MoveOpen(c, n)
    BY <1>1
  <2>2. T!Begin(c, n) \/ T!Reopen(c, n)
    BY <2>1 DEF MoveOpen, T!Begin, T!Reopen, T!OpenFrom
  <2> QED BY <2>2 DEF T!ThreadNext
<1>2. CASE \E h \in Handler : MoveAdmit(c, h)
  <2>1. PICK h \in Handler : MoveAdmit(c, h)
    BY <1>2
  <2>2. T!Admit(c, h)
    BY <2>1 DEF MoveAdmit, T!Admit
  <2> QED BY <2>2 DEF T!ThreadNext
<1>3. CASE \E h \in Handler, n \in {0, 1} : MoveArrival(c, h, n)
  <2>1. PICK h \in Handler, n \in {0, 1} : MoveArrival(c, h, n)
    BY <1>3
  <2>2. T!Arrival(c, h, n)
    BY <2>1 DEF MoveArrival, T!Arrival
  <2> QED BY <2>2 DEF T!ThreadNext
<1>4. CASE MoveShut(c)
  <2>1. PICK by \in {"closedByOwner", "closedByEnquirer"} : T!Shut(c, by)
    BY <1>4 DEF MoveShut, T!Shut
  <2> QED BY <2>1 DEF T!ThreadNext
<1>5. CASE MoveDisclose(c)
  <2>1. T!Disclose(c)
    BY <1>5 DEF MoveDisclose, T!Disclose
  <2> QED BY <2>1 DEF T!ThreadNext
<1> QED BY <1>1, <1>2, <1>3, <1>4, <1>5 DEF Move

\* The steps of a handler that has been let in.
LateSteps == {"send_insert", "offer_join"}

\* A handler that goes on is let in where it comes to a write, and has arrived
\* where it leaves one.
LEMMA LateAfter ==
  ASSUME MessagingInv, NEW h \in Handler, NEW c \in Pair, NEW q, q.conv = c,
         req' = [req EXCEPT ![h] = q], req[h].conv = c \/ req[h].pc \notin LateSteps
  PROVE  /\ \A d \in Pair \ {c} : Late(d)' = Late(d)
         /\ q.pc \in LateSteps => Late(c)' = Late(c) \cup {h}
         /\ q.pc \notin LateSteps => Late(c)' = Late(c) \ {h}
         /\ h \in Late(c) <=> req[h].pc \in LateSteps
<1>1. DOMAIN req = Handler
  BY DEF MessagingInv, TypeOK
<1>2. req'[h] = q /\ \A g \in Handler \ {h} : req'[g] = req[g]
  BY <1>1
<1>3. ASSUME NEW d \in Pair \ {c}
      PROVE  Late(d)' = Late(d)
  <2>1. h \notin Late(d)' /\ h \notin Late(d)
    BY <1>2 DEF Late, LateSteps
  <2> QED BY <1>2, <2>1 DEF Late
<1>4. h \in Late(c) => req[h].pc \in LateSteps
  BY DEF Late, LateSteps
<1>5. req[h].pc \in LateSteps => h \in Late(c)
  BY DEF Late, LateSteps
<1>6. q.pc \in LateSteps => Late(c)' = Late(c) \cup {h}
  BY <1>2 DEF Late, LateSteps
<1>7. q.pc \notin LateSteps => Late(c)' = Late(c) \ {h}
  BY <1>2 DEF Late, LateSteps
<1> QED BY <1>3, <1>4, <1>5, <1>6, <1>7

LEMMA GotoLate ==
  ASSUME MessagingInv, NEW h \in Handler, NEW c \in Pair, req[h].conv = c, NEW pc, Goto(h, pc)
  PROVE  /\ \A d \in Pair \ {c} : Late(d)' = Late(d)
         /\ pc \in LateSteps => Late(c)' = Late(c) \cup {h}
         /\ pc \notin LateSteps => Late(c)' = Late(c) \ {h}
         /\ h \in Late(c) <=> req[h].pc \in LateSteps
<1>1. PICK q : q = [req[h] EXCEPT !.pc = pc]
  OBVIOUS
<1>2. q.pc = pc /\ q.conv = c /\ req' = [req EXCEPT ![h] = q]
  BY <1>1 DEF Goto, MessagingInv, TypeOK, Request
<1> QED BY <1>2, LateAfter

\* A phase is one of four, and is read off closed_by.
LEMMA Phases ==
  ASSUME NEW c \in Pair
  PROVE  /\ PhaseOf(c) = "none" <=> ~Exists(c)
         /\ PhaseOf(c) = "open" <=> Exists(c) /\ ~Closed(c)
         /\ PhaseOf(c) = "closedByOwner" <=> Exists(c) /\ conv[c].closedBy = OwnerOf(c)
         /\ PhaseOf(c) \in {"none", "open", "closedByOwner", "closedByEnquirer"}
<1>1. OwnerOf(c) # Nobody
  BY PairFacts
<1> QED BY <1>1 DEF PhaseOf, Closed

\* What the tables show of d is as it was.
LEMMA SameRow ==
  ASSUME NEW d, conv'[d] = conv[d], messages'[d] = messages[d], Late(d)' = Late(d)
  PROVE  SameThread(d)
BY DEF SameThread, PhaseOf, Exists, Closed

LEMMA LastMessage ==
  ASSUME MessagingInv, NEW c \in Pair, NEW u \in User, AddMessage(c, u)
  PROVE  Len(messages'[c]) = Len(messages[c]) + 1
<1>1. messages[c] \in Seq(User) /\ messages'[c] = Append(messages[c], u)
  BY DEF AddMessage, MessagingInv, TypeOK
<1> QED BY <1>1

\* A step that leaves conversations and messages alone moves Thread by what it
\* lets in or gives up.
LEMMA RequestMoves ==
  ASSUME MessagingInv, NEW c \in Pair, NEW h \in Handler, UNCHANGED <<conv, messages>>,
         \A d \in Pair \ {c} : Late(d)' = Late(d),
         \/ Late(c)' = Late(c)
         \/ Late(c)' = Late(c) \ {h}
         \/ Late(c)' = Late(c) \cup {h} /\ PhaseOf(c) = "open"
  PROVE  T!ThreadNext \/ UNCHANGED T!threadVars
<1>1. \A d \in Pair \ {c} : SameThread(d)
  BY SameRow
<1>2. /\ PhaseOf(c)' = PhaseOf(c) /\ conv'[c].shared = conv[c].shared
      /\ Len(messages'[c]) = Len(messages[c])
  BY DEF PhaseOf, Exists, Closed
<1>3. CASE Late(c)' = Late(c)
  BY <1>1, <1>3, SameRow, StutterMaps
<1>4. CASE h \in Late(c) /\ Late(c)' = Late(c) \ {h}
  <2>1. messages[c] \in Seq(User)
    BY DEF MessagingInv, TypeOK
  <2>2. MoveArrival(c, h, 0)
    BY <1>2, <1>4, <2>1 DEF MoveArrival
  <2> QED BY <1>1, <2>2, MoveMaps DEF Move
<1>5. CASE h \notin Late(c) /\ Late(c)' = Late(c) \cup {h} /\ PhaseOf(c) = "open"
  <2>1. MoveAdmit(c, h)
    BY <1>2, <1>5 DEF MoveAdmit
  <2> QED BY <1>1, <2>1, MoveMaps DEF Move
<1>6. /\ h \notin Late(c) /\ Late(c)' = Late(c) \ {h} => Late(c)' = Late(c)
      /\ h \in Late(c) /\ Late(c)' = Late(c) \cup {h} => Late(c)' = Late(c)
  OBVIOUS
<1> QED BY <1>3, <1>4, <1>5, <1>6

LEMMA AcceptMoves ==
  ASSUME MessagingInv, NEW h \in Handler, NEW c \in Pair, NEW op, NEW pc, NEW u, NEW r, NEW note,
         Accept(h, op, pc, u, c, r, note), UNCHANGED db, pc \in LateSteps => PhaseOf(c) = "open"
  PROVE  T!ThreadNext \/ UNCHANGED T!threadVars
<1>1. PICK q : q = [op |-> op, pc |-> pc, who |-> u, conv |-> c, post |-> r,
                    note |-> note, retried |-> FALSE]
  OBVIOUS
<1>2. /\ q.conv = c /\ q.pc = pc /\ req' = [req EXCEPT ![h] = q]
      /\ req[h].pc \notin LateSteps
  BY <1>1 DEF Accept, Serving, Finished, LateSteps
<1>3. \A d \in Pair \ {c} : Late(d)' = Late(d)
  BY <1>2, LateAfter
<1>4. /\ pc \in LateSteps => Late(c)' = Late(c) \cup {h}
      /\ pc \notin LateSteps => Late(c)' = Late(c) \ {h}
  BY <1>2, LateAfter
<1> QED BY <1>3, <1>4, RequestMoves DEF db

LEMMA ArriveMoves ==
  ASSUME MessagingInv, NEW h \in Handler, Arrive(h)
  PROVE  T!ThreadNext \/ UNCHANGED T!threadVars
<1>1. CASE \E u \in User, c \in Pair : SendMessage(h, u, c)
  <2>1. PICK u \in User, c \in Pair : SendMessage(h, u, c)
    BY <1>1
  <2>2. PhaseOf(c) = "open"
    BY <2>1, Phases DEF SendMessage, SendRefused
  <2> QED BY <2>1, <2>2, AcceptMoves DEF SendMessage
<1>2. CASE \E u \in User, c \in Pair :
             StartConversation(h, u, c) \/ CloseConversation(h, u, c) \/ ShareAddress(h, u, c)
  <2>1. PICK u \in User, c \in Pair :
               StartConversation(h, u, c) \/ CloseConversation(h, u, c) \/ ShareAddress(h, u, c)
    BY <1>2
  <2>2. \E op : \E pc \in Step \ LateSteps : Accept(h, op, pc, u, c, Nobody, FALSE) /\ UNCHANGED db
    BY <2>1 DEF StartConversation, CloseConversation, ShareAddress, Step, LateSteps
  <2> QED BY <2>2, AcceptMoves
<1>3. CASE \E r \in Post, l \in Listing, note \in BOOLEAN : CreateOffer(h, r, l, note)
  <2>1. PICK r \in Post, l \in Listing, note \in BOOLEAN : CreateOffer(h, r, l, note)
    BY <1>3
  <2>2. PICK c \in Pair : /\ Accept(h, "offer", "offer_listing", OwnerOf(c), c, r, note)
                          /\ UNCHANGED db
    BY <2>1 DEF CreateOffer
  <2> QED BY <2>2, AcceptMoves DEF LateSteps
<1>4. CASE \E r \in Post, l \in Listing : WithdrawOffer(h, r, l)
  <2>1. PICK r \in Post, l \in Listing : WithdrawOffer(h, r, l)
    BY <1>4
  <2>2. PICK c \in Pair : /\ Accept(h, "withdraw", "withdraw_update", OwnerOf(c), c, r, FALSE)
                          /\ UNCHANGED db
    BY <2>1 DEF WithdrawOffer
  <2> QED BY <2>2, AcceptMoves DEF LateSteps
<1> QED BY <1>1, <1>2, <1>3, <1>4 DEF Arrive

\* The client goes away: what was let in arrives with nothing.
LEMMA AbandonMoves ==
  ASSUME MessagingInv, NEW h \in Handler, Abandon(h)
  PROVE  T!ThreadNext \/ UNCHANGED T!threadVars
<1>1. PICK c \in Pair : c = req[h].conv
  BY AtStep DEF Abandon, Serving
<1>2. req' = [req EXCEPT ![h] = Idle] /\ UNCHANGED <<conv, messages>> /\ Idle.pc \notin LateSteps
  BY DEF Abandon, db, Idle, LateSteps
<1>3. \A g \in Handler \ {h} : req'[g] = req[g]
  BY <1>2 DEF MessagingInv, TypeOK
<1>4. req'[h] = Idle
  BY <1>2 DEF MessagingInv, TypeOK
<1>5. \A d \in Pair \ {c} : Late(d)' = Late(d)
  BY <1>1, <1>2, <1>3, <1>4 DEF Late, LateSteps
<1>6. Late(c)' = Late(c) \ {h}
  BY <1>2, <1>3, <1>4 DEF Late, LateSteps
<1> QED BY <1>2, <1>5, <1>6, RequestMoves

\* The steps of a handler that write neither a conversation nor a message.
LEMMA ReadMoves ==
  ASSUME MessagingInv, NEW h \in Handler,
         \/ StartLookup(h) \/ ShareListing(h) \/ ShareReread(h) \/ OfferListing(h)
         \/ OfferLookup(h) \/ OfferRead(h) \/ OfferRecheck(h) \/ WithdrawUpdate(h)
  PROVE  T!ThreadNext \/ UNCHANGED T!threadVars
<1>1. req[h].pc \notin Finished /\ req[h].pc \notin LateSteps /\ UNCHANGED <<conv, messages>>
  BY DEF StartLookup, ShareListing, ShareReread, OfferListing, OfferLookup, OfferRead,
         OfferRecheck, WithdrawUpdate, Finished, LateSteps, db
<1>2. PICK c \in Pair : c = req[h].conv
  BY <1>1, AtStep
<1>3. CASE \E pc : Goto(h, pc) /\ (pc \in LateSteps => PhaseOf(c) = "open")
  <2>1. PICK pc : Goto(h, pc) /\ (pc \in LateSteps => PhaseOf(c) = "open")
    BY <1>3
  <2>2. /\ \A d \in Pair \ {c} : Late(d)' = Late(d)
        /\ pc \in LateSteps => Late(c)' = Late(c) \cup {h}
        /\ pc \notin LateSteps => Late(c)' = Late(c) \ {h}
    BY <1>2, <2>1, GotoLate
  <2> QED BY <1>1, <2>1, <2>2, RequestMoves
<1>4. CASE OfferRead(h)
  <2>1. Goto(h, ConversationRule(c))
    BY <1>2, <1>4 DEF OfferRead
  <2>2. ConversationRule(c) \in LateSteps => PhaseOf(c) = "open"
    BY Phases DEF ConversationRule, LateSteps
  <2> QED BY <1>3, <2>1, <2>2
<1>5. CASE OfferRecheck(h)
  <2>1. PICK q : q = [req[h] EXCEPT !.pc = IF Offered(h) THEN "refused" ELSE "offer_read",
                                    !.retried = ~Offered(h)]
    OBVIOUS
  <2>2. req' = [req EXCEPT ![h] = q]
    BY <1>5, <2>1 DEF OfferRecheck
  <2>3. q.conv = c /\ q.pc \in {"refused", "offer_read"}
    BY <1>2, <2>1 DEF MessagingInv, TypeOK, Request
  <2>4. (\A d \in Pair \ {c} : Late(d)' = Late(d)) /\ Late(c)' = Late(c) \ {h}
    BY <1>2, <2>2, <2>3, LateAfter DEF LateSteps
  <2> QED BY <1>1, <2>4, RequestMoves
<1>6. CASE ~OfferRead(h) /\ ~OfferRecheck(h)
  <2>1. \E pc : Goto(h, pc) /\ pc \notin LateSteps
    BY <1>6 DEF StartLookup, ShareListing, ShareReread, OfferListing, OfferLookup,
                WithdrawUpdate, LateSteps
  <2> QED BY <1>3, <2>1
<1> QED BY <1>4, <1>5, <1>6

\* The steps that write change one conversation, by a move of Thread.
LEMMA WriteMoves ==
  ASSUME MessagingInv, NEW h \in Handler, Writes(h)
  PROVE  T!ThreadNext \/ UNCHANGED T!threadVars
<1>1. req[h].pc \notin Finished
  BY DEF Writes, StartInsert, SendInsert, CloseUpdate, ShareUpdate, OfferCreate, OfferJoin,
         OfferReopen, Finished
<1>2. PICK c \in Pair : /\ c = req[h].conv /\ Grounded(req[h]) /\ req[h].who \in User
                       /\ conv[c] \in Row
  BY <1>1, AtStep
<1>3. /\ conv \in [Pair -> Row] /\ messages \in [Pair -> Seq(User)]
      /\ OwnerOf(c) # Nobody /\ EnquirerOf(c) # Nobody /\ OwnerOf(c) # EnquirerOf(c)
  BY PairFacts DEF MessagingInv, TypeOK
<1>4. PICK pc : Goto(h, pc) /\ pc \notin LateSteps
  BY DEF Writes, StartInsert, SendInsert, CloseUpdate, ShareUpdate, OfferCreate, OfferJoin,
         OfferReopen, OfferViolation, WriteOffer, LateSteps
<1>5. /\ \A d \in Pair \ {c} : Late(d)' = Late(d)
      /\ Late(c)' = Late(c) \ {h}
      /\ h \in Late(c) <=> req[h].pc \in LateSteps
  BY <1>2, <1>4, GotoLate
<1>6. \A d \in Pair \ {c} : SameThread(d)
  <2>1. \A d \in Pair \ {c} : conv'[d] = conv[d] /\ messages'[d] = messages[d]
    BY <1>2, WriterTouchesItsOwn DEF Untouched
  <2> QED BY <1>5, <2>1, SameRow
<1>7. ASSUME UNCHANGED <<conv, messages>>
      PROVE  T!ThreadNext \/ UNCHANGED T!threadVars
  BY <1>5, <1>7, RequestMoves
<1>8. ASSUME Move(c)
      PROVE  T!ThreadNext
  BY <1>6, <1>8, MoveMaps
<1>9. ASSUME AddMessage(c, req[h].who) \/ messages' = messages
      PROVE  \E n \in {0, 1} : Len(messages'[c]) = Len(messages[c]) + n
  <2>1. Len(messages[c]) \in Nat
    BY <1>3
  <2> QED BY <1>2, <1>9, <2>1, LastMessage
<1>10. ASSUME WriteOffer(h)
       PROVE  AddMessage(c, req[h].who) \/ messages' = messages
  BY <1>2, <1>10 DEF WriteOffer
<1>11. CASE StartInsert(h) \/ OfferCreate(h)
  <2>1. req[h].pc \notin LateSteps
    BY <1>11 DEF StartInsert, OfferCreate, LateSteps
  <2>2. CASE UNCHANGED <<conv, messages>>
    BY <1>7, <2>2
  <2>3. CASE /\ ~Exists(c) /\ (AddMessage(c, req[h].who) \/ messages' = messages)
             /\ \E u \in User : conv' = [conv EXCEPT ![c] = OpenRow(u)]
    <3>1. PICK u \in User : conv' = [conv EXCEPT ![c] = OpenRow(u)]
      BY <2>3
    <3>2. conv'[c] = OpenRow(u) /\ u # Nobody
      BY <1>3, <3>1, MessagingAssumption
    <3>3. PhaseOf(c)' = "open"
      BY <1>3, <3>2 DEF PhaseOf, Exists, Closed, OpenRow
    <3>4. conv'[c].shared = FALSE /\ conv[c].shared = FALSE
      BY <1>2, <2>3, <3>2 DEF OpenRow, MessagingInv, TablesAgree, OpenedFirst, Row
    <3>5. PICK n \in {0, 1} : Len(messages'[c]) = Len(messages[c]) + n
      BY <1>9, <2>3
    <3>6. MoveOpen(c, n)
      BY <1>5, <2>1, <2>3, <3>3, <3>4, <3>5, Phases DEF MoveOpen
    <3> QED BY <1>8, <3>6 DEF Move
  <2>4. OfferOpener(c) \in User
    BY PairFacts DEF OfferOpener
  <2> QED BY <1>2, <1>10, <1>11, <2>2, <2>3, <2>4 DEF StartInsert, OfferCreate, OfferViolation
<1>12. CASE SendInsert(h) \/ OfferJoin(h)
  <2>1. h \in Late(c) /\ conv' = conv
    BY <1>5, <1>12 DEF SendInsert, OfferJoin, OfferViolation, LateSteps
  <2>2. AddMessage(c, req[h].who) \/ messages' = messages
    BY <1>2, <1>10, <1>12 DEF SendInsert, OfferJoin, OfferViolation
  <2>3. PICK n \in {0, 1} : Len(messages'[c]) = Len(messages[c]) + n
    BY <1>9, <2>2
  <2>4. PhaseOf(c)' = PhaseOf(c)
    BY <2>1 DEF PhaseOf, Exists, Closed
  <2>5. MoveArrival(c, h, n)
    BY <1>5, <2>1, <2>3, <2>4 DEF MoveArrival
  <2> QED BY <1>8, <2>5 DEF Move
<1>13. CASE CloseUpdate(h)
  <2>1. CASE conv' = conv
    BY <1>7, <1>13, <2>1 DEF CloseUpdate
  <2>2. CASE ~Closed(c) /\ conv' = [conv EXCEPT ![c].closedBy = req[h].who]
    <3>1. Exists(c) /\ req[h].who \in Participants(c)
      BY <1>2, <1>13, OpOfStep DEF Grounded, CloseUpdate
    <3>2. /\ conv'[c].closedBy = req[h].who /\ conv'[c].shared = conv[c].shared
          /\ conv'[c].openedBy = conv[c].openedBy
      BY <1>2, <1>3, <2>2 DEF Row
    <3>3. PhaseOf(c)' \in {"closedByOwner", "closedByEnquirer"}
      BY <1>3, <3>1, <3>2 DEF PhaseOf, Exists, Closed, Participants
    <3>4. h \notin Late(c) /\ messages' = messages
      BY <1>5, <1>13 DEF CloseUpdate, LateSteps
    <3>5. MoveShut(c)
      BY <1>5, <2>2, <3>1, <3>2, <3>3, <3>4, Phases DEF MoveShut
    <3> QED BY <1>8, <3>5 DEF Move
  <2> QED BY <1>2, <1>13, <2>1, <2>2 DEF CloseUpdate
<1>14. CASE ShareUpdate(h)
  <2>1. CASE conv' = conv
    BY <1>7, <1>14, <2>1 DEF ShareUpdate
  <2>2. CASE Shareable(c, req[h].who) /\ conv' = [conv EXCEPT ![c].shared = TRUE]
    <3>1. Exists(c) /\ ~Closed(c) /\ ~conv[c].shared
      BY <1>2, <1>14, <2>2, OpOfStep DEF Grounded, ShareUpdate, Shareable, ShareRefused
    <3>2. /\ conv'[c].closedBy = conv[c].closedBy /\ conv'[c].shared = TRUE
          /\ conv'[c].openedBy = conv[c].openedBy
      BY <1>2, <1>3, <2>2 DEF Row
    <3>3. PhaseOf(c)' = "open"
      BY <1>3, <3>1, <3>2 DEF PhaseOf, Exists, Closed
    <3>4. h \notin Late(c) /\ messages' = messages
      BY <1>5, <1>14 DEF ShareUpdate, LateSteps
    <3>5. MoveDisclose(c)
      BY <1>5, <3>1, <3>2, <3>3, <3>4, Phases DEF MoveDisclose
    <3> QED BY <1>8, <3>5 DEF Move
  <2> QED BY <1>2, <1>14, <2>1, <2>2 DEF ShareUpdate
<1>15. CASE OfferReopen(h)
  <2>1. CASE UNCHANGED <<conv, messages>>
    BY <1>7, <2>1
  <2>2. CASE Reopenable(c) /\ WriteOffer(h) /\ conv' = [conv EXCEPT ![c].closedBy = Nobody]
    <3>1. Exists(c)
      BY <1>2, <1>15 DEF Grounded, OfferReopen
    <3>2. /\ conv'[c].closedBy = Nobody /\ conv'[c].shared = conv[c].shared
          /\ conv'[c].openedBy = conv[c].openedBy
      BY <1>2, <1>3, <2>2 DEF Row
    <3>3. PhaseOf(c)' = "open"
      BY <1>3, <3>1, <3>2 DEF PhaseOf, Exists, Closed
    <3>4. h \notin Late(c)
      BY <1>5, <1>15 DEF OfferReopen, LateSteps
    <3>5. PICK n \in {0, 1} : Len(messages'[c]) = Len(messages[c]) + n
      BY <1>9, <1>10, <2>2
    <3>6. MoveOpen(c, n)
      BY <1>5, <2>2, <3>1, <3>2, <3>3, <3>4, <3>5, Phases DEF MoveOpen, Reopenable
    <3> QED BY <1>8, <3>6 DEF Move
  <2> QED BY <1>2, <1>15, <2>1, <2>2 DEF OfferReopen, OfferViolation
<1> QED BY <1>11, <1>12, <1>13, <1>14, <1>15 DEF Writes

LEMMA InitMaps == Init => T!ThreadInit
<1> SUFFICES ASSUME Init PROVE T!ThreadInit
  OBVIOUS
<1>1. \A c \in Pair : conv[c] = NoRow /\ messages[c] = <<>>
  BY DEF Init
<1>2. \A c \in Pair : PhaseOf(c) = "none" /\ conv[c].shared = FALSE /\ Len(messages[c]) = 0
  BY <1>1, Phases DEF NoRow, Exists
<1>3. \A c \in Pair : Late(c) = {}
  BY DEF Init, Late, Idle
<1> QED BY <1>2, <1>3 DEF T!ThreadInit

\* The handlers together do only what Thread allows of a conversation: a close
\* stops admission and nothing else does what Thread does not, for any number
\* of users, listings, housing requests and handlers.
THEOREM ImplementsThread == Spec => KeepsThePromise
<1>1. ASSUME MessagingInv, [Next]_vars
      PROVE  T!ThreadNext \/ UNCHANGED T!threadVars
  <2>1. CASE Surroundings \/ UNCHANGED vars
    <3>1. UNCHANGED <<conv, messages, req>>
      BY <2>1 DEF Surroundings, SetListingStatus, ModerateListing, ModerateUser,
                  SetRequestStatus, vars
    <3>2. \A d \in Pair : SameThread(d)
      BY <3>1, SameRow DEF Late
    <3> QED BY <3>2, StutterMaps
  <2>2. ASSUME NEW h \in Handler, Serve(h)
        PROVE  T!ThreadNext \/ UNCHANGED T!threadVars
    <3>1. \/ Writes(h)
          \/ StartLookup(h) \/ ShareListing(h) \/ ShareReread(h) \/ OfferListing(h)
          \/ OfferLookup(h) \/ OfferRead(h) \/ OfferRecheck(h) \/ WithdrawUpdate(h)
      BY <2>2 DEF Serve, Writes
    <3> QED BY <1>1, <3>1, ReadMoves, WriteMoves
  <2> QED BY <1>1, <2>1, <2>2, ArriveMoves, AbandonMoves DEF Next
<1>2. MessagingInv /\ [Next]_vars => [T!ThreadNext]_(T!threadVars)
  BY <1>1
<1> QED BY <1>2, InitMaps, Invariance, PTL DEF Spec, KeepsThePromise, T!ThreadSpec

=============================================================================
