------------------------------ MODULE Messaging ------------------------------
(***************************************************************************)
(* Conversations, their messages, offers and the address share: the        *)
(* handlers of internal/httpapi/{conversations,messages,offers}.go over    *)
(* the tables conversations, messages and request_offers.                  *)
(*                                                                         *)
(* HTTP requests are served concurrently, one goroutine each, and every    *)
(* query is a statement of its own at READ COMMITTED; only the writes of   *)
(* StartConversation and of an offer are transactions.  A handler is       *)
(* therefore split at its database calls: between two of its steps any     *)
(* other request, a moderator or an owner's status change may run.  What   *)
(* a handler keeps from its earlier reads is in req[h].                    *)
(***************************************************************************)
EXTENDS Naturals, Sequences, FiniteSets

CONSTANTS
  User, Listing, Post,   \* accounts, listings, housing requests ("Post": avoids clashing with HTTP requests)
  Owner,                 \* listings.owner_id: a listing never changes hands
  Poster,                \* housing_requests.poster_id
  Verified,              \* users whose access token says they are verified
  Addressed,             \* listings whose address_line is not blank; no write path can blank one
  Handler,               \* requests the server works on at one time
  Nobody,                \* SQL NULL in a user column, and no user or post in a handler
  Served,                \* the operations clients call in an instance, a subset of Op
  Changing,              \* what moves around the conversations in an instance, a subset of Change
  MaxMessages            \* bound: messages in one conversation

Op == {"start", "send", "close", "share", "offer", "withdraw"}
Change == {"status", "takedown", "suspension", "request"}

ASSUME MessagingAssumption ==
  /\ Owner \in [Listing -> User]
  /\ Poster \in [Post -> User]
  /\ Verified \subseteq User
  /\ Addressed \subseteq Listing
  /\ Nobody \notin User \cup Post
  /\ Served \subseteq Op
  /\ Changing \subseteq Change
  /\ MaxMessages \in Nat

VARIABLES
  published,   \* listings whose status is 'published' (the owner's axis)
  removed,     \* listings a moderator took down (removed_at IS NOT NULL)
  suspended,   \* users with suspended_at set
  wanted,      \* housing requests that are published and not taken down
  conv,        \* the conversations table, keyed by its UNIQUE (listing_id, enquirer_id)
  messages,    \* the messages of each conversation: who sent them, in order of insertion
  offers,      \* the request_offers table, keyed by its UNIQUE (request_id, listing_id)
  req          \* the requests being served: what each handler still knows

db == <<published, removed, suspended, wanted, conv, messages, offers>>
vars == <<published, removed, suspended, wanted, conv, messages, offers, req>>

-----------------------------------------------------------------------------
(* The tables. *)

\* A conversation is its UNIQUE key; conversations_two_people keeps the two apart.
Pair == {c \in Listing \X User : Owner[c[1]] # c[2]}
Answer == Post \X Listing

Row == [openedBy : User \cup {Nobody}, closedBy : User \cup {Nobody}, shared : BOOLEAN]
NoRow == [openedBy |-> Nobody, closedBy |-> Nobody, shared |-> FALSE]

OwnerOf(c) == Owner[c[1]]
EnquirerOf(c) == c[2]
Participants(c) == {OwnerOf(c), EnquirerOf(c)}
Counterpart(c, u) == IF u = OwnerOf(c) THEN EnquirerOf(c) ELSE OwnerOf(c)

Exists(c) == conv[c].openedBy # Nobody
Closed(c) == conv[c].closedBy # Nobody

\* What the public sees, by the three filters of the public reads.
Available(l) == l \in published \ removed /\ Owner[l] \notin suspended

\* Mutant: sendRefusal without its first rule.
SendRefused_whenClosed(c, u) == Counterpart(c, u) \in suspended \/ c[1] \in removed

\* sendRefusal, the rule can_send reports to u.
SendRefused(c, u) ==
  \/ Closed(c)
  \/ Counterpart(c, u) \in suspended
  \/ c[1] \in removed

\* shareRefusal, asked by the owner.
ShareRefused(c) ==
  \/ Closed(c)
  \/ EnquirerOf(c) \in suspended
  \/ ~Available(c[1])

-----------------------------------------------------------------------------
(* Requests being served. *)

Finished == {"idle", "ok", "refused", "failed"}   \* 2xx, 4xx, 500
Step == {"start_lookup", "start_insert", "send_insert", "close_update",
         "share_listing", "share_update", "share_reread",
         "offer_listing", "offer_lookup", "offer_read", "offer_create",
         "offer_join", "offer_reopen", "offer_recheck", "withdraw_update"}

Request == [op : Op \cup {"none"}, pc : Finished \cup Step, who : User \cup {Nobody},
            conv : Pair \cup {Nobody}, post : Post \cup {Nobody},
            note : BOOLEAN, retried : BOOLEAN]

Idle == [op |-> "none", pc |-> "idle", who |-> Nobody, conv |-> Nobody,
         post |-> Nobody, note |-> FALSE, retried |-> FALSE]

Serving(h) == req[h].pc \notin Finished

\* Handler h takes a request of u about c (and the housing request r, with a
\* note or not) and has done its first read.
Accept(h, op, pc, u, c, r, note) ==
  /\ op \in Served
  /\ ~Serving(h)
  /\ req' = [req EXCEPT ![h] = [op |-> op, pc |-> pc, who |-> u, conv |-> c, post |-> r,
                                note |-> note, retried |-> FALSE]]

Goto(h, pc) == req' = [req EXCEPT ![h].pc = pc]

\* Handlers that may still add a message to c, and the room the bound leaves.
Writers(c) == {h \in Handler : Serving(h) /\ req[h].conv = c
                               /\ (req[h].op \in {"start", "send"} \/ req[h].note)}
Room(c) == Len(messages[c]) + Cardinality(Writers(c)) < MaxMessages

\* CreateMessage.
AddMessage(c, u) == messages' = [messages EXCEPT ![c] = Append(@, u)]

\* CreateConversation by u; nobody has closed it and no address is shared.
OpenRow(u) == [openedBy |-> u, closedBy |-> Nobody, shared |-> FALSE]

Posts == <<published, removed, suspended, wanted>>

-----------------------------------------------------------------------------
(* StartConversation: three statements and a transaction. *)

\* GetPublishedListing.  Anything else than a published listing of somebody
\* else answers 4xx and touches nothing, so it is no step here.
StartConversation(h, u, c) ==
  /\ u \in Verified /\ u = EnquirerOf(c)
  /\ Available(c[1])
  /\ Room(c)
  /\ Accept(h, "start", "start_lookup", u, c, Nobody, FALSE)
  /\ UNCHANGED db

\* GetConversationByListingAndEnquirer: an existing one is a 409.
StartLookup(h) ==
  /\ req[h].pc = "start_lookup"
  /\ Goto(h, IF Exists(req[h].conv) THEN "refused" ELSE "start_insert")
  /\ UNCHANGED db

\* The transaction: the conversation and its first message.  Losing the race
\* to the unique constraint is the same 409.
StartInsert(h) ==
  LET c == req[h].conv IN
  /\ req[h].pc = "start_insert"
  /\ \/ /\ Exists(c)
        /\ Goto(h, "refused")
        /\ UNCHANGED <<conv, messages>>
     \/ /\ ~Exists(c)
        /\ conv' = [conv EXCEPT ![c] = OpenRow(req[h].who)]
        /\ AddMessage(c, req[h].who)
        /\ Goto(h, "ok")
  /\ UNCHANGED <<Posts, offers>>

-----------------------------------------------------------------------------
(* SendMessage: the read that decides, then an INSERT with no condition. *)

SendMessage(h, u, c) ==
  /\ u \in Verified \cap Participants(c)
  /\ Exists(c) /\ ~SendRefused(c, u)
  /\ Room(c)
  /\ Accept(h, "send", "send_insert", u, c, Nobody, FALSE)
  /\ UNCHANGED db

SendInsert(h) ==
  /\ req[h].pc = "send_insert"
  /\ AddMessage(req[h].conv, req[h].who)
  /\ Goto(h, "ok")
  /\ UNCHANGED <<Posts, conv, offers>>

-----------------------------------------------------------------------------
(* CloseConversation: the participant check, then an UPDATE of an open row. *)

CloseConversation(h, u, c) ==
  /\ u \in Participants(c) /\ Exists(c)
  /\ Accept(h, "close", "close_update", u, c, Nobody, FALSE)
  /\ UNCHANGED db

CloseUpdate(h) ==
  LET c == req[h].conv IN
  /\ req[h].pc = "close_update"
  /\ conv' = IF Closed(c) THEN conv
             ELSE [conv EXCEPT ![c].closedBy = req[h].who]
  /\ Goto(h, "ok")
  /\ UNCHANGED <<Posts, messages, offers>>

-----------------------------------------------------------------------------
(* ShareAddress. *)

\* GetConversationForParticipant and the checks made on it.  A share already
\* made answers 200, a refusal 4xx: neither changes anything.
ShareAddress(h, u, c) ==
  /\ u \in Verified /\ u = OwnerOf(c)
  /\ Exists(c) /\ ~conv[c].shared /\ ~ShareRefused(c)
  /\ Accept(h, "share", "share_listing", u, c, Nobody, FALSE)
  /\ UNCHANGED db

\* GetListingForOwner, to refuse a blank address.
ShareListing(h) ==
  /\ req[h].pc = "share_listing"
  /\ Goto(h, IF req[h].conv[1] \in Addressed THEN "share_update" ELSE "refused")
  /\ UNCHANGED db

\* Mutant: the UPDATE that trusts what the handler read.
Shareable_asRead(c, u) == OwnerOf(c) = u /\ ~conv[c].shared

\* What the WHERE clause of ShareConversationAddress asks of the row, the
\* listing and both users when it runs.
Shareable(c, u) ==
  /\ OwnerOf(c) = u
  /\ ~conv[c].shared /\ ~ShareRefused(c)
  /\ c[1] \in Addressed

ShareUpdate(h) ==
  LET c == req[h].conv IN
  /\ req[h].pc = "share_update"
  /\ conv' = IF Shareable(c, req[h].who) THEN [conv EXCEPT ![c].shared = TRUE]
             ELSE conv
  /\ Goto(h, "share_reread")
  /\ UNCHANGED <<Posts, messages, offers>>

\* The re-read: 200 when the address is shared by now, 409 otherwise.
ShareReread(h) ==
  /\ req[h].pc = "share_reread"
  /\ Goto(h, IF conv[req[h].conv].shared THEN "ok" ELSE "refused")
  /\ UNCHANGED db

-----------------------------------------------------------------------------
(* CreateOffer: three reads, then makeOffer, run again once when it loses a  *)
(* race to a unique constraint.                                              *)

\* GetPublishedRequest.  Only the listing's owner gets further than a 404.
CreateOffer(h, r, l, note) ==
  LET c == <<l, Poster[r]>> IN
  /\ c \in Pair /\ OwnerOf(c) \in Verified
  /\ r \in wanted /\ Poster[r] \notin suspended
  /\ note => Room(c)
  /\ Accept(h, "offer", "offer_listing", OwnerOf(c), c, r, note)
  /\ UNCHANGED db

\* GetListingForOwner: taken down or not published is a 400.
OfferListing(h) ==
  /\ req[h].pc = "offer_listing"
  /\ Goto(h, IF req[h].conv[1] \in published \ removed THEN "offer_lookup" ELSE "refused")
  /\ UNCHANGED db

\* The offer h is making.
OfferOf(h) == <<req[h].post, req[h].conv[1]>>

\* Mutant: a unique key over the offers that are not withdrawn.
Offered_live(h) == offers[OfferOf(h)] = "live"

Offered(h) == offers[OfferOf(h)] # "none"

\* GetOfferForListing: offered before, withdrawn or not, is a 409.
OfferLookup(h) ==
  /\ req[h].pc = "offer_lookup"
  /\ Goto(h, IF Offered(h) THEN "refused" ELSE "offer_read")
  /\ UNCHANGED db

\* Mutant: an offer that opens no conversation.
ConversationRule_neverOpens(c) ==
  IF ~Closed(c) THEN "offer_join" ELSE "refused"

\* Mutant: whoever closed it, the offer joins.
ConversationRule_joinsAny(c) ==
  IF Exists(c) THEN "offer_join" ELSE "offer_create"

\* makeOffer's rule for the conversation the listing and the poster already have.
ConversationRule(c) ==
  CASE ~Exists(c) -> "offer_create"
    [] Exists(c) /\ ~Closed(c) -> "offer_join"
    [] Exists(c) /\ conv[c].closedBy = OwnerOf(c) -> "offer_reopen"
    [] OTHER -> "refused"

\* The first statement of makeOffer's transaction.
OfferRead(h) ==
  /\ req[h].pc = "offer_read"
  /\ Goto(h, ConversationRule(req[h].conv))
  /\ UNCHANGED db

\* CreateOffer, SetOfferConversation and the note, with the commit.
WriteOffer(h) ==
  /\ offers' = [offers EXCEPT ![OfferOf(h)] = "live"]
  /\ IF req[h].note THEN AddMessage(req[h].conv, req[h].who) ELSE UNCHANGED messages
  /\ Goto(h, "ok")

\* A unique constraint refused an INSERT and the transaction rolled back.  The
\* first time the handler looks again; the second time it answers 500.
OfferViolation(h) ==
  /\ Goto(h, IF req[h].retried THEN "failed" ELSE "offer_recheck")
  /\ UNCHANGED <<conv, messages, offers>>

\* Mutant: opened_by as StartConversation fills it.
OfferOpener_enquirer(c) == EnquirerOf(c)

OfferOpener(c) == OwnerOf(c)

\* No conversation was read: open one, from the owner's side.
OfferCreate(h) ==
  LET c == req[h].conv IN
  /\ req[h].pc = "offer_create"
  /\ \/ /\ Exists(c) \/ Offered(h)
        /\ OfferViolation(h)
     \/ /\ ~Exists(c) /\ ~Offered(h)
        /\ conv' = [conv EXCEPT ![c] = OpenRow(OfferOpener(c))]
        /\ WriteOffer(h)
  /\ UNCHANGED Posts

\* An open conversation was read: join it.  Nothing reads it again.
OfferJoin(h) ==
  /\ req[h].pc = "offer_join"
  /\ \/ Offered(h) /\ OfferViolation(h)
     \/ ~Offered(h) /\ WriteOffer(h) /\ UNCHANGED conv
  /\ UNCHANGED Posts

\* Mutant: ReopenConversation without its closed_by condition.
Reopenable_anyCloser(c) == Closed(c)

\* One the owner closed was read: ReopenConversation matches only a row that
\* owner closed, and no row is an error the handler answers with 500.
Reopenable(c) == conv[c].closedBy = OwnerOf(c)

OfferReopen(h) ==
  LET c == req[h].conv IN
  /\ req[h].pc = "offer_reopen"
  /\ \/ /\ ~Reopenable(c)
        /\ Goto(h, "failed")
        /\ UNCHANGED <<conv, messages, offers>>
     \/ Reopenable(c) /\ Offered(h) /\ OfferViolation(h)
     \/ /\ Reopenable(c) /\ ~Offered(h)
        /\ conv' = [conv EXCEPT ![c].closedBy = Nobody]
        /\ WriteOffer(h)
  /\ UNCHANGED Posts

\* Mutant: try again for as long as it takes.
OfferRecheck_endless(h) ==
  /\ req[h].pc = "offer_recheck"
  /\ Goto(h, "offer_read")
  /\ UNCHANGED db

\* After a unique violation: the same offer made twice at once is the 409,
\* anything else one more attempt.
OfferRecheck(h) ==
  /\ req[h].pc = "offer_recheck"
  /\ req' = [req EXCEPT ![h].pc = IF Offered(h) THEN "refused" ELSE "offer_read",
                        ![h].retried = ~Offered(h)]
  /\ UNCHANGED db

-----------------------------------------------------------------------------
(* WithdrawOffer. *)

\* GetOffer: an offer already withdrawn answers 204 at once.
WithdrawOffer(h, r, l) ==
  LET c == <<l, Poster[r]>> IN
  /\ c \in Pair /\ offers[<<r, l>>] = "live"
  /\ Accept(h, "withdraw", "withdraw_update", OwnerOf(c), c, r, FALSE)
  /\ UNCHANGED db

\* Mutant: withdrawing deletes the row.
WithdrawUpdate_deletes(h) ==
  /\ req[h].pc = "withdraw_update"
  /\ offers' = [a \in DOMAIN offers \ {OfferOf(h)} |-> offers[a]]
  /\ Goto(h, "ok")
  /\ UNCHANGED <<Posts, conv, messages>>

\* The UPDATE matches a live offer only, and the handler takes no row for an
\* error: 500.
WithdrawUpdate(h) ==
  LET live == offers[OfferOf(h)] = "live" IN
  /\ req[h].pc = "withdraw_update"
  /\ offers' = IF live THEN [offers EXCEPT ![OfferOf(h)] = "withdrawn"] ELSE offers
  /\ Goto(h, IF live THEN "ok" ELSE "failed")
  /\ UNCHANGED <<Posts, conv, messages>>

-----------------------------------------------------------------------------
(* Around the handlers. *)

\* The client goes away, the process dies or a query fails: whatever has not
\* committed never will.
Abandon(h) ==
  /\ Serving(h)
  /\ req' = [req EXCEPT ![h] = Idle]
  /\ UNCHANGED db

\* A set with x moved in or out.
Flip(S, x) == IF x \in S THEN S \ {x} ELSE S \cup {x}

\* The owner publishes, pauses or archives a listing.
SetListingStatus(l) ==
  /\ "status" \in Changing
  /\ published' = Flip(published, l)
  /\ UNCHANGED <<removed, suspended, wanted, conv, messages, offers, req>>

\* RemovePost and RestorePost of a listing.
ModerateListing(l) ==
  /\ "takedown" \in Changing
  /\ removed' = Flip(removed, l)
  /\ UNCHANGED <<published, suspended, wanted, conv, messages, offers, req>>

\* Suspend and Reinstate.
ModerateUser(u) ==
  /\ "suspension" \in Changing
  /\ suspended' = Flip(suspended, u)
  /\ UNCHANGED <<published, removed, wanted, conv, messages, offers, req>>

\* A housing request becomes public, or stops being so.
SetRequestStatus(r) ==
  /\ "request" \in Changing
  /\ wanted' = Flip(wanted, r)
  /\ UNCHANGED <<published, removed, suspended, conv, messages, offers, req>>

-----------------------------------------------------------------------------
Init ==
  /\ published = Listing
  /\ removed = {}
  /\ suspended = {}
  /\ wanted = Post
  /\ conv = [c \in Pair |-> NoRow]
  /\ messages = [c \in Pair |-> <<>>]
  /\ offers = [a \in Answer |-> "none"]
  /\ req = [h \in Handler |-> Idle]

\* A client's request reaches a handler.
Arrive(h) ==
  \/ \E u \in User, c \in Pair :
       \/ StartConversation(h, u, c) \/ SendMessage(h, u, c)
       \/ CloseConversation(h, u, c) \/ ShareAddress(h, u, c)
  \/ \E r \in Post, l \in Listing, note \in BOOLEAN : CreateOffer(h, r, l, note)
  \/ \E r \in Post, l \in Listing : WithdrawOffer(h, r, l)

\* The handler's next database call, and what follows it.
Serve(h) ==
  \/ StartLookup(h) \/ StartInsert(h)
  \/ SendInsert(h)
  \/ CloseUpdate(h)
  \/ ShareListing(h) \/ ShareUpdate(h) \/ ShareReread(h)
  \/ OfferListing(h) \/ OfferLookup(h) \/ OfferRead(h)
  \/ OfferCreate(h) \/ OfferJoin(h) \/ OfferReopen(h) \/ OfferRecheck(h)
  \/ WithdrawUpdate(h)

Surroundings ==
  \/ \E l \in Listing : SetListingStatus(l) \/ ModerateListing(l)
  \/ \E u \in User : ModerateUser(u)
  \/ \E r \in Post : SetRequestStatus(r)

Next ==
  \/ \E h \in Handler : Arrive(h) \/ Serve(h) \/ Abandon(h)
  \/ Surroundings

Spec == Init /\ [][Next]_vars

\* The Go scheduler runs every goroutine, and PostgreSQL answers every query:
\* a handler that can go on does.
FairSpec == Spec /\ \A h \in Handler : WF_vars(Serve(h))

=============================================================================
