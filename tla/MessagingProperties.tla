------------------------- MODULE MessagingProperties -------------------------
(***************************************************************************)
(* What Messaging must guarantee, and what the repository says of it that  *)
(* its interleavings do not bear out.                                      *)
(***************************************************************************)
EXTENDS Messaging

\* The shape of the tables and of the requests being served.
TypeOK ==
  /\ published \subseteq Listing
  /\ removed \subseteq Listing
  /\ suspended \subseteq User
  /\ wanted \subseteq Post
  /\ conv \in [Pair -> Row]
  /\ messages \in [Pair -> Seq(User)]
  /\ offers \in [Answer -> {"none", "live", "withdrawn"}]
  /\ req \in [Handler -> Request]

-----------------------------------------------------------------------------
(* Invariants. *)

\* However starts, offers, aborted transactions and dropped requests
\* interleave, no conversation is there without its reason: one the enquirer
\* opened begins with the enquirer's message (StartConversation commits both
\* together), one the owner opened has an offer of that listing to that student.
OpenedForAReason ==
  \A c \in Pair :
    /\ conv[c].openedBy = EnquirerOf(c) =>
         messages[c] # <<>> /\ messages[c][1] = EnquirerOf(c)
    /\ conv[c].openedBy = OwnerOf(c) =>
         \E r \in Post : Poster[r] = EnquirerOf(c) /\ offers[<<r, c[1]>>] # "none"

\* makeOffer's transaction: no offer is left without the conversation of two
\* people it is answered in, although a concurrent start may open that one.
OffersHaveConversation ==
  \A r \in Post, l \in Listing :
    offers[<<r, l>>] # "none" => <<l, Poster[r]>> \in Pair /\ Exists(<<l, Poster[r]>>)

\* Concurrent starts of one conversation, or concurrent makings of one offer,
\* are told apart by the unique constraints: one caller at most hears 201.
OneWinner ==
  \A g, h \in Handler :
    /\ req[g].pc = "ok" /\ req[h].pc = "ok"
    /\ req[g].op = req[h].op
    /\ \/ req[g].op = "start" /\ req[g].conv = req[h].conv
       \/ req[g].op = "offer" /\ OfferOf(g) = OfferOf(h)
    => g = h

\* "One retry finds the first's": an offer that lost the race to open the
\* conversation never tries to open it again.
RetryFindsConversation ==
  \A h \in Handler : req[h].pc = "offer_create" => ~req[h].retried

\* What a handler knows from its earlier reads is still so: conversations and
\* offers are never deleted, and no request acts for anybody but the side it
\* was accepted from.  The strengthening that makes the invariants above
\* inductive.
StepsOf ==
  [start    |-> {"start_lookup", "start_insert"},
   send     |-> {"send_insert"},
   close    |-> {"close_update"},
   share    |-> {"share_listing", "share_update", "share_reread"},
   offer    |-> {"offer_listing", "offer_lookup", "offer_read", "offer_create",
                 "offer_join", "offer_reopen", "offer_recheck"},
   withdraw |-> {"withdraw_update"}]

Grounded(q) ==
  LET c == q.conv IN
  /\ q.op \in Op /\ q.pc \in StepsOf[q.op] \cup {"ok", "refused", "failed"}
  /\ c \in Pair /\ q.who \in Participants(c)
  /\ q.op = "start" => q.who = EnquirerOf(c)
  /\ q.op \in {"share", "offer", "withdraw"} => q.who = OwnerOf(c)
  /\ q.op = "share" => q.who \in Verified
  /\ q.op \in {"offer", "withdraw"} => q.post \in Post /\ Poster[q.post] = EnquirerOf(c)
  /\ q.op \in {"send", "close", "share", "withdraw"} => Exists(c)
  /\ q.pc \in {"offer_join", "offer_reopen", "offer_recheck"} \/ q.retried => Exists(c)
  /\ q.op = "start" /\ q.pc = "ok" => Exists(c)
  /\ q.op = "offer" /\ q.pc = "ok" => offers[<<q.post, c[1]>>] # "none"
  /\ q.op = "withdraw" => offers[<<q.post, c[1]>>] # "none"

RequestsGrounded == \A h \in Handler : req[h] = Idle \/ Grounded(req[h])

\* Nothing comes before the opening: no closure, share or message is there
\* without the row of its conversation.
OpenedFirst == \A c \in Pair : Closed(c) \/ conv[c].shared \/ messages[c] # <<>> => Exists(c)

-----------------------------------------------------------------------------
(* Action properties. *)

\* A closure is never changed to another closer, and only the owner who made
\* it undoes it, by an offer committed in the same step.  An enquirer's
\* closure is final, whatever an offer read before it.
KeptClosed(c) ==
  Closed(c) =>
    \/ conv'[c].closedBy = conv[c].closedBy
    \/ /\ conv[c].closedBy = OwnerOf(c) /\ conv'[c].closedBy = Nobody
       /\ \E r \in Post : /\ Poster[r] = EnquirerOf(c)
                          /\ offers[<<r, c[1]>>] = "none"
                          /\ offers'[<<r, c[1]>>] = "live"

ClosureStands == [][\A c \in Pair : KeptClosed(c)]_vars

\* The address is shared only by a share request of the verified owner, and
\* only at a moment when the conversation is open, the listing is public and
\* has an address, and neither side is suspended - not merely when the handler
\* looked.  Once shared it stays shared, through closing and reopening too.
SharedOnPurpose(c) ==
  /\ conv[c].shared => conv'[c].shared
  /\ ~conv[c].shared /\ conv'[c].shared =>
       /\ \E h \in Handler : /\ req[h].op = "share" /\ req[h].conv = c /\ Serving(h)
                             /\ req[h].who = OwnerOf(c) /\ req[h].who \in Verified
       /\ Exists(c) /\ ~Closed(c)
       /\ c[1] \in (published \cap Addressed) \ removed
       /\ Participants(c) \cap suspended = {}

ShareIsDeliberate == [][\A c \in Pair : SharedOnPurpose(c)]_vars

\* Requests that passed their checks while c was open and have yet to write.
Late(c) == {h \in Handler : req[h].pc \in {"send_insert", "offer_join"} /\ req[h].conv = c}

\* Closing does settle: while a conversation is closed no request passes its
\* check any more, and once those that had passed it before are gone, what the
\* enquirer closed gets no message and no offer, by any request or any retry.
Settling(c) ==
  /\ Closed(c) => Late(c)' \subseteq Late(c)
  /\ conv[c].closedBy = EnquirerOf(c) /\ Late(c) = {} =>
       /\ messages'[c] = messages[c]
       /\ \A r \in Post : Poster[r] = EnquirerOf(c) /\ offers[<<r, c[1]>>] = "none"
                           => offers'[<<r, c[1]>>] = "none"

CloseSettles == [][\A c \in Pair : Settling(c)]_vars

-----------------------------------------------------------------------------
(* Liveness. *)

\* Every request is answered: neither the retry of an offer nor a lost race
\* keeps a handler going for ever.
Answered == \A h \in Handler : Serving(h) ~> ~Serving(h)

-----------------------------------------------------------------------------
(* What the repository says and an interleaving refutes. *)

\* "closed by the poster: refused, nothing written" (makeOffer): no offer is
\* committed into a conversation its poster has closed.
OfferRespectsRefusal ==
  [][\A r \in Post, l \in Listing :
       offers[<<r, l>>] = "none" /\ offers'[<<r, l>>] = "live"
         => conv'[<<l, Poster[r]>>].closedBy # Poster[r]]_vars

\* "The same offer made twice at once: the answer is the 409 above"
\* (CreateOffer): a unique violation never ends as a 500.
SameOfferIsConflict ==
  \A h \in Handler : req[h].op = "offer" /\ req[h].retried => req[h].pc # "failed"

=============================================================================
