-------------------------------- MODULE Posts --------------------------------
(***************************************************************************)
(* Listings and housing requests as their owners and the moderators write  *)
(* them: listings_write.go, listings_validate.go, requests_write.go and    *)
(* internal/db/posts.go, over the tables listings, housing_requests and    *)
(* admin_actions.                                                          *)
(*                                                                         *)
(* An owner's change is a read, a decision on what was read, and an UPDATE *)
(* by id alone, each a statement of its own.  A takedown reads, updates    *)
(* conditionally and inserts its ledger row in one transaction; the update *)
(* holds the row until the commit and a reader sees the row before it, so  *)
(* update, insert and commit are one step here, and its BEGIN another.     *)
(*                                                                         *)
(* Only its owner gets past ownedListing and ownedRequest, and only an     *)
(* admin reaches a takedown: neither is named here.                        *)
(***************************************************************************)
EXTENDS Naturals, Sequences, FiniteSets

CONSTANTS
  Post,        \* ids of listings and housing requests
  Handler,     \* requests at work at one time
  Null,        \* a column without a value, and JSON's null
  NoReason,    \* the removed_reason of a post that is up
  Reason,      \* what moderators say
  Sheet,       \* what the body of a create describes
  Patch,       \* what the body of an edit changes: some fields only
  MaxLives,    \* bound: times a post goes live
  MaxChanges   \* bound: takedowns and restorations of a post, in the ledger or under way

-----------------------------------------------------------------------------
(* The columns that some check relates to another; plain stands for those  *)
(* checked alone (title, rent, deposit, address, occupants, ...) and says  *)
(* whether they pass.  A listing's room is bedroom_of, its stay            *)
(* min_stay_months; a request's radius is max_distance_m.                  *)

ListingField == {"start", "end", "lease", "beds", "room", "studio", "shorter", "stay", "plain"}
RequestField == {"start", "end", "lease", "radius", "plain"}
Field == ListingField \cup RequestField

Column ==
  [f \in Field |-> CASE f \in {"studio", "shorter", "plain"} -> BOOLEAN
                     [] f \in {"room", "stay", "radius"}     -> Nat \cup {Null}
                     [] OTHER                                -> Nat]

IsTerms(t, fields) == DOMAIN t = fields /\ \A f \in fields : t[f] \in Column[f]
IsPatch(e) == DOMAIN e \subseteq Field /\ \A f \in DOMAIN e : e[f] \in Column[f]

ASSUME PostsAssumption ==
  /\ Null \notin Nat \cup BOOLEAN /\ NoReason \notin Reason
  /\ \A t \in Sheet : IsTerms(t, ListingField) \/ IsTerms(t, RequestField)
  /\ \A e \in Patch : IsPatch(e)
  /\ MaxLives \in Nat /\ MaxChanges \in Nat

VARIABLES
  post,    \* the rows of listings and housing_requests
  ledger,  \* admin_actions about each post, in the order they were committed
  lives,   \* history: how often each post has gone live
  req      \* what each handler at work still knows

db == <<post, ledger, lives>>
vars == <<post, ledger, lives, req>>

Status == {"draft", "published", "paused", "archived"}

\* published_at: the going-live it was stamped at, 0 for none.
NoPost == [kind |-> "none", status |-> "draft", published |-> 0, removed |-> NoReason,
           terms |-> <<>>]

\* A ledger row (a restoration without a reason has the default one); what else
\* its detail shows is left out.  at: created_at, the start of the transaction
\* that wrote the row, by which the ledger is read, newest first.
Entry == [to : {"removed", "visible"}, reason : Reason, at : Nat]

Removed(p) == post[p].removed # NoReason

-----------------------------------------------------------------------------
(* Validation, in Go and in the database. *)

MaxLease == 24

ValidListing(t) ==
  /\ t["plain"] /\ t["end"] > t["start"] /\ t["lease"] \in 1..MaxLease
  /\ t["room"] # Null => t["room"] \in 1..t["beds"] /\ ~t["studio"]
  /\ t["shorter"] <=> t["stay"] # Null
  /\ t["stay"] # Null => t["stay"] \in 1..t["lease"]

ValidRequest(t) ==
  /\ t["plain"] /\ t["end"] > t["start"] /\ t["lease"] \in 1..MaxLease
  /\ t["radius"] # Null => t["radius"] > 0

\* Mutant: no constraint listings_min_stay_within_lease.
ChecksListing_unbounded(t) ==
  /\ t["end"] > t["start"] /\ t["lease"] > 0
  /\ t["room"] # Null => t["room"] \in 1..t["beds"]
  /\ t["shorter"] <=> t["stay"] # Null

\* The table's CHECK constraints.
ChecksListing(t) ==
  /\ t["end"] > t["start"] /\ t["lease"] > 0
  /\ t["room"] # Null => t["room"] \in 1..t["beds"]
  /\ t["shorter"] <=> t["stay"] # Null
  /\ t["stay"] # Null => t["stay"] \in 1..t["lease"]

ChecksRequest(t) ==
  /\ t["end"] > t["start"] /\ t["lease"] \in 1..MaxLease
  /\ t["radius"] # Null => t["radius"] > 0

\* Turning shorter stays off without a word about the minimum clears it.
MinStayChange(e) ==
  IF "shorter" \in DOMAIN e /\ ~e["shorter"] /\ "stay" \notin DOMAIN e
  THEN [f \in DOMAIN e \cup {"stay"} |-> IF f = "stay" THEN Null ELSE e[f]]
  ELSE e

With(t, e) == [f \in DOMAIN t |-> IF f \in DOMAIN e THEN e[f] ELSE t[f]]

\* The row as validation expects it to become,
ApplyUpdate(t, e) == With(t, MinStayChange(e))
ApplyRequestUpdate(t, e) == With(t, e)

NonNull(e, kept) ==
  LET said == {f \in DOMAIN e : f \in kept \/ e[f] # Null} IN [f \in said |-> e[f]]

\* Mutant: no flag, the minimum stay is COALESCEd like the rest.
UpdateParams_coalesced(e) == NonNull(MinStayChange(e), {})

\* and the statement's parameters: a null is a parameter not given, except for
\* the minimum stay, which has a flag that says it is being set.
UpdateParams(e) == NonNull(MinStayChange(e), {"stay"})
RequestUpdateParams(e) == NonNull(e, {})

\* COALESCE(parameter, column).
UpdateListing(t, params) == With(t, params)
UpdateRequest(t, params) == With(t, params)

-----------------------------------------------------------------------------
(* Requests being served: change is the patch, the status or the reason    *)
(* that will be written, read the columns an edit was validated against,   *)
(* began the now() of a takedown's transaction.                            *)

Op == {"edit", "status", "remove", "restore"}
Idle == [op |-> "none", post |-> Null, change |-> Null, read |-> <<>>, began |-> 0]

Serving(h) == req[h].op # "none"
Accept(h, op, p, change, read, began) ==
  /\ ~Serving(h)
  /\ req' = [req EXCEPT ![h] = [op |-> op, post |-> p, change |-> change, read |-> read,
                                began |-> began]]
Finish(h) == req' = [req EXCEPT ![h] = Idle]

Working(p, ops) == {h \in Handler : req[h].op \in ops /\ req[h].post = p}

\* Mutant: the owner's handlers do not look at removed_at.
OwnedListing_anyway(p) == post[p].kind = "listing"

\* The owner's listing or request, which no takedown hides.
OwnedListing(p) == post[p].kind = "listing" /\ ~Removed(p)
OwnedRequest(p) == post[p].kind = "request" /\ ~Removed(p)

Live(status) == IF status = "published" THEN 1 ELSE 0
Room(p) == lives[p] + Cardinality(Working(p, {"status"})) < MaxLives

-----------------------------------------------------------------------------
(* The owner's operations.  A refusal writes nothing and is no step.       *)

\* CreateListing and CreateRequest are one insert; any of the four statuses
\* may be asked for.  Only a request created as published is stamped.
Create(p, kind, t, status, published) ==
  /\ post[p].kind = "none" /\ Live(status) <= MaxLives
  /\ post' = [post EXCEPT ![p] = [kind |-> kind, status |-> status, published |-> published,
                                  removed |-> NoReason, terms |-> t]]
  /\ lives' = [lives EXCEPT ![p] = Live(status)]
  /\ UNCHANGED <<ledger, req>>

CreateListing(p, t, status) ==
  /\ DOMAIN t = ListingField /\ ValidListing(t)
  /\ Create(p, "listing", t, status, 0)

CreateRequest(p, t, status) ==
  /\ DOMAIN t = RequestField /\ ValidRequest(t)
  /\ Create(p, "request", t, status, Live(status))

\* An edit is accepted when the row as read would be valid after it.
EditListing(h, p, e) ==
  /\ OwnedListing(p) /\ DOMAIN e \subseteq ListingField
  /\ ValidListing(ApplyUpdate(post[p].terms, e))
  /\ Accept(h, "edit", p, e, post[p].terms, 0)
  /\ UNCHANGED db

EditRequest(h, p, e) ==
  /\ OwnedRequest(p) /\ DOMAIN e \subseteq RequestField
  /\ ValidRequest(ApplyRequestUpdate(post[p].terms, e))
  /\ Accept(h, "edit", p, e, post[p].terms, 0)
  /\ UNCHANGED db

\* The UPDATE: a row that a CHECK refuses stays as it was, and the answer is 500.
Edit(h, kind, t, ok) ==
  LET p == req[h].post IN
  /\ req[h].op = "edit" /\ post[p].kind = kind
  /\ post' = IF ok THEN [post EXCEPT ![p].terms = t] ELSE post
  /\ Finish(h)
  /\ UNCHANGED <<ledger, lives>>

EditListingUpdate(h) ==
  LET t == UpdateListing(post[req[h].post].terms, UpdateParams(req[h].change))
  IN Edit(h, "listing", t, ChecksListing(t))

EditRequestUpdate(h) ==
  LET t == UpdateRequest(post[req[h].post].terms, RequestUpdateParams(req[h].change))
  IN Edit(h, "request", t, ChecksRequest(t))

\* Mutant: an archived post may be published again.
allowedTransitions_reviving ==
  [s \in Status |-> CASE s = "draft" -> {"published", "archived"}
                      [] s = "published" -> {"paused", "archived"}
                      [] OTHER -> {"published", "archived"}]

\* The lifecycle: archived is terminal.
allowedTransitions ==
  [s \in Status |-> CASE s = "draft"     -> {"published", "archived"}
                      [] s = "published" -> {"paused", "archived"}
                      [] s = "paused"    -> {"published", "archived"}
                      [] s = "archived"  -> {}]

\* A status change is accepted on the status read; asking for that same status
\* writes nothing.
ChooseStatus(h, p, want) ==
  /\ want \in allowedTransitions[post[p].status]
  /\ want = "published" => Room(p)
  /\ Accept(h, "status", p, want, <<>>, 0)
  /\ UNCHANGED db

SetListingStatus(h, p, want) == OwnedListing(p) /\ ChooseStatus(h, p, want)
SetRequestStatus(h, p, want) == OwnedRequest(p) /\ ChooseStatus(h, p, want)

\* Deleting archives what is not archived.
Archive(h, p) ==
  /\ post[p].status # "archived"
  /\ Accept(h, "status", p, "archived", <<>>, 0)
  /\ UNCHANGED db

DeleteListing(h, p) == OwnedListing(p) /\ Archive(h, p)
DeleteRequest(h, p) == OwnedRequest(p) /\ Archive(h, p)

\* published_at is set when it is NULL and the status becomes published.
Stamped(row, status, life) ==
  IF status = "published" /\ row.published = 0 THEN life ELSE row.published

\* The UPDATE, by id alone.
WriteStatus(h, kind) ==
  LET p == req[h].post
      row == post[p]
      life == lives[p] + IF row.status = "published" THEN 0 ELSE Live(req[h].change)
  IN
  /\ req[h].op = "status" /\ row.kind = kind
  /\ lives' = [lives EXCEPT ![p] = life]
  /\ post' = [post EXCEPT ![p].status = req[h].change,
                          ![p].published = Stamped(row, req[h].change, life)]
  /\ Finish(h)
  /\ UNCHANGED ledger

ListingStatusUpdate(h) == WriteStatus(h, "listing")
RequestStatusUpdate(h) == WriteStatus(h, "request")

-----------------------------------------------------------------------------
(* Takedowns. *)

\* The clock of now().  Only the order of the changes of a post matters, so it
\* moves on from the latest that is in the ledger or still under way.
Stamps(p) == {ledger[p][i].at : i \in 1..Len(ledger[p])}
               \cup {req[h].began : h \in Working(p, {"remove", "restore"})}
Now(p, n) == (\A m \in Stamps(p) : m < n) /\ (n = 1 \/ n - 1 \in Stamps(p))

\* postAction: RemovePost and RestorePost begin a transaction, which fixes its
\* now(), and read the post, whatever its state; a missing one is a 404.
Moderate(h, p, kind, op, reason) ==
  /\ post[p].kind = kind
  /\ \E n \in 1..MaxChanges : Accept(h, op, p, reason, <<>>, n) /\ Now(p, n)
  /\ UNCHANGED db

RemoveAdminListing(h, p, reason) == Moderate(h, p, "listing", "remove", reason)
RestoreAdminListing(h, p, reason) == Moderate(h, p, "listing", "restore", reason)
RemoveAdminRequest(h, p, reason) == Moderate(h, p, "request", "remove", reason)
RestoreAdminRequest(h, p, reason) == Moderate(h, p, "request", "restore", reason)

\* Mutant: the takedown overwrites the one that stands.
Remove_again(row, reason) == {[row EXCEPT !.removed = reason]}

\* Mutant: restoring leaves the reason column without its value for "up".
Restore_blank(row) == IF row.removed # NoReason THEN {[row EXCEPT !.removed = Null]} ELSE {}

\* The conditional updates: the rows they return.
Remove(row, reason) == IF row.removed = NoReason THEN {[row EXCEPT !.removed = reason]} ELSE {}
Restore(row) == IF row.removed # NoReason THEN {[row EXCEPT !.removed = NoReason]} ELSE {}

\* Audited: the update, its ledger row and the commit.  When the update matches
\* no row, ErrAlreadyRemoved or ErrNotRemoved rolls back.
Takedown(h, op, to, rows) ==
  LET p == req[h].post IN
  /\ req[h].op = op
  /\ \/ rows = {} /\ UNCHANGED <<post, ledger>>
     \/ /\ \E row \in rows : post' = [post EXCEPT ![p] = row]
        /\ ledger' = [ledger EXCEPT ![p] =
                        Append(@, [to |-> to, reason |-> req[h].change, at |-> req[h].began])]
  /\ Finish(h)
  /\ UNCHANGED lives

RemovePost(h) == Takedown(h, "remove", "removed", Remove(post[req[h].post], req[h].change))
RestorePost(h) == Takedown(h, "restore", "visible", Restore(post[req[h].post]))

-----------------------------------------------------------------------------

\* The client leaves, the process dies or a query fails before the last write.
Abandon(h) == Serving(h) /\ Finish(h) /\ UNCHANGED db

Init ==
  /\ post = [p \in Post |-> NoPost]
  /\ ledger = [p \in Post |-> <<>>]
  /\ lives = [p \in Post |-> 0]
  /\ req = [h \in Handler |-> Idle]

Arrive(h) ==
  \E p \in Post :
    \/ \E e \in Patch : EditListing(h, p, e) \/ EditRequest(h, p, e)
    \/ \E want \in Status : SetListingStatus(h, p, want) \/ SetRequestStatus(h, p, want)
    \/ DeleteListing(h, p) \/ DeleteRequest(h, p)
    \/ \E reason \in Reason :
         \/ RemoveAdminListing(h, p, reason) \/ RestoreAdminListing(h, p, reason)
         \/ RemoveAdminRequest(h, p, reason) \/ RestoreAdminRequest(h, p, reason)

Serve(h) ==
  \/ EditListingUpdate(h) \/ EditRequestUpdate(h)
  \/ ListingStatusUpdate(h) \/ RequestStatusUpdate(h)
  \/ RemovePost(h) \/ RestorePost(h)

Next ==
  \/ \E p \in Post, t \in Sheet, status \in Status :
       CreateListing(p, t, status) \/ CreateRequest(p, t, status)
  \/ \E h \in Handler : Arrive(h) \/ Serve(h) \/ Abandon(h)

Spec == Init /\ [][Next]_vars

=============================================================================
