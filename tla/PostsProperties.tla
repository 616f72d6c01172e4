---------------------------- MODULE PostsProperties ----------------------------
(***************************************************************************)
(* What Posts must guarantee when owners and moderators write at once, and *)
(* what the repository says of it that its interleavings do not bear out.  *)
(***************************************************************************)
EXTENDS Posts

\* What a request may be about to write.
Change(op) ==
  CASE op = "edit"   -> Patch
    [] op = "status" -> Status
    [] OTHER         -> Reason

\* The shape of the tables and of the requests being served: a row has the
\* columns of its kind, each with a value of its type.
RowOK(row) ==
  \/ row = NoPost
  \/ /\ DOMAIN row = DOMAIN NoPost
     /\ \/ row.kind = "listing" /\ IsTerms(row.terms, ListingField)
        \/ row.kind = "request" /\ IsTerms(row.terms, RequestField)
     /\ row.status \in Status /\ row.published \in Nat /\ row.removed \in Reason \cup {NoReason}

RequestOK(q) ==
  \/ q = Idle
  \/ /\ DOMAIN q = DOMAIN Idle
     /\ q.op \in Op /\ q.post \in Post /\ q.change \in Change(q.op) /\ q.began \in Nat

TypeOK ==
  /\ DOMAIN post = Post /\ \A p \in Post : RowOK(post[p])
  /\ ledger \in [Post -> Seq(Entry)]
  /\ lives \in [Post -> Nat]
  /\ DOMAIN req = Handler /\ \A h \in Handler : RequestOK(req[h])

-----------------------------------------------------------------------------
(* Invariants. *)

\* "One already down returns ErrAlreadyRemoved and writes nothing, so the first
\* takedown's time and reason stand" (posts.go).  Whatever takedowns and
\* restorations race, every takedown but the one that stands has its restoration
\* in the ledger, and the one that stands is there with its reason.  The row that
\* the ledger shows first (newest created_at) says whether the post is down and
\* why, unless the change it tells of was overtaken: one that had begun before it
\* was committed after it.
Shown(row) == IF row.to = "removed" THEN row.reason ELSE NoReason
ShownFirst(rows) == {i \in 1..Len(rows) : \A j \in 1..Len(rows) : rows[j].at <= rows[i].at}
Overtaken(rows, i) == \E j \in 1..Len(rows) : i < j /\ rows[j].at <= rows[i].at
Count(rows, to) == Cardinality({i \in 1..Len(rows) : rows[i].to = to})

LedgerAgrees ==
  \A p \in Post :
    LET rows == ledger[p] IN
    /\ Count(rows, "removed") = Count(rows, "visible") + IF Removed(p) THEN 1 ELSE 0
    /\ Removed(p) => \E i \in 1..Len(rows) : Shown(rows[i]) = post[p].removed
    /\ \A i \in ShownFirst(rows) : Shown(rows[i]) = post[p].removed \/ Overtaken(rows, i)

\* Two edits, each validated against the row as it was read, may leave a row
\* that neither was shown; the table's constraints then refuse the second.  No
\* interleaving leaves a row that validation would not accept, but for a room
\* number on what has become a studio, which no constraint forbids; and a request
\* is "stamped the first time" it goes live, "including on creation"
\* (000006_housing_requests), whatever publications and pauses race.
NoStudioRoom(t) == IF t["studio"] THEN [t EXCEPT !["room"] = Null] ELSE t
RowsHold ==
  \A p \in Post :
    /\ post[p].kind = "listing" => ValidListing(NoStudioRoom(post[p].terms))
    /\ post[p].kind = "request" => /\ ValidRequest(post[p].terms)
                                   /\ post[p].published = (IF lives[p] = 0 THEN 0 ELSE 1)

-----------------------------------------------------------------------------
(* Action properties. *)

\* "Without it, republishing would silently override the moderator"
\* (removedRefusal).  A takedown settles: while it stands no owner's request
\* gets past its check, and once those that had are gone the owner's side of the
\* row keeps still.
TakedownSettles ==
  [][\A p \in Post : Removed(p) =>
       LET owners == Working(p, {"edit", "status"}) IN
       /\ owners' \subseteq owners
       /\ owners = {} => /\ post'[p].status = post[p].status
                         /\ post'[p].terms = post[p].terms]_vars

\* "archived has no entry: it is terminal" (allowedTransitions).  It is, once
\* the status changes are gone that were chosen before the archiving.
ArchiveSettles ==
  [][\A p \in Post : post[p].status = "archived" =>
       LET changing == Working(p, {"status"}) IN
       /\ changing' \subseteq changing
       /\ changing = {} => post'[p].status = "archived"]_vars

\* Of what an edit names, the nulls that COALESCE ignores are not applied, though
\* the answer is a 200: only a minimum stay can be cleared.  Everything else it
\* names lands together or, where a CHECK refuses the row, not at all, and the
\* other columns keep what others wrote.  An edit that came first, or an ignored
\* null, apart, "validation sees what the row will actually become" (applyUpdate),
\* and no CHECK refuses it.
IgnoredNull(e) == \E f \in DOMAIN e \ {"stay"} : e[f] = Null
Applied(t, e) ==
  LET said == {f \in DOMAIN MinStayChange(e) : f = "stay" \/ MinStayChange(e)[f] # Null}
  IN  [f \in DOMAIN t |-> IF f \in said THEN MinStayChange(e)[f] ELSE t[f]]
Promised(row, e) ==
  IF row.kind = "listing" THEN ApplyUpdate(row.terms, e) ELSE ApplyRequestUpdate(row.terms, e)

EditsLand ==
  [][\A h \in Handler : EditListingUpdate(h) \/ EditRequestUpdate(h) =>
       LET p == req[h].post
           e == req[h].change
           before == post[p].terms
           after == post'[p].terms IN
       /\ after \in {before, Applied(before, e)}
       /\ before = req[h].read /\ ~IgnoredNull(e) => after = Promised(post[p], e)]_vars

-----------------------------------------------------------------------------
(* What the repository says and the code does not keep. *)

\* "This listing is archived, and that is final."
ArchivedIsFinal == [][\A p \in Post : post[p].status = "archived" => post'[p].status = "archived"]_vars

\* "The database has check constraints for all of this, and they are the real
\* guarantee" (listings_validate.go).
RowsValid == \A p \in Post : post[p].kind = "listing" => ValidListing(post[p].terms)

\* "applyUpdate mirrors the SQL's COALESCE, so validation sees what the row will
\* actually become" (listings_validate.go): without any other edit in between.
ValidationSees ==
  [][\A h \in Handler : LET row == post[req[h].post] IN
       EditListingUpdate(h) /\ row.terms = req[h].read =>
         post'[req[h].post].terms = Promised(row, req[h].change)]_vars

===============================================================================
