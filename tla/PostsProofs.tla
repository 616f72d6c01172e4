------------------------------ MODULE PostsProofs ------------------------------
(***************************************************************************)
(* Proofs, for any posts, handlers, sheets and patches, of properties of   *)
(* Posts.                                                                  *)
(***************************************************************************)
EXTENDS PostsProperties, FiniteSetTheorems, TLAPS

-----------------------------------------------------------------------------
(* Lemmas on requests. *)

LEMMA AcceptOK ==
  ASSUME TypeOK, NEW h \in Handler, NEW op \in Op, NEW p \in Post, NEW change \in Change(op),
         NEW read, NEW began \in Nat, Accept(h, op, p, change, read, began)
  PROVE  DOMAIN req' = Handler /\ \A g \in Handler : RequestOK(req'[g])
<1> DEFINE q == [op |-> op, post |-> p, change |-> change, read |-> read, began |-> began]
<1>1. RequestOK(q)
  BY DEF RequestOK, Idle
<1>2. req' = [req EXCEPT ![h] = q]
  BY DEF Accept
<1> QED BY <1>1, <1>2 DEF TypeOK

LEMMA FinishOK ==
  ASSUME TypeOK, NEW h \in Handler, Finish(h)
  PROVE  DOMAIN req' = Handler /\ \A g \in Handler : RequestOK(req'[g])
<1>1. RequestOK(Idle)
  BY DEF RequestOK
<1> QED BY <1>1 DEF Finish, TypeOK

-----------------------------------------------------------------------------
(* Lemmas on columns. *)

\* An update leaves a row the columns of its kind, with values of their types.
LEMMA WithTerms ==
  ASSUME NEW t, NEW e, NEW fields \in SUBSET Field, IsTerms(t, fields), IsPatch(e)
  PROVE  IsTerms(With(t, e), fields)
BY DEF IsTerms, IsPatch, With

LEMMA NonNullPatch ==
  ASSUME NEW e, IsPatch(e), NEW kept
  PROVE  IsPatch(NonNull(e, kept))
BY DEF IsPatch, NonNull

LEMMA MinStayPatch ==
  ASSUME NEW e, IsPatch(e)
  PROVE  IsPatch(MinStayChange(e))
<1>1. "stay" \in Field /\ Null \in Column["stay"]
  BY DEF Field, ListingField, Column
<1> QED BY <1>1 DEF IsPatch, MinStayChange

LEMMA ParamsPatch ==
  ASSUME NEW e \in Patch
  PROVE  IsPatch(UpdateParams(e)) /\ IsPatch(RequestUpdateParams(e))
<1>1. IsPatch(e)
  BY PostsAssumption
<1> QED BY <1>1, NonNullPatch, MinStayPatch DEF UpdateParams, RequestUpdateParams

-----------------------------------------------------------------------------
(* Lemmas on rows. *)

\* The columns that Create, Edit, WriteStatus and Takedown write.
LEMMA CreatedRow ==
  ASSUME NEW kind \in {"listing", "request"}, NEW status \in Status, NEW published \in Nat,
         NEW t, IsTerms(t, IF kind = "listing" THEN ListingField ELSE RequestField)
  PROVE  RowOK([kind |-> kind, status |-> status, published |-> published,
                removed |-> NoReason, terms |-> t])
BY DEF RowOK, NoPost

LEMMA EditedRow ==
  ASSUME NEW row, RowOK(row), row # NoPost, NEW e, IsPatch(e)
  PROVE  RowOK([row EXCEPT !.terms = With(row.terms, e)])
<1>1. row.kind = "listing" => IsTerms(With(row.terms, e), ListingField)
  BY WithTerms DEF RowOK, Field, NoPost
<1>2. row.kind = "request" => IsTerms(With(row.terms, e), RequestField)
  BY WithTerms DEF RowOK, Field, NoPost
<1> QED BY <1>1, <1>2 DEF RowOK, NoPost

LEMMA StatusRow ==
  ASSUME NEW row, RowOK(row), row # NoPost, NEW status \in Status, NEW published \in Nat
  PROVE  RowOK([row EXCEPT !.status = status, !.published = published])
BY DEF RowOK, NoPost

LEMMA RemovedRow ==
  ASSUME NEW row, RowOK(row), row # NoPost, NEW removed \in Reason \cup {NoReason}
  PROVE  RowOK([row EXCEPT !.removed = removed])
BY DEF RowOK, NoPost

-----------------------------------------------------------------------------
(* What a request's beginning and its end amount to. *)

\* A request being served is about a post that is there.
Grounded == \A h \in Handler : Serving(h) => post[req[h].post] # NoPost

\* In the order of the commits the ledger's last row is the one that tells: what
\* it shows is what the post's row says, and every takedown but a standing one
\* has its restoration.
Agrees(rows, removed) ==
  /\ removed = IF rows = <<>> THEN NoReason ELSE Shown(rows[Len(rows)])
  /\ Count(rows, "removed") = Count(rows, "visible") + IF removed # NoReason THEN 1 ELSE 0

LedgerInv == \A p \in Post : Agrees(ledger[p], post[p].removed)

PostsInv == TypeOK /\ Grounded /\ LedgerInv

\* A request begins about a post that is there: an owner's about one that is
\* not taken down, and a change of status about one that is not archived.
LEMMA Begins ==
  ASSUME TypeOK, NEW h \in Handler, Arrive(h)
  PROVE  /\ UNCHANGED db
         /\ \E op \in Op, p \in Post : \E change \in Change(op), began \in Nat : \E read :
              /\ Accept(h, op, p, change, read, began) /\ post[p] # NoPost
              /\ op \in {"edit", "status"} => ~Removed(p)
              /\ op = "status" => post[p].status # "archived"
<1> DEFINE Begun == \E op \in Op, p \in Post : \E change \in Change(op), began \in Nat : \E read :
                      /\ Accept(h, op, p, change, read, began) /\ post[p] # NoPost
                      /\ op \in {"edit", "status"} => ~Removed(p)
                      /\ op = "status" => post[p].status # "archived"
<1>1. PICK p \in Post :
        \/ \E e \in Patch : EditListing(h, p, e) \/ EditRequest(h, p, e)
        \/ \E want \in Status : SetListingStatus(h, p, want) \/ SetRequestStatus(h, p, want)
        \/ DeleteListing(h, p) \/ DeleteRequest(h, p)
        \/ \E reason \in Reason :
             \/ RemoveAdminListing(h, p, reason) \/ RestoreAdminListing(h, p, reason)
             \/ RemoveAdminRequest(h, p, reason) \/ RestoreAdminRequest(h, p, reason)
  BY DEF Arrive
<1>2. post[p].kind \in {"listing", "request"} => post[p] # NoPost
  BY DEF NoPost
<1>3. CASE \E e \in Patch : EditListing(h, p, e) \/ EditRequest(h, p, e)
  <2>1. PICK e \in Patch : EditListing(h, p, e) \/ EditRequest(h, p, e)
    BY <1>3
  <2>2. post[p].kind \in {"listing", "request"} /\ ~Removed(p)
    BY <2>1 DEF EditListing, EditRequest, OwnedListing, OwnedRequest
  <2>3. Accept(h, "edit", p, e, post[p].terms, 0) /\ UNCHANGED db
    BY <2>1 DEF EditListing, EditRequest
  <2>4. "edit" \in Op /\ e \in Change("edit")
    BY DEF Op, Change
  <2> QED BY <1>2, <2>2, <2>3, <2>4
<1>4. CASE \/ \E want \in Status : SetListingStatus(h, p, want) \/ SetRequestStatus(h, p, want)
           \/ DeleteListing(h, p) \/ DeleteRequest(h, p)
  <2>1. PICK want \in Status :
          /\ Accept(h, "status", p, want, <<>>, 0) /\ UNCHANGED db
          /\ \/ want \in allowedTransitions[post[p].status]
             \/ post[p].status # "archived"
    BY <1>4 DEF SetListingStatus, SetRequestStatus, ChooseStatus, DeleteListing, DeleteRequest,
                Archive, Status
  <2>2. post[p].kind \in {"listing", "request"} /\ ~Removed(p)
    BY <1>4 DEF SetListingStatus, SetRequestStatus, DeleteListing, DeleteRequest,
                OwnedListing, OwnedRequest
  <2>3. post[p].status # "archived"
    <3>1. allowedTransitions["archived"] = {}
      BY DEF allowedTransitions, Status
    <3> QED BY <2>1, <3>1
  <2>4. "status" \in Op /\ want \in Change("status")
    BY DEF Op, Change
  <2> QED BY <1>2, <2>1, <2>2, <2>3, <2>4
<1>5. CASE \E reason \in Reason :
             \/ RemoveAdminListing(h, p, reason) \/ RestoreAdminListing(h, p, reason)
             \/ RemoveAdminRequest(h, p, reason) \/ RestoreAdminRequest(h, p, reason)
  <2>1. PICK reason \in Reason :
             \/ RemoveAdminListing(h, p, reason) \/ RestoreAdminListing(h, p, reason)
             \/ RemoveAdminRequest(h, p, reason) \/ RestoreAdminRequest(h, p, reason)
    BY <1>5
  <2>2. PICK op \in {"remove", "restore"}, n \in 1..MaxChanges :
          Accept(h, op, p, reason, <<>>, n) /\ UNCHANGED db
    BY <2>1 DEF RemoveAdminListing, RestoreAdminListing, RemoveAdminRequest,
                RestoreAdminRequest, Moderate
  <2>3. post[p].kind \in {"listing", "request"}
    BY <2>1 DEF RemoveAdminListing, RestoreAdminListing, RemoveAdminRequest,
                RestoreAdminRequest, Moderate
  <2>4. /\ op \in Op /\ op \notin {"edit", "status"} /\ reason \in Change(op)
        /\ n \in Nat
    BY <2>2, PostsAssumption DEF Op, Change
  <2> QED BY <1>2, <2>2, <2>3, <2>4
<1> QED BY <1>1, <1>3, <1>4, <1>5

\* What is the same about a post after an edit, a change of status, a takedown.
OthersKept(p) == \A x \in Post \ {p} : post'[x] = post[x] /\ ledger'[x] = ledger[x]
ModerationKept(p) == post'[p].removed = post[p].removed /\ ledger'[p] = ledger[p]
OwnersSideKept(p) == post'[p].status = post[p].status /\ post'[p].terms = post[p].terms

\* The takedown's row, with the change it tells of.
Told(p, from, removed, entry) ==
  /\ post[p].removed \in from /\ post'[p].removed = removed
  /\ ledger'[p] = Append(ledger[p], entry)
Row(h, to) == [to |-> to, reason |-> req[h].change, at |-> req[h].began]

Written(h) ==
  LET p == req[h].post IN
  /\ Finish(h) /\ OthersKept(p)
  /\ DOMAIN post' = Post /\ RowOK(post'[p]) /\ post'[p] # NoPost
  /\ ledger' \in [Post -> Seq(Entry)] /\ lives' \in [Post -> Nat]
  /\ req[h].op \in {"edit", "status"} => ModerationKept(p)
  /\ req[h].op # "edit" => post'[p].terms = post[p].terms
  /\ req[h].op # "status" => post'[p].status = post[p].status
  /\ req[h].op \in {"remove", "restore"} =>
       \/ ModerationKept(p)
       \/ Told(p, {NoReason}, req[h].change, Row(h, "removed"))
       \/ Told(p, Reason, NoReason, Row(h, "visible"))

LEMMA EditWritten ==
  ASSUME TypeOK, Grounded, NEW h \in Handler, EditListingUpdate(h) \/ EditRequestUpdate(h)
  PROVE  Written(h)
<1> DEFINE p == req[h].post
           row == post[p]
<1>1. req[h].op = "edit" /\ Finish(h) /\ UNCHANGED <<ledger, lives>>
  BY DEF EditListingUpdate, EditRequestUpdate, Edit
<1>2. p \in Post /\ req[h].change \in Patch /\ RowOK(row) /\ row # NoPost
  <2>1. Serving(h) /\ req[h] # Idle
    BY <1>1 DEF Serving, Idle
  <2> QED BY <1>1, <2>1 DEF TypeOK, Grounded, RequestOK, Change
<1>3. PICK e : /\ IsPatch(e)
               /\ \/ post' = post
                  \/ post' = [post EXCEPT ![p].terms = With(row.terms, e)]
  BY <1>2, ParamsPatch DEF EditListingUpdate, EditRequestUpdate, Edit, UpdateListing, UpdateRequest
<1>4. RowOK([row EXCEPT !.terms = With(row.terms, e)])
  BY <1>2, <1>3, EditedRow
<1>5. CASE post' = post
  BY <1>1, <1>2, <1>5 DEF Written, OthersKept, ModerationKept, TypeOK
<1>6. CASE post' = [post EXCEPT ![p].terms = With(row.terms, e)]
  <2>1. post'[p] = [row EXCEPT !.terms = With(row.terms, e)]
    BY <1>2, <1>6 DEF TypeOK
  <2>2. post'[p].kind = row.kind /\ post'[p].status = row.status /\ post'[p].removed = row.removed
    BY <1>2, <2>1 DEF RowOK, NoPost
  <2>3. row.kind # "none"
    BY <1>2 DEF RowOK
  <2>4. post'[p] # NoPost
    BY <2>2, <2>3 DEF NoPost
  <2>5. DOMAIN post' = Post /\ \A x \in Post \ {p} : post'[x] = post[x]
    BY <1>6 DEF TypeOK
  <2> QED BY <1>1, <1>4, <2>1, <2>2, <2>4, <2>5 DEF Written, OthersKept, ModerationKept, TypeOK
<1> QED BY <1>3, <1>5, <1>6

LEMMA StatusWritten ==
  ASSUME TypeOK, Grounded, NEW h \in Handler, ListingStatusUpdate(h) \/ RequestStatusUpdate(h)
  PROVE  Written(h)
<1> DEFINE p == req[h].post
           row == post[p]
           life == lives[p] + IF row.status = "published" THEN 0 ELSE Live(req[h].change)
           stamp == Stamped(row, req[h].change, life)
           new == [row EXCEPT !.status = req[h].change, !.published = stamp]
<1>1. req[h].op = "status" /\ Finish(h) /\ UNCHANGED ledger
  BY DEF ListingStatusUpdate, RequestStatusUpdate, WriteStatus
<1>2. p \in Post /\ req[h].change \in Status /\ RowOK(row) /\ row # NoPost
  <2>1. Serving(h) /\ req[h] # Idle
    BY <1>1 DEF Serving, Idle
  <2> QED BY <1>1, <2>1 DEF TypeOK, Grounded, RequestOK, Change
<1>3. /\ post' = [post EXCEPT ![p].status = req[h].change, ![p].published = stamp]
      /\ lives' = [lives EXCEPT ![p] = life]
  BY DEF ListingStatusUpdate, RequestStatusUpdate, WriteStatus
<1>4. life \in Nat /\ lives[p] \in Nat
  BY <1>2 DEF TypeOK, Live
<1>5. stamp \in Nat
  BY <1>2, <1>4 DEF Stamped, RowOK, NoPost
<1>6. RowOK(new)
  BY <1>2, <1>5, StatusRow
<1>7. post'[p] = new /\ DOMAIN post' = Post /\ \A x \in Post \ {p} : post'[x] = post[x]
  BY <1>2, <1>3 DEF TypeOK
<1>8. new.kind = row.kind /\ new.terms = row.terms /\ new.removed = row.removed
  BY <1>2 DEF RowOK, NoPost
<1>9. row.kind # "none"
  BY <1>2 DEF RowOK
<1>10. post'[p] # NoPost
  <2> HIDE DEF new
  <2>1. post'[p].kind = row.kind
    BY <1>7, <1>8
  <2> QED BY <1>9, <2>1 DEF NoPost
<1>11. lives' \in [Post -> Nat]
  BY <1>2, <1>3, <1>4 DEF TypeOK
<1> QED
  BY <1>1, <1>6, <1>7, <1>8, <1>10, <1>11 DEF Written, OthersKept, ModerationKept, TypeOK

LEMMA TakedownWritten ==
  ASSUME TypeOK, Grounded, NEW h \in Handler, RemovePost(h) \/ RestorePost(h)
  PROVE  Written(h)
<1> DEFINE p == req[h].post
           row == post[p]
           reason == req[h].change
<1>1. req[h].op \in {"remove", "restore"} /\ Finish(h) /\ UNCHANGED lives
  BY DEF RemovePost, RestorePost, Takedown
<1>2. p \in Post /\ reason \in Reason /\ req[h].began \in Nat /\ RowOK(row) /\ row # NoPost
  <2>1. Serving(h) /\ req[h] # Idle
    BY <1>1 DEF Serving, Idle
  <2> QED BY <1>1, <2>1 DEF TypeOK, Grounded, RequestOK, Change
<1>3. CASE UNCHANGED <<post, ledger>>
  BY <1>1, <1>2, <1>3 DEF Written, OthersKept, ModerationKept, TypeOK
<1>4. ASSUME NEW to \in {"removed", "visible"}, NEW removed \in Reason \cup {NoReason},
             \/ to = "removed" /\ removed = reason /\ row.removed = NoReason
             \/ to = "visible" /\ removed = NoReason /\ row.removed \in Reason,
             post' = [post EXCEPT ![p] = [row EXCEPT !.removed = removed]],
             ledger' = [ledger EXCEPT ![p] = Append(@, Row(h, to))]
      PROVE  Written(h)
  <2> DEFINE new == [row EXCEPT !.removed = removed]
  <2>1. RowOK(new)
    BY <1>2, RemovedRow
  <2>2. /\ new.kind = row.kind /\ new.terms = row.terms /\ new.status = row.status
        /\ new.removed = removed
    BY <1>2 DEF RowOK, NoPost
  <2>3. post'[p] = new /\ DOMAIN post' = Post /\ \A x \in Post \ {p} : post'[x] = post[x]
    BY <1>2, <1>4 DEF TypeOK
  <2>4. Row(h, to) \in Entry
    BY <1>2 DEF Entry, Row
  <2>5. ledger' \in [Post -> Seq(Entry)]
    BY <1>2, <1>4, <2>4 DEF TypeOK
  <2>6. /\ ledger'[p] = Append(ledger[p], Row(h, to))
        /\ \A x \in Post \ {p} : ledger'[x] = ledger[x]
    BY <1>2, <1>4 DEF TypeOK
  <2> HIDE DEF new
  <2>7. row.kind # "none"
    BY <1>2 DEF RowOK
  <2>8. post'[p].kind = row.kind
    BY <2>2, <2>3
  <2>9. post'[p] # NoPost
    BY <2>7, <2>8 DEF NoPost
  <2>10. \/ Told(p, {NoReason}, reason, Row(h, "removed"))
         \/ Told(p, Reason, NoReason, Row(h, "visible"))
    BY <1>4, <2>2, <2>3, <2>6 DEF Told
  <2> QED
    BY <1>1, <2>1, <2>2, <2>3, <2>5, <2>6, <2>9, <2>10 DEF Written, OthersKept, TypeOK
<1>5. CASE RemovePost(h) /\ ~UNCHANGED <<post, ledger>>
  <2>1. /\ row.removed = NoReason
        /\ post' = [post EXCEPT ![p] = [row EXCEPT !.removed = reason]]
        /\ ledger' = [ledger EXCEPT ![p] = Append(@, Row(h, "removed"))]
    BY <1>5 DEF RemovePost, Takedown, Remove, Row
  <2> QED BY <1>2, <1>4, <2>1
<1>6. CASE RestorePost(h) /\ ~UNCHANGED <<post, ledger>>
  <2>1. /\ row.removed # NoReason
        /\ post' = [post EXCEPT ![p] = [row EXCEPT !.removed = NoReason]]
        /\ ledger' = [ledger EXCEPT ![p] = Append(@, Row(h, "visible"))]
    BY <1>6 DEF RestorePost, Takedown, Restore, Row
  <2>2. row.removed \in Reason
    BY <1>2, <2>1 DEF RowOK, NoPost
  <2> QED BY <1>2, <1>4, <2>1, <2>2
<1> QED BY <1>3, <1>5, <1>6

-----------------------------------------------------------------------------
(* The ledger. *)

LEMMA AppendCounts ==
  ASSUME NEW rows \in Seq(Entry), NEW entry \in Entry, NEW to
  PROVE  /\ Count(rows, to) \in Nat
         /\ Count(Append(rows, entry), to) = Count(rows, to) + IF entry.to = to THEN 1 ELSE 0
<1> DEFINE new == Append(rows, entry)
           n == Len(rows)
           told == {i \in 1..n : rows[i].to = to}
<1>1. /\ n \in Nat /\ Len(new) = n + 1 /\ new[n + 1] = entry
      /\ \A i \in 1..n : new[i] = rows[i]
  OBVIOUS
<1>2. IsFiniteSet(told) /\ Cardinality(told) \in Nat
  <2>1. IsFiniteSet(1..n)
    BY <1>1, FS_Interval
  <2> QED BY <2>1, FS_Subset, FS_CardinalityType
<1> HIDE DEF new, n
<1>3. {i \in 1..Len(new) : new[i].to = to} = told \cup IF entry.to = to THEN {n + 1} ELSE {}
  <2>1. 1..Len(new) = (1..n) \cup {n + 1} /\ n + 1 \notin 1..n
    BY <1>1
  <2> QED BY <1>1, <2>1
<1>4. n + 1 \notin told
  BY <1>1
<1> HIDE DEF told
<1>5. Cardinality(told \cup {n + 1}) = Cardinality(told) + 1
  BY <1>2, <1>4, FS_AddElement
<1>6. Cardinality(told \cup IF entry.to = to THEN {n + 1} ELSE {}) =
        Cardinality(told) + IF entry.to = to THEN 1 ELSE 0
  <2>1. CASE entry.to = to
    BY <1>5, <2>1
  <2>2. CASE entry.to # to
    BY <1>2, <2>2
  <2> QED BY <2>1, <2>2
<1>7. Count(rows, to) = Cardinality(told)
  BY DEF Count, told, n
<1>8. Count(new, to) = Cardinality(told \cup IF entry.to = to THEN {n + 1} ELSE {})
  BY <1>3 DEF Count
<1> QED BY <1>2, <1>6, <1>7, <1>8 DEF new

\* A takedown of a post that is up, or a restoration of one that is down, appends
\* the row that tells what the post becomes.
LEMMA AppendAgrees ==
  ASSUME NEW rows \in Seq(Entry), NEW removed, Agrees(rows, removed), NEW entry \in Entry,
         \/ entry.to = "removed" /\ removed = NoReason
         \/ entry.to = "visible" /\ removed \in Reason
  PROVE  Agrees(Append(rows, entry), Shown(entry))
<1> DEFINE new == Append(rows, entry)
<1>1. new # <<>> /\ new[Len(new)] = entry
  OBVIOUS
<1>2. /\ Count(rows, "removed") \in Nat /\ Count(rows, "visible") \in Nat
      /\ \A to : Count(new, to) = Count(rows, to) + IF entry.to = to THEN 1 ELSE 0
  BY AppendCounts
<1>3. entry.reason \in Reason
  BY DEF Entry
<1> HIDE DEF new
<1>4. Count(new, "removed") = Count(new, "visible") + IF Shown(entry) # NoReason THEN 1 ELSE 0
  <2>1. CASE entry.to = "removed" /\ removed = NoReason
    <3>1. Count(rows, "removed") = Count(rows, "visible") /\ Shown(entry) # NoReason
      BY <1>2, <1>3, <2>1, PostsAssumption DEF Agrees, Shown
    <3> QED BY <1>2, <2>1, <3>1
  <2>2. CASE entry.to = "visible" /\ removed \in Reason
    <3>1. Count(rows, "removed") = Count(rows, "visible") + 1 /\ Shown(entry) = NoReason
      BY <2>2, PostsAssumption DEF Agrees, Shown
    <3> QED BY <1>2, <2>2, <3>1
  <2> QED BY <2>1, <2>2
<1> QED BY <1>1, <1>4 DEF Agrees, new

LEMMA WrittenAgrees ==
  ASSUME TypeOK, Grounded, LedgerInv, NEW h \in Handler, req[h] # Idle, Written(h)
  PROVE  LedgerInv'
<1> DEFINE p == req[h].post
<1>1. /\ p \in Post /\ req[h].op \in Op /\ req[h].change \in Change(req[h].op)
      /\ req[h].began \in Nat
  BY DEF TypeOK, RequestOK
<1>2. ledger[p] \in Seq(Entry) /\ Agrees(ledger[p], post[p].removed)
  BY <1>1 DEF TypeOK, LedgerInv
<1>3. Agrees(ledger'[p], post'[p].removed)
  <2>1. CASE ModerationKept(p)
    BY <1>2, <2>1 DEF ModerationKept
  <2>2. CASE req[h].op \in {"remove", "restore"} /\ ~ModerationKept(p)
    <3>1. /\ Row(h, "removed") \in Entry /\ Shown(Row(h, "removed")) = req[h].change
          /\ Row(h, "visible") \in Entry /\ Shown(Row(h, "visible")) = NoReason
          /\ Row(h, "removed").to = "removed" /\ Row(h, "visible").to = "visible"
      BY <1>1, <2>2 DEF Change, Row, Entry, Shown
    <3>2. CASE Told(p, {NoReason}, req[h].change, Row(h, "removed"))
      BY <1>2, <3>1, <3>2, AppendAgrees DEF Told
    <3>3. CASE Told(p, Reason, NoReason, Row(h, "visible"))
      BY <1>2, <3>1, <3>3, AppendAgrees DEF Told
    <3> QED BY <2>2, <3>2, <3>3 DEF Written
  <2> QED BY <1>1, <2>1, <2>2 DEF Written, Op
<1>4. \A x \in Post \ {p} : Agrees(ledger'[x], post'[x].removed)
  BY DEF Written, OthersKept, LedgerInv
<1> QED BY <1>3, <1>4 DEF LedgerInv, Agrees, Count, Shown

\* The row shown first is the one committed last, or was overtaken by it.
LEMMA AgreesShown ==
  ASSUME TypeOK, LedgerInv
  PROVE  LedgerAgrees
<1> SUFFICES ASSUME NEW p \in Post
             PROVE  LET rows == ledger[p] IN
               /\ Count(rows, "removed") = Count(rows, "visible") + IF Removed(p) THEN 1 ELSE 0
               /\ Removed(p) => \E i \in 1..Len(rows) : Shown(rows[i]) = post[p].removed
               /\ \A i \in ShownFirst(rows) :
                    Shown(rows[i]) = post[p].removed \/ Overtaken(rows, i)
  BY DEF LedgerAgrees
<1> DEFINE rows == ledger[p]
           last == Len(rows)
<1>1. rows \in Seq(Entry) /\ Agrees(rows, post[p].removed)
  BY DEF TypeOK, LedgerInv
<1>2. last \in Nat /\ (rows # <<>> => last \in 1..last)
  BY <1>1
<1>3. Count(rows, "removed") = Count(rows, "visible") + IF Removed(p) THEN 1 ELSE 0
  BY <1>1 DEF Agrees, Removed
<1>4. Removed(p) => \E i \in 1..last : Shown(rows[i]) = post[p].removed
  BY <1>1, <1>2 DEF Agrees, Removed
<1>5. ASSUME NEW i \in ShownFirst(rows) PROVE Shown(rows[i]) = post[p].removed \/ Overtaken(rows, i)
  <2>1. i \in 1..last /\ \A j \in 1..last : rows[j].at <= rows[i].at
    BY DEF ShownFirst
  <2>2. rows # <<>> /\ last \in 1..last
    BY <1>1, <1>2, <2>1
  <2>3. CASE i = last
    BY <1>1, <2>2, <2>3 DEF Agrees
  <2>4. CASE i # last
    <3>1. i < last /\ rows[last].at <= rows[i].at
      BY <1>2, <2>1, <2>2, <2>4
    <3> QED BY <2>2, <3>1 DEF Overtaken
  <2> QED BY <2>3, <2>4
<1> QED BY <1>3, <1>4, <1>5

-----------------------------------------------------------------------------
(* Every step. *)

LEMMA Serves ==
  ASSUME TypeOK, Grounded, NEW h \in Handler, Serve(h)
  PROVE  Written(h) /\ req[h] # Idle
<1>1. req[h].op \in {"edit", "status", "remove", "restore"}
  BY DEF Serve, EditListingUpdate, EditRequestUpdate, Edit, ListingStatusUpdate,
         RequestStatusUpdate, WriteStatus, RemovePost, RestorePost, Takedown
<1>2. req[h] # Idle
  BY <1>1 DEF Idle
<1> QED BY <1>2, EditWritten, StatusWritten, TakedownWritten DEF Serve

\* What creating a post changes.
Created(p) ==
  /\ post[p] = NoPost /\ UNCHANGED <<ledger, req>>
  /\ DOMAIN post' = Post /\ \A x \in Post \ {p} : post'[x] = post[x]
  /\ RowOK(post'[p]) /\ post'[p] # NoPost /\ post'[p].removed = NoReason
  /\ lives' \in [Post -> Nat]

LEMMA Creates ==
  ASSUME TypeOK, NEW p \in Post, NEW t \in Sheet, NEW status \in Status,
         CreateListing(p, t, status) \/ CreateRequest(p, t, status)
  PROVE  Created(p)
<1>1. PICK kind \in {"listing", "request"} : \E published \in Nat :
        /\ Create(p, kind, t, status, published)
        /\ DOMAIN t = IF kind = "listing" THEN ListingField ELSE RequestField
  <2>1. 0 \in Nat /\ Live(status) \in Nat
    BY DEF Live
  <2> QED BY <2>1 DEF CreateListing, CreateRequest
<1>2. PICK published \in Nat : Create(p, kind, t, status, published)
  BY <1>1
<1> DEFINE row == [kind |-> kind, status |-> status, published |-> published,
                   removed |-> NoReason, terms |-> t]
<1>3. IsTerms(t, IF kind = "listing" THEN ListingField ELSE RequestField)
  BY <1>1, PostsAssumption DEF IsTerms
<1>4. RowOK(row)
  BY <1>3, CreatedRow
<1>5. row.kind # "none" /\ row.removed = NoReason /\ row # NoPost
  BY DEF NoPost
<1>6. /\ post' = [post EXCEPT ![p] = row] /\ post[p].kind = "none"
      /\ lives' = [lives EXCEPT ![p] = Live(status)] /\ UNCHANGED <<ledger, req>>
  BY <1>2 DEF Create
<1>7. post[p] = NoPost
  BY <1>6 DEF TypeOK, RowOK
<1>8. lives' \in [Post -> Nat]
  BY <1>6 DEF TypeOK, Live
<1> HIDE DEF row
<1>9. post'[p] = row /\ DOMAIN post' = Post /\ \A x \in Post \ {p} : post'[x] = post[x]
  BY <1>6 DEF TypeOK
<1> QED BY <1>4, <1>5, <1>6, <1>7, <1>8, <1>9 DEF Created

LEMMA InitInv == Init => PostsInv
<1> SUFFICES ASSUME Init PROVE PostsInv
  OBVIOUS
<1>1. TypeOK
  BY DEF Init, TypeOK, RowOK, RequestOK, Idle, NoPost, Entry
<1>2. Grounded
  BY DEF Init, Grounded, Serving, Idle
<1>3. LedgerInv
  <2> SUFFICES ASSUME NEW p \in Post PROVE Agrees(<<>>, NoReason)
    BY DEF Init, LedgerInv, NoPost
  <2>1. Count(<<>>, "removed") = 0 /\ Count(<<>>, "visible") = 0
    <3>1. \A to : {i \in 1..Len(<<>>) : <<>>[i].to = to} = {}
      OBVIOUS
    <3> QED BY <3>1, FS_EmptySet DEF Count
  <2> QED BY <2>1 DEF Agrees
<1> QED BY <1>1, <1>2, <1>3 DEF PostsInv

LEMMA NextInv == PostsInv /\ [Next]_vars => PostsInv'
<1> SUFFICES ASSUME PostsInv, [Next]_vars PROVE PostsInv'
  OBVIOUS
<1> USE DEF PostsInv
<1>1. ASSUME NEW p \in Post, Created(p) PROVE PostsInv'
  <2>1. \A x \in Post : RowOK(post'[x])
    BY <1>1 DEF Created, TypeOK
  <2>2. TypeOK'
    BY <1>1, <2>1 DEF Created, TypeOK
  <2>3. Grounded'
    BY <1>1 DEF Created, Grounded, TypeOK, RequestOK, Serving, Idle
  <2>4. \A x \in Post : post'[x].removed = post[x].removed
    BY <1>1 DEF Created, NoPost
  <2>5. LedgerInv'
    BY <1>1, <2>4 DEF Created, LedgerInv
  <2> QED BY <2>2, <2>3, <2>5
<1>2. ASSUME NEW h \in Handler, Arrive(h) PROVE PostsInv'
  <2>1. PICK op \in Op, p \in Post : \E change \in Change(op), began \in Nat : \E read :
          Accept(h, op, p, change, read, began) /\ post[p] # NoPost
    BY <1>2, Begins
  <2>2. PICK change \in Change(op), began \in Nat :
          \E read : Accept(h, op, p, change, read, began)
    BY <2>1
  <2>3. PICK read : Accept(h, op, p, change, read, began)
    BY <2>2
  <2>4. UNCHANGED db
    BY <1>2, Begins
  <2>5. DOMAIN req' = Handler /\ \A g \in Handler : RequestOK(req'[g])
    BY <2>3, AcceptOK
  <2>6. TypeOK'
    BY <2>4, <2>5 DEF TypeOK, db
  <2>7. req'[h].post = p /\ \A g \in Handler \ {h} : req'[g] = req[g]
    BY <2>3 DEF Accept, TypeOK
  <2>8. Grounded'
    BY <2>1, <2>4, <2>7 DEF Grounded, Serving, db
  <2>9. LedgerInv'
    BY <2>4 DEF LedgerInv, db
  <2> QED BY <2>6, <2>8, <2>9
<1>3. ASSUME NEW h \in Handler, Serve(h) PROVE PostsInv'
  <2> DEFINE p == req[h].post
  <2>1. Written(h) /\ req[h] # Idle
    BY <1>3, Serves
  <2>2. p \in Post
    BY <2>1 DEF TypeOK, RequestOK
  <2>3. DOMAIN req' = Handler /\ \A g \in Handler : RequestOK(req'[g])
    BY <2>1, FinishOK DEF Written
  <2>4. \A x \in Post : RowOK(post'[x]) /\ (post[x] # NoPost => post'[x] # NoPost)
    BY <2>1 DEF Written, OthersKept, TypeOK
  <2>5. TypeOK'
    BY <2>1, <2>3, <2>4 DEF Written, TypeOK
  <2>6. Grounded'
    <3> SUFFICES ASSUME NEW g \in Handler, req'[g].op # "none" PROVE post'[req'[g].post] # NoPost
      BY DEF Grounded, Serving
    <3>1. g # h /\ req'[g] = req[g]
      BY <2>1 DEF Written, Finish, TypeOK, Idle
    <3>2. req[g].post \in Post /\ post[req[g].post] # NoPost
      BY <3>1 DEF Grounded, Serving, TypeOK, RequestOK, Idle
    <3> QED BY <2>4, <3>1, <3>2
  <2>7. LedgerInv'
    BY <2>1, WrittenAgrees
  <2> QED BY <2>5, <2>6, <2>7
<1>4. ASSUME NEW h \in Handler, Abandon(h) PROVE PostsInv'
  <2>1. DOMAIN req' = Handler /\ \A g \in Handler : RequestOK(req'[g])
    BY <1>4, FinishOK DEF Abandon
  <2>2. TypeOK'
    BY <1>4, <2>1 DEF Abandon, TypeOK, db
  <2>3. Grounded'
    BY <1>4 DEF Abandon, Finish, Grounded, Serving, TypeOK, Idle, db
  <2>4. LedgerInv'
    BY <1>4 DEF Abandon, LedgerInv, db
  <2> QED BY <2>2, <2>3, <2>4
<1>5. CASE UNCHANGED vars
  <2>1. TypeOK'
    BY <1>5 DEF TypeOK, vars
  <2>2. Grounded' /\ LedgerInv'
    BY <1>5 DEF Grounded, Serving, LedgerInv, vars
  <2> QED BY <2>1, <2>2
<1>6. CASE Next
  <2>1. \/ \E p \in Post : Created(p)
        \/ \E h \in Handler : Arrive(h) \/ Serve(h) \/ Abandon(h)
    BY <1>6, Creates DEF Next
  <2> QED BY <1>1, <1>2, <1>3, <1>4, <2>1
<1> QED BY <1>5, <1>6

\* Every reachable state satisfies the invariant.
THEOREM Invariance == Spec => []PostsInv
BY InitInv, NextInv, PTL DEF Spec

\* Rows, ledger and requests keep their types.
THEOREM TypeCorrect == Spec => []TypeOK
<1>1. PostsInv => TypeOK
  BY DEF PostsInv
<1> QED BY <1>1, Invariance, PTL

\* However takedowns and restorations race, every takedown but the one that
\* stands has its restoration in the ledger, the one that stands is there with its
\* reason, and the row shown first says whether the post is down, and why, unless
\* the change it tells of was overtaken (posts.go, admin.sql).
THEOREM LedgerTells == Spec => []LedgerAgrees
<1>1. PostsInv => LedgerAgrees
  BY AgreesShown DEF PostsInv
<1> QED BY <1>1, Invariance, PTL

-----------------------------------------------------------------------------
(* Takedowns and archivings settle. *)

\* A request that ends takes no other's place, and none about another post or
\* of another kind adds to those at work.
LEMMA EndingWorks ==
  ASSUME TypeOK, NEW h \in Handler, Finish(h), NEW p \in Post, NEW ops \in SUBSET Op
  PROVE  Working(p, ops)' \subseteq Working(p, ops)
<1> SUFFICES ASSUME NEW g \in Handler, req'[g].op \in ops, req'[g].post = p
             PROVE  req[g].op \in ops /\ req[g].post = p
  BY DEF Working
<1>1. req' = [req EXCEPT ![h] = Idle] /\ "none" \notin ops
  BY DEF Finish, Op
<1>2. g # h
  BY <1>1 DEF TypeOK, Idle
<1> QED BY <1>1, <1>2 DEF TypeOK

LEMMA BeginningWorks ==
  ASSUME TypeOK, NEW h \in Handler, NEW op, NEW x, NEW change, NEW read, NEW began,
         Accept(h, op, x, change, read, began), NEW p \in Post, NEW ops \in SUBSET Op,
         op \notin ops \/ x # p
  PROVE  Working(p, ops)' \subseteq Working(p, ops)
<1> SUFFICES ASSUME NEW g \in Handler, req'[g].op \in ops, req'[g].post = p
             PROVE  req[g].op \in ops /\ req[g].post = p
  BY DEF Working
<1>1. req'[h].op = op /\ req'[h].post = x
  BY DEF Accept, TypeOK
<1>2. g # h
  BY <1>1
<1> QED BY <1>2 DEF Accept, TypeOK

\* What a step may do to a post that is there: an owner's request about it
\* begins only while it is up, a change of status only while it is not archived,
\* and a column is written only by a request at work on it.
Settled(p) ==
  /\ Removed(p) => Working(p, {"edit", "status"})' \subseteq Working(p, {"edit", "status"})
  /\ post[p].status = "archived" => Working(p, {"status"})' \subseteq Working(p, {"status"})
  /\ Working(p, {"status"}) = {} => post'[p].status = post[p].status
  /\ Working(p, {"edit"}) = {} => post'[p].terms = post[p].terms

LEMMA StepSettled ==
  ASSUME PostsInv, [Next]_vars, NEW p \in Post, post[p] # NoPost
  PROVE  Settled(p)
<1> DEFINE owners == {"edit", "status"}
           changing == {"status"}
<1>0. TypeOK /\ Grounded /\ owners \in SUBSET Op /\ changing \in SUBSET Op
  BY DEF PostsInv, Op
<1>1. ASSUME NEW x \in Post, Created(x) PROVE Settled(p)
  <2>1. x # p /\ UNCHANGED req /\ post'[p] = post[p]
    BY <1>1 DEF Created
  <2> QED BY <2>1 DEF Settled, Working
<1>2. ASSUME NEW h \in Handler, Arrive(h) PROVE Settled(p)
  <2>1. PICK op \in Op, x \in Post : \E change \in Change(op), began \in Nat : \E read :
          /\ Accept(h, op, x, change, read, began)
          /\ op \in owners => ~Removed(x)
          /\ op = "status" => post[x].status # "archived"
    BY <1>0, <1>2, Begins
  <2>2. PICK change \in Change(op), began \in Nat :
          \E read : Accept(h, op, x, change, read, began)
    BY <2>1
  <2>3. PICK read : Accept(h, op, x, change, read, began)
    BY <2>2
  <2>4. Removed(p) => Working(p, owners)' \subseteq Working(p, owners)
    <3> SUFFICES ASSUME Removed(p) PROVE op \notin owners \/ x # p
      BY <1>0, <2>3, BeginningWorks
    <3> QED BY <2>1
  <2>5. post[p].status = "archived" => Working(p, changing)' \subseteq Working(p, changing)
    <3> SUFFICES ASSUME post[p].status = "archived" PROVE op \notin changing \/ x # p
      BY <1>0, <2>3, BeginningWorks
    <3> QED BY <2>1
  <2>6. post' = post
    BY <1>0, <1>2, Begins DEF db
  <2> QED BY <2>4, <2>5, <2>6 DEF Settled
<1>3. ASSUME NEW h \in Handler, Finish(h),
             \/ post' = post
             \/ Written(h) /\ req[h] # Idle
      PROVE  Settled(p)
  <2>1. /\ Working(p, owners)' \subseteq Working(p, owners)
        /\ Working(p, changing)' \subseteq Working(p, changing)
    BY <1>0, <1>3, EndingWorks
  <2>2. CASE post' = post
    BY <2>1, <2>2 DEF Settled
  <2>3. CASE Written(h) /\ req[h].post # p
    <3>1. post'[p] = post[p]
      BY <2>3 DEF Written, OthersKept
    <3> QED BY <2>1, <3>1 DEF Settled
  <2>4. CASE Written(h) /\ req[h].post = p
    <3>1. Working(p, {"status"}) = {} => post'[p].status = post[p].status
      BY <2>4 DEF Written, Working
    <3>2. Working(p, {"edit"}) = {} => post'[p].terms = post[p].terms
      BY <2>4 DEF Written, Working
    <3> QED BY <2>1, <3>1, <3>2 DEF Settled
  <2> QED BY <1>3, <2>2, <2>3, <2>4
<1>4. CASE UNCHANGED vars
  BY <1>4 DEF Settled, Working, vars
<1>5. CASE Next
  <2>1. \/ \E x \in Post : Created(x)
        \/ \E h \in Handler : Arrive(h) \/ Serve(h) \/ Abandon(h)
    BY <1>0, <1>5, Creates DEF Next
  <2>2. ASSUME NEW h \in Handler, Serve(h) PROVE Finish(h) /\ Written(h) /\ req[h] # Idle
    BY <1>0, <2>2, Serves DEF Written
  <2>3. ASSUME NEW h \in Handler, Abandon(h) PROVE Finish(h) /\ post' = post
    BY <2>3 DEF Abandon, db
  <2> QED BY <1>1, <1>2, <1>3, <2>1, <2>2, <2>3
<1> QED BY <1>4, <1>5

\* "Without it, republishing would silently override the moderator"
\* (removedRefusal): while a takedown stands no owner's request gets past its
\* check, and once those that had are gone the owner's side of the row keeps still.
THEOREM TakedownsSettle == Spec => TakedownSettles
<1> DEFINE Settles(p) ==
      Removed(p) =>
        LET owners == Working(p, {"edit", "status"}) IN
        /\ owners' \subseteq owners
        /\ owners = {} => /\ post'[p].status = post[p].status
                          /\ post'[p].terms = post[p].terms
<1>1. PostsInv /\ [Next]_vars => \A p \in Post : Settles(p)
  <2> SUFFICES ASSUME PostsInv, [Next]_vars, NEW p \in Post, Removed(p)
               PROVE  LET owners == Working(p, {"edit", "status"}) IN
                      /\ owners' \subseteq owners
                      /\ owners = {} => /\ post'[p].status = post[p].status
                                        /\ post'[p].terms = post[p].terms
    OBVIOUS
  <2>1. Settled(p)
    BY StepSettled DEF Removed, NoPost
  <2>2. Working(p, {"edit", "status"}) = {} =>
          Working(p, {"status"}) = {} /\ Working(p, {"edit"}) = {}
    BY DEF Working
  <2> QED BY <2>1, <2>2 DEF Settled
<1>2. PostsInv /\ [Next]_vars => [\A p \in Post : Settles(p)]_vars
  BY <1>1
<1> QED BY <1>2, Invariance, PTL DEF Spec, TakedownSettles

\* "archived has no entry: it is terminal" (allowedTransitions), once the
\* changes of status are gone that were chosen before the archiving.
THEOREM ArchivingsSettle == Spec => ArchiveSettles
<1> DEFINE Settles(p) ==
      post[p].status = "archived" =>
        LET changing == Working(p, {"status"}) IN
        /\ changing' \subseteq changing
        /\ changing = {} => post'[p].status = "archived"
<1>1. PostsInv /\ [Next]_vars => \A p \in Post : Settles(p)
  <2> SUFFICES ASSUME PostsInv, [Next]_vars, NEW p \in Post, post[p].status = "archived"
               PROVE  LET changing == Working(p, {"status"}) IN
                      /\ changing' \subseteq changing
                      /\ changing = {} => post'[p].status = "archived"
    OBVIOUS
  <2>1. Settled(p)
    BY StepSettled DEF NoPost
  <2> QED BY <2>1 DEF Settled
<1>2. PostsInv /\ [Next]_vars => [\A p \in Post : Settles(p)]_vars
  BY <1>1
<1> QED BY <1>2, Invariance, PTL DEF Spec, ArchiveSettles

-----------------------------------------------------------------------------
(* The invariant.                                                          *)

\* An edit was validated against the row it read, under the rules of its kind.
Validated(h) ==
  req[h].op = "edit" =>
    LET row == post[req[h].post]
        t == req[h].read
        e == req[h].change
    IN \/ /\ row.kind = "listing" /\ IsTerms(t, ListingField)
          /\ ValidListing(ApplyUpdate(t, e))
       \/ /\ row.kind = "request" /\ IsTerms(t, RequestField)
          /\ ValidRequest(ApplyRequestUpdate(t, e))

RowHolds(row, n) ==
  /\ row.kind = "listing" => ValidListing(NoStudioRoom(row.terms))
  /\ row.kind = "request" => /\ ValidRequest(row.terms)
                             /\ row.published = (IF n = 0 THEN 0 ELSE 1)
                             /\ n = 0 => row.status # "published"

RowsInv ==
  /\ PostsInv
  /\ \A h \in Handler : Validated(h)
  /\ \A p \in Post : RowHolds(post[p], lives[p])

-----------------------------------------------------------------------------
(* Lemmas on terms.                                                        *)

\* What validation accepts the constraints accept.
LEMMA ValidChecks ==
  ASSUME NEW t
  PROVE  /\ IsTerms(t, ListingField) /\ ValidListing(t) => ChecksListing(t)
         /\ IsTerms(t, RequestField) /\ ValidRequest(t) => ChecksRequest(t)
<1>1. IsTerms(t, ListingField) => t["lease"] \in Nat /\ t["studio"] \in BOOLEAN
  BY DEF IsTerms, Column, ListingField, RequestField, Field
<1>2. IsTerms(t, ListingField) /\ ValidListing(t) => ChecksListing(t)
  BY <1>1 DEF ValidListing, ChecksListing, MaxLease
<1>3. ValidRequest(t) => ChecksRequest(t)
  BY DEF ValidRequest, ChecksRequest
<1> QED BY <1>2, <1>3

\* What an edit says of the columns that only validation looks at.
Sound(e) ==
  /\ "plain" \in DOMAIN e => e["plain"] = TRUE
  /\ "lease" \in DOMAIN e => e["lease"] \in 1..MaxLease

LEMMA ValidatedSound ==
  ASSUME NEW t, NEW e,
         \/ IsTerms(t, ListingField) /\ ValidListing(ApplyUpdate(t, e))
         \/ IsTerms(t, RequestField) /\ ValidRequest(ApplyRequestUpdate(t, e)),
         IsPatch(e)
  PROVE  Sound(e)
<1> SUFFICES ASSUME NEW f \in {"plain", "lease"}, f \in DOMAIN e
             PROVE  IF f = "plain" THEN e[f] = TRUE ELSE e[f] \in 1..MaxLease
  BY DEF Sound
<1>1. f \in DOMAIN t /\ f \in ListingField /\ f \in RequestField /\ f # "stay"
  BY DEF IsTerms, ListingField, RequestField
<1>2. f \in DOMAIN MinStayChange(e) /\ MinStayChange(e)[f] = e[f]
  BY <1>1 DEF MinStayChange
<1>3. ApplyUpdate(t, e)[f] = e[f] /\ ApplyRequestUpdate(t, e)[f] = e[f]
  BY <1>1, <1>2 DEF ApplyUpdate, ApplyRequestUpdate, With
<1>4. e["plain"] \in BOOLEAN \/ f # "plain"
  BY DEF IsPatch, Column, Field, ListingField, RequestField
<1> QED BY <1>3, <1>4 DEF ValidListing, ValidRequest

\* The parameters say nothing else than the edit of these columns.
LEMMA SoundParams ==
  ASSUME NEW e, Sound(e)
  PROVE  Sound(UpdateParams(e)) /\ Sound(RequestUpdateParams(e))
BY DEF Sound, UpdateParams, RequestUpdateParams, NonNull, MinStayChange

\* A row that holds, an edit that was validated against some row, and
\* constraints that pass leave a row that holds.
LEMMA EditedListing ==
  ASSUME NEW t, IsTerms(t, ListingField), ValidListing(NoStudioRoom(t)), NEW e, Sound(e),
         IsPatch(e), ChecksListing(With(t, e))
  PROVE  ValidListing(NoStudioRoom(With(t, e)))
<1> DEFINE u == With(t, e)
           v == NoStudioRoom(u)
<1>1. IsTerms(u, ListingField)
  BY WithTerms DEF Field
<1>2. t["plain"] = TRUE /\ t["lease"] \in 1..MaxLease
  <2>1. NoStudioRoom(t)["plain"] = t["plain"] /\ NoStudioRoom(t)["lease"] = t["lease"]
    BY DEF NoStudioRoom, IsTerms, ListingField
  <2>2. t["plain"] \in BOOLEAN
    BY DEF IsTerms, ListingField, RequestField, Field, Column
  <2> QED BY <2>1, <2>2 DEF ValidListing
<1>3. u["plain"] = TRUE /\ u["lease"] \in 1..MaxLease
  BY <1>2 DEF With, Sound, IsTerms, ListingField
<1> HIDE DEF u
<1>4. \A f \in ListingField \ {"room"} : v[f] = u[f]
  BY <1>1 DEF NoStudioRoom, IsTerms
<1>5. v["room"] = IF u["studio"] THEN Null ELSE u["room"]
  BY <1>1 DEF NoStudioRoom, IsTerms, ListingField
<1>6. u["studio"] \in BOOLEAN
  BY <1>1 DEF IsTerms, ListingField, RequestField, Field, Column
<1> HIDE DEF v
<1>7. ChecksListing(u)
  BY DEF u
<1>8. /\ v["plain"] = u["plain"] /\ v["end"] = u["end"] /\ v["start"] = u["start"]
      /\ v["lease"] = u["lease"] /\ v["beds"] = u["beds"] /\ v["studio"] = u["studio"]
      /\ v["shorter"] = u["shorter"] /\ v["stay"] = u["stay"]
  BY <1>4 DEF ListingField
<1>9. ValidListing(v)
  BY <1>3, <1>5, <1>6, <1>7, <1>8 DEF ValidListing, ChecksListing
<1> QED BY <1>9 DEF v, u

LEMMA EditedRequest ==
  ASSUME NEW t, IsTerms(t, RequestField), ValidRequest(t), NEW e, Sound(e), IsPatch(e),
         ChecksRequest(With(t, e))
  PROVE  ValidRequest(With(t, e))
<1>1. t["plain"] /\ "plain" \in DOMAIN t
  BY DEF ValidRequest, IsTerms, RequestField
<1>2. With(t, e)["plain"] = IF "plain" \in DOMAIN e THEN e["plain"] ELSE t["plain"]
  BY <1>1 DEF With
<1> QED BY <1>1, <1>2 DEF ValidRequest, ChecksRequest, Sound

-----------------------------------------------------------------------------
(* Steps.                                                                  *)

\* What a step that serves a request leaves of each post.
Holding(p) ==
  post'[p].kind = post[p].kind /\ RowHolds(post'[p], lives'[p])

LEMMA EditHolds ==
  ASSUME RowsInv, NEW h \in Handler, EditListingUpdate(h) \/ EditRequestUpdate(h),
         NEW p \in Post
  PROVE  Holding(p)
<1>1. TypeOK /\ Grounded /\ Validated(h) /\ RowHolds(post[p], lives[p])
  BY DEF RowsInv, PostsInv
<1>2. PICK x \in Post, e \in Patch : x = req[h].post /\ e = req[h].change /\ req[h].op = "edit"
  <2>1. req[h].op = "edit" /\ req[h] # Idle
    BY DEF EditListingUpdate, EditRequestUpdate, Edit, Idle
  <2> QED BY <1>1, <2>1 DEF TypeOK, RequestOK, Change
<1>3. UNCHANGED lives
  BY DEF EditListingUpdate, EditRequestUpdate, Edit
<1>4. Sound(e) /\ IsPatch(e) /\ IsPatch(UpdateParams(e)) /\ IsPatch(RequestUpdateParams(e))
  <2>1. IsPatch(e)
    BY PostsAssumption
  <2>2. Sound(e)
    BY <1>1, <1>2, <2>1, ValidatedSound DEF Validated
  <2> QED BY <2>1, <2>2, ParamsPatch
<1>5. CASE post' = post
  BY <1>1, <1>3, <1>5 DEF Holding
<1>6. CASE post' # post /\ EditListingUpdate(h)
  <2>1. PICK u : u = With(post[x].terms, UpdateParams(e))
    OBVIOUS
  <2>2. /\ post' = [post EXCEPT ![x].terms = u] /\ ChecksListing(u) /\ post[x].kind = "listing"
    BY <1>2, <1>6, <2>1 DEF EditListingUpdate, Edit, UpdateListing
  <2>3. CASE p # x
    BY <1>1, <1>3, <2>2, <2>3 DEF Holding, TypeOK
  <2>4. CASE p = x
    <3>1. post[p] # NoPost /\ RowOK(post[p]) /\ IsTerms(post[p].terms, ListingField)
      BY <1>1, <2>2, <2>4 DEF TypeOK, RowOK, NoPost
    <3>2. post'[p] = [post[p] EXCEPT !.terms = u]
      BY <1>1, <2>2, <2>4 DEF TypeOK
    <3>3. post'[p].kind = "listing" /\ post'[p].terms = u
      BY <2>2, <2>4, <3>1, <3>2 DEF RowOK, NoPost
    <3>4. ValidListing(NoStudioRoom(u))
      BY <1>1, <1>4, <2>1, <2>2, <2>4, <3>1, SoundParams, EditedListing DEF RowHolds
    <3> QED BY <2>2, <2>4, <3>3, <3>4 DEF Holding, RowHolds
  <2> QED BY <2>3, <2>4
<1>7. CASE post' # post /\ EditRequestUpdate(h)
  <2>1. PICK u : u = With(post[x].terms, RequestUpdateParams(e))
    OBVIOUS
  <2>2. /\ post' = [post EXCEPT ![x].terms = u] /\ ChecksRequest(u) /\ post[x].kind = "request"
    BY <1>2, <1>7, <2>1 DEF EditRequestUpdate, Edit, UpdateRequest
  <2>3. CASE p # x
    BY <1>1, <1>3, <2>2, <2>3 DEF Holding, TypeOK
  <2>4. CASE p = x
    <3>1. post[p] # NoPost /\ RowOK(post[p]) /\ IsTerms(post[p].terms, RequestField)
      BY <1>1, <2>2, <2>4 DEF TypeOK, RowOK, NoPost
    <3>2. post'[p] = [post[p] EXCEPT !.terms = u]
      BY <1>1, <2>2, <2>4 DEF TypeOK
    <3>3. /\ post'[p].kind = "request" /\ post'[p].terms = u
          /\ post'[p].published = post[p].published /\ post'[p].status = post[p].status
      BY <2>2, <2>4, <3>1, <3>2 DEF RowOK, NoPost
    <3>4. ValidRequest(u)
      BY <1>1, <1>4, <2>1, <2>2, <2>4, <3>1, SoundParams, EditedRequest DEF RowHolds
    <3> QED BY <1>1, <1>3, <2>2, <2>4, <3>3, <3>4 DEF Holding, RowHolds
  <2> QED BY <2>3, <2>4
<1> QED BY <1>5, <1>6, <1>7

LEMMA StatusHolds ==
  ASSUME RowsInv, NEW h \in Handler, ListingStatusUpdate(h) \/ RequestStatusUpdate(h),
         NEW p \in Post
  PROVE  Holding(p)
<1>1. TypeOK /\ RowHolds(post[p], lives[p])
  BY DEF RowsInv, PostsInv
<1>2. PICK x \in Post, want \in Status : x = req[h].post /\ want = req[h].change
  <2>1. req[h].op = "status" /\ req[h] # Idle
    BY DEF ListingStatusUpdate, RequestStatusUpdate, WriteStatus, Idle
  <2>2. req[h].post \in Post /\ req[h].change \in Status
    BY <1>1, <2>1 DEF TypeOK, RequestOK, Change
  <2> QED BY <2>2
<1>3. PICK life, stamp :
        /\ life = lives[x] + IF post[x].status = "published" THEN 0 ELSE Live(want)
        /\ stamp = Stamped(post[x], want, life)
        /\ post' = [post EXCEPT ![x].status = want, ![x].published = stamp]
        /\ lives' = [lives EXCEPT ![x] = life]
        /\ post[x].kind \in {"listing", "request"}
  BY <1>2 DEF ListingStatusUpdate, RequestStatusUpdate, WriteStatus
<1>4. CASE p # x
  BY <1>1, <1>3, <1>4 DEF Holding, TypeOK
<1>5. CASE p = x
  <2>1. post[p] # NoPost /\ RowOK(post[p]) /\ lives[p] \in Nat
    BY <1>1, <1>3, <1>5 DEF TypeOK, NoPost
  <2>2. post'[p] = [post[p] EXCEPT !.status = want, !.published = stamp] /\ lives'[p] = life
    BY <1>1, <1>3, <1>5 DEF TypeOK
  <2>3. /\ post'[p].kind = post[p].kind /\ post'[p].terms = post[p].terms
        /\ post'[p].status = want /\ post'[p].published = stamp
    BY <2>1, <2>2 DEF RowOK, NoPost
  <2>4. ASSUME post[p].kind = "request"
        PROVE  /\ stamp = (IF life = 0 THEN 0 ELSE 1)
               /\ life = 0 => want # "published"
    <3>1. /\ post[p].published = (IF lives[p] = 0 THEN 0 ELSE 1)
          /\ lives[p] = 0 => post[p].status # "published"
      BY <1>1, <2>4 DEF RowHolds
    <3>2. CASE want = "published"
      BY <1>3, <1>5, <2>1, <3>1, <3>2 DEF Live, Stamped
    <3>3. CASE want # "published"
      BY <1>3, <1>5, <2>1, <3>1, <3>3 DEF Live, Stamped
    <3> QED BY <3>2, <3>3
  <2> QED BY <1>1, <2>2, <2>3, <2>4 DEF Holding, RowHolds
<1> QED BY <1>4, <1>5

LEMMA TakedownHolds ==
  ASSUME RowsInv, NEW h \in Handler, RemovePost(h) \/ RestorePost(h), NEW p \in Post
  PROVE  Holding(p)
<1>1. TypeOK /\ Grounded /\ RowHolds(post[p], lives[p])
  BY DEF RowsInv, PostsInv
<1>2. UNCHANGED lives /\ req[h].op # "none"
  BY DEF RemovePost, RestorePost, Takedown
<1>3. PICK x \in Post : x = req[h].post /\ post[x] # NoPost
  <2>1. req[h] # Idle /\ Serving(h)
    BY <1>2 DEF Idle, Serving
  <2> QED BY <1>1, <2>1 DEF TypeOK, RequestOK, Grounded
<1>4. \/ post' = post
      \/ \E removed : post' = [post EXCEPT ![x] = [post[x] EXCEPT !.removed = removed]]
  BY <1>3 DEF RemovePost, RestorePost, Takedown, Remove, Restore
<1>5. CASE post' = post
  BY <1>1, <1>2, <1>5 DEF Holding
<1>6. ASSUME NEW removed, post' = [post EXCEPT ![x] = [post[x] EXCEPT !.removed = removed]]
      PROVE  Holding(p)
  <2>1. CASE p # x
    BY <1>1, <1>2, <1>6, <2>1 DEF Holding, TypeOK
  <2>2. CASE p = x
    <3>1. RowOK(post[p]) /\ post'[p] = [post[p] EXCEPT !.removed = removed]
      BY <1>1, <1>3, <1>6, <2>2 DEF TypeOK
    <3>2. /\ post'[p].kind = post[p].kind /\ post'[p].terms = post[p].terms
          /\ post'[p].status = post[p].status /\ post'[p].published = post[p].published
      BY <1>3, <2>2, <3>1 DEF RowOK, NoPost
    <3> QED BY <1>1, <1>2, <3>2 DEF Holding, RowHolds
  <2> QED BY <2>1, <2>2
<1> QED BY <1>4, <1>5, <1>6

\* What is created is valid, and stamped if it is a request that goes live.
LEMMA CreateHolds ==
  ASSUME RowsInv, NEW x \in Post, NEW t \in Sheet, NEW status \in Status,
         CreateListing(x, t, status) \/ CreateRequest(x, t, status), NEW p \in Post
  PROVE  RowHolds(post'[p], lives'[p]) /\ (post[p] # NoPost => post'[p].kind = post[p].kind)
<1>1. TypeOK /\ RowHolds(post[p], lives[p])
  BY DEF RowsInv, PostsInv
<1>2. Created(x)
  BY <1>1, Creates
<1>3. CASE p # x
  <2>1. lives'[p] = lives[p]
    BY <1>1, <1>3 DEF CreateListing, CreateRequest, Create, TypeOK
  <2> QED BY <1>1, <1>2, <1>3, <2>1 DEF Created
<1>4. CASE p = x /\ CreateListing(x, t, status)
  <2>1. post'[p].kind = "listing" /\ post'[p].terms = t
    BY <1>1, <1>4 DEF CreateListing, Create, TypeOK
  <2>2. IsTerms(t, ListingField) /\ ValidListing(t)
    BY <1>4, PostsAssumption DEF CreateListing, IsTerms
  <2>3. t["studio"] \in BOOLEAN /\ (t["studio"] => t["room"] = Null)
    BY <2>2 DEF IsTerms, ListingField, RequestField, Field, Column, ValidListing
  <2>4. ValidListing(NoStudioRoom(t))
    <3> DEFINE v == NoStudioRoom(t)
    <3>1. \A f \in ListingField : v[f] = t[f]
      BY <2>2, <2>3 DEF NoStudioRoom, IsTerms
    <3> HIDE DEF v
    <3>2. /\ v["plain"] = t["plain"] /\ v["end"] = t["end"] /\ v["start"] = t["start"]
          /\ v["lease"] = t["lease"] /\ v["beds"] = t["beds"] /\ v["studio"] = t["studio"]
          /\ v["shorter"] = t["shorter"] /\ v["stay"] = t["stay"] /\ v["room"] = t["room"]
      BY <3>1 DEF ListingField
    <3>3. ValidListing(v)
      BY <2>2, <3>2 DEF ValidListing
    <3> QED BY <3>3 DEF v
  <2> QED BY <1>2, <1>4, <2>1, <2>2, <2>4 DEF RowHolds, Created
<1>5. CASE p = x /\ CreateRequest(x, t, status)
  <2>1. /\ post'[p].kind = "request" /\ post'[p].terms = t /\ post'[p].status = status
        /\ post'[p].published = Live(status) /\ lives'[p] = Live(status) /\ ValidRequest(t)
    BY <1>1, <1>5 DEF CreateRequest, Create, TypeOK
  <2> QED BY <1>2, <1>5, <2>1 DEF RowHolds, Created, Live
<1> QED BY <1>3, <1>4, <1>5

LEMMA ServeHolds ==
  ASSUME RowsInv, NEW h \in Handler, Serve(h), NEW p \in Post
  PROVE  Holding(p)
BY EditHolds, StatusHolds, TakedownHolds DEF Serve

\* An edit begins when it is valid for what it reads.
LEMMA ArriveValidated ==
  ASSUME RowsInv, NEW h \in Handler, Arrive(h), req'[h].op = "edit"
  PROVE  Validated(h)'
<1>1. TypeOK
  BY DEF RowsInv, PostsInv
<1>2. PICK p \in Post, e \in Patch : EditListing(h, p, e) \/ EditRequest(h, p, e)
  BY <1>1 DEF Arrive, SetListingStatus, SetRequestStatus, ChooseStatus, DeleteListing,
     DeleteRequest, Archive, RemoveAdminListing, RestoreAdminListing, RemoveAdminRequest,
     RestoreAdminRequest, Moderate, Accept, TypeOK
<1>3. Accept(h, "edit", p, e, post[p].terms, 0) /\ post' = post
  BY <1>2 DEF EditListing, EditRequest, db
<1>4. req'[h].post = p /\ req'[h].change = e /\ req'[h].read = post[p].terms
  BY <1>1, <1>3 DEF Accept, TypeOK
<1>5. RowOK(post[p])
  BY <1>1 DEF TypeOK
<1>6. CASE EditListing(h, p, e)
  <2>1. post[p].kind = "listing" /\ ValidListing(ApplyUpdate(post[p].terms, e))
    BY <1>6 DEF EditListing, OwnedListing
  <2>2. IsTerms(post[p].terms, ListingField)
    BY <1>5, <2>1 DEF RowOK, NoPost
  <2> QED BY <1>3, <1>4, <2>1, <2>2 DEF Validated
<1>7. CASE EditRequest(h, p, e)
  <2>1. post[p].kind = "request" /\ ValidRequest(ApplyRequestUpdate(post[p].terms, e))
    BY <1>7 DEF EditRequest, OwnedRequest
  <2>2. IsTerms(post[p].terms, RequestField)
    BY <1>5, <2>1 DEF RowOK, NoPost
  <2> QED BY <1>3, <1>4, <2>1, <2>2 DEF Validated
<1> QED BY <1>2, <1>6, <1>7

LEMMA InitRows == Init => RowsInv
<1> SUFFICES ASSUME Init PROVE RowsInv
  OBVIOUS
<1>1. PostsInv
  BY InitInv
<1>2. (\A h \in Handler : Validated(h)) /\ \A p \in Post : RowHolds(post[p], lives[p])
  BY DEF Init, Idle, NoPost, Validated, RowHolds
<1> QED BY <1>1, <1>2 DEF RowsInv

LEMMA NextRows == RowsInv /\ [Next]_vars => RowsInv'
<1> SUFFICES ASSUME RowsInv, [Next]_vars PROVE RowsInv'
  OBVIOUS
<1>0. PostsInv /\ PostsInv' /\ TypeOK /\ Grounded
  BY NextInv DEF RowsInv, PostsInv
\* A request that goes on is about a post of the same kind.
<1>1. ASSUME \A p \in Post : post[p] # NoPost => post'[p].kind = post[p].kind,
             NEW g \in Handler, req'[g] = req[g]
      PROVE  Validated(g)'
  <2> SUFFICES ASSUME req[g].op = "edit" PROVE Validated(g)'
    BY <1>1 DEF Validated
  <2>1. req[g] # Idle /\ Serving(g)
    BY DEF Idle, Serving
  <2>2. PICK p \in Post : p = req[g].post /\ post[p] # NoPost
    BY <1>0, <2>1 DEF TypeOK, RequestOK, Grounded
  <2>3. post'[p].kind = post[p].kind /\ Validated(g)
    BY <1>1, <2>2 DEF RowsInv
  <2> QED BY <1>1, <2>2, <2>3 DEF Validated
<1>2. ASSUME NEW x \in Post, NEW t \in Sheet, NEW status \in Status,
             CreateListing(x, t, status) \/ CreateRequest(x, t, status)
      PROVE  RowsInv'
  <2>1. \A p \in Post : RowHolds(post'[p], lives'[p]) /\ (post[p] # NoPost => post'[p].kind = post[p].kind)
    BY <1>2, CreateHolds
  <2>2. req' = req
    BY <1>2 DEF CreateListing, CreateRequest, Create
  <2> QED BY <1>0, <1>1, <2>1, <2>2 DEF RowsInv
<1>3. ASSUME NEW h \in Handler, Arrive(h) PROVE RowsInv'
  <2>1. UNCHANGED db /\ \A g \in Handler \ {h} : req'[g] = req[g]
    BY <1>0, <1>3, Begins DEF Accept, TypeOK
  <2>2. Validated(h)'
    BY <1>3, ArriveValidated DEF Validated
  <2>3. \A g \in Handler : Validated(g)'
    BY <1>1, <2>1, <2>2 DEF db
  <2> QED BY <1>0, <2>1, <2>3 DEF RowsInv, db
<1>4. ASSUME NEW h \in Handler, Serve(h) \/ Abandon(h) PROVE RowsInv'
  <2>1. Finish(h)
    BY <1>0, <1>4, Serves DEF Written, Abandon
  <2>2. \A p \in Post : post'[p].kind = post[p].kind /\ RowHolds(post'[p], lives'[p])
    BY <1>4, ServeHolds DEF Holding, Abandon, db, RowsInv
  <2>3. req'[h].op # "edit" /\ \A g \in Handler \ {h} : req'[g] = req[g]
    BY <1>0, <2>1 DEF Finish, Idle, TypeOK
  <2>4. \A g \in Handler : Validated(g)'
    BY <1>1, <2>2, <2>3 DEF Validated
  <2> QED BY <1>0, <2>2, <2>4 DEF RowsInv
<1>5. CASE UNCHANGED vars
  BY <1>0, <1>5 DEF RowsInv, Validated, vars
<1> QED BY <1>2, <1>3, <1>4, <1>5 DEF Next

\* Every reachable state satisfies the invariant.
THEOREM RowsInvariance == Spec => []RowsInv
BY InitRows, NextRows, PTL DEF Spec

\* Two edits, each validated against the row it read, leave no row that
\* validation would not accept, but for a studio's room number; and a request is
\* "stamped the first time" it goes live (000006_housing_requests).
THEOREM RowsAlwaysHold == Spec => []RowsHold
<1>1. RowsInv => RowsHold
  BY DEF RowsInv, RowHolds, RowsHold
<1> QED BY <1>1, RowsInvariance, PTL

-----------------------------------------------------------------------------
(* Edits land.                                                             *)

\* The parameters are what the edit applies, and where it ignores no null that is
\* all it names.
LEMMA ParamsSay ==
  ASSUME NEW t, NEW e \in Patch
  PROVE  /\ With(t, UpdateParams(e)) = Applied(t, e)
         /\ "stay" \notin DOMAIN t => With(t, RequestUpdateParams(e)) = Applied(t, e)
         /\ ~IgnoredNull(e) => /\ Applied(t, e) = ApplyUpdate(t, e)
                               /\ "stay" \notin DOMAIN t => Applied(t, e) = ApplyRequestUpdate(t, e)
<1> DEFINE m == MinStayChange(e)
           said == {f \in DOMAIN m : f = "stay" \/ m[f] # Null}
<1>1. /\ DOMAIN e \subseteq DOMAIN m
      /\ \A f \in DOMAIN m \ {"stay"} : f \in DOMAIN e /\ m[f] = e[f]
  BY DEF MinStayChange
<1> HIDE DEF m
<1>2. Applied(t, e) = [f \in DOMAIN t |-> IF f \in said THEN m[f] ELSE t[f]]
  BY DEF Applied, m
<1>3. With(t, UpdateParams(e)) = Applied(t, e)
  <2> DEFINE params == UpdateParams(e)
  <2>1. DOMAIN params = said /\ \A f \in said : params[f] = m[f]
    BY DEF UpdateParams, NonNull, m
  <2> HIDE DEF params, said
  <2>2. With(t, params) = [f \in DOMAIN t |-> IF f \in said THEN m[f] ELSE t[f]]
    BY <2>1 DEF With
  <2> QED BY <1>2, <2>2 DEF params
<1>4. ASSUME "stay" \notin DOMAIN t PROVE With(t, RequestUpdateParams(e)) = Applied(t, e)
  <2> DEFINE params == RequestUpdateParams(e)
  <2>1. \A f \in DOMAIN t : /\ f \in DOMAIN params <=> f \in said
                            /\ f \in said => params[f] = m[f]
    BY <1>1, <1>4 DEF RequestUpdateParams, NonNull
  <2> HIDE DEF params, said
  <2>2. With(t, params) = [f \in DOMAIN t |-> IF f \in said THEN m[f] ELSE t[f]]
    BY <2>1 DEF With
  <2> QED BY <1>2, <2>2 DEF params
<1>5. ASSUME ~IgnoredNull(e) PROVE Applied(t, e) = ApplyUpdate(t, e)
  <2>1. said = DOMAIN m
    BY <1>1, <1>5 DEF IgnoredNull
  <2> HIDE DEF said
  <2> QED BY <1>2, <2>1 DEF ApplyUpdate, With, m
<1>6. ASSUME ~IgnoredNull(e), "stay" \notin DOMAIN t PROVE Applied(t, e) = ApplyRequestUpdate(t, e)
  <2>1. \A f \in DOMAIN t : f \in DOMAIN m <=> f \in DOMAIN e
    BY <1>1, <1>6
  <2>2. With(t, m) = With(t, e)
    BY <1>1, <1>6, <2>1 DEF With
  <2> QED BY <1>5, <1>6, <2>2 DEF ApplyUpdate, ApplyRequestUpdate, m
<1> QED BY <1>3, <1>4, <1>5, <1>6

\* What an edit leaves of its post, when its constraints pass and when they do not.
Lands(p, e, read) ==
  LET before == post[p].terms
      after == post'[p].terms IN
  /\ after \in {before, Applied(before, e)}
  /\ before = read /\ ~IgnoredNull(e) => after = Promised(post[p], e)

LEMMA EditLands ==
  ASSUME RowsInv, NEW h \in Handler, EditListingUpdate(h) \/ EditRequestUpdate(h)
  PROVE  Lands(req[h].post, req[h].change, req[h].read)
<1>1. TypeOK /\ Grounded /\ Validated(h)
  BY DEF RowsInv, PostsInv
<1>2. PICK p \in Post, e \in Patch : p = req[h].post /\ e = req[h].change /\ req[h].op = "edit"
  <2>1. req[h].op = "edit" /\ req[h] # Idle
    BY DEF EditListingUpdate, EditRequestUpdate, Edit, Idle
  <2>2. req[h].post \in Post /\ req[h].change \in Patch
    BY <1>1, <2>1 DEF TypeOK, RequestOK, Change
  <2> QED BY <2>1, <2>2
<1>3. PICK read, t : read = req[h].read /\ t = post[p].terms
  OBVIOUS
<1>4. post[p].kind \in {"listing", "request"} /\ RowOK(post[p]) /\ post[p] # NoPost
  BY <1>1, <1>2 DEF EditListingUpdate, EditRequestUpdate, Edit, TypeOK, NoPost
<1>5. IsPatch(e)
  BY PostsAssumption
<1>6. ASSUME NEW u, post' = [post EXCEPT ![p].terms = u] PROVE post'[p].terms = u
  <2>1. post'[p] = [post[p] EXCEPT !.terms = u]
    BY <1>1, <1>2, <1>6 DEF TypeOK
  <2> QED BY <1>4, <2>1 DEF RowOK, NoPost
<1>7. ASSUME NEW checks, NEW u, u = Applied(t, e),
             post' = IF checks THEN [post EXCEPT ![p].terms = u] ELSE post
      PROVE  post'[p].terms \in {t, Applied(t, e)}
  BY <1>3, <1>6, <1>7
<1>8. CASE EditListingUpdate(h)
  <2>1. PICK u : u = With(t, UpdateParams(e))
    OBVIOUS
  <2>2. /\ post[p].kind = "listing"
        /\ post' = IF ChecksListing(u) THEN [post EXCEPT ![p].terms = u] ELSE post
    BY <1>2, <1>3, <1>8, <2>1 DEF EditListingUpdate, Edit, UpdateListing
  <2>3. u = Applied(t, e)
    BY <2>1, ParamsSay
  <2>4. ASSUME t = read, ~IgnoredNull(e) PROVE post'[p].terms = Promised(post[p], e)
    <3>1. u = ApplyUpdate(t, e)
      BY <2>3, <2>4, ParamsSay
    <3>2. ValidListing(u) /\ IsTerms(t, ListingField)
      BY <1>1, <1>2, <1>3, <2>2, <2>4, <3>1 DEF Validated
    <3>3. IsTerms(u, ListingField)
      BY <1>5, <3>1, <3>2, MinStayPatch, WithTerms DEF ApplyUpdate, Field
    <3>4. ChecksListing(u)
      BY <3>2, <3>3, ValidChecks
    <3>5. post'[p].terms = u
      BY <1>6, <2>2, <3>4
    <3> QED BY <1>3, <2>2, <3>1, <3>5 DEF Promised
  <2>5. post'[p].terms \in {t, Applied(t, e)}
    BY <1>7, <2>2, <2>3
  <2> QED BY <1>2, <1>3, <2>4, <2>5 DEF Lands
<1>9. CASE EditRequestUpdate(h)
  <2>1. PICK u : u = With(t, RequestUpdateParams(e))
    OBVIOUS
  <2>2. /\ post[p].kind = "request"
        /\ post' = IF ChecksRequest(u) THEN [post EXCEPT ![p].terms = u] ELSE post
    BY <1>2, <1>3, <1>9, <2>1 DEF EditRequestUpdate, Edit, UpdateRequest
  <2>3. "stay" \notin DOMAIN t
    <3>1. DOMAIN t = RequestField
      BY <1>3, <1>4, <2>2 DEF RowOK, IsTerms
    <3> QED BY <3>1 DEF RequestField
  <2>4. u = Applied(t, e)
    BY <2>1, <2>3, ParamsSay
  <2>5. ASSUME t = read, ~IgnoredNull(e) PROVE post'[p].terms = Promised(post[p], e)
    <3>1. ValidRequest(ApplyRequestUpdate(t, e)) /\ IsTerms(t, RequestField)
      BY <1>1, <1>2, <1>3, <2>2, <2>5 DEF Validated
    <3>2. u = ApplyRequestUpdate(t, e)
      BY <2>3, <2>4, <2>5, ParamsSay
    <3>3. IsTerms(u, RequestField)
      BY <1>5, <3>1, <3>2, WithTerms DEF ApplyRequestUpdate, Field
    <3>4. ChecksRequest(u)
      BY <3>1, <3>2, <3>3, ValidChecks
    <3>5. post'[p].terms = u
      BY <1>6, <2>2, <3>4
    <3> QED BY <1>3, <2>2, <3>2, <3>5 DEF Promised
  <2>6. post'[p].terms \in {t, Applied(t, e)}
    BY <1>7, <2>2, <2>4
  <2> QED BY <1>2, <1>3, <2>5, <2>6 DEF Lands
<1> QED BY <1>8, <1>9

\* Of what an edit names, all lands together, or nothing where a CHECK refuses the
\* row, but for the nulls that COALESCE ignores; the other columns keep what others
\* wrote; and unless another edit came first or a null is ignored, the row becomes
\* what was validated.
THEOREM EveryEditLands == Spec => EditsLand
<1> DEFINE Landing ==
      \A h \in Handler : EditListingUpdate(h) \/ EditRequestUpdate(h) =>
        LET p == req[h].post
            e == req[h].change
            before == post[p].terms
            after == post'[p].terms IN
        /\ after \in {before, Applied(before, e)}
        /\ before = req[h].read /\ ~IgnoredNull(e) => after = Promised(post[p], e)
<1>1. RowsInv /\ [Next]_vars => [Landing]_vars
  <2> SUFFICES ASSUME RowsInv PROVE Landing
    OBVIOUS
  <2> QED BY EditLands DEF Lands
<1> QED BY <1>1, RowsInvariance, PTL DEF Spec, EditsLand

===============================================================================
