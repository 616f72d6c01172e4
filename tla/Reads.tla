--------------------------------- MODULE Reads ---------------------------------
(***************************************************************************)
(* What the service shows: browsing and paging listings and requests, the  *)
(* month strip, the offers on a request, an owner's own posts, the inbox   *)
(* and the admin lists, over users, posts, offers and conversations that   *)
(* change meanwhile.  Each query is an operator of its own, with its own   *)
(* WHERE clause, as each is a text of its own in internal/db/sqlcgen.      *)
(*                                                                         *)
(* How rows come to change is the matter of Posts, Messaging and Accounts; *)
(* here each of their writes is one step.                                  *)
(***************************************************************************)
EXTENDS Integers, FiniteSets, SequencesExt

CONSTANTS
  Host, Student,  \* the owner of the listings; the poster, who also enquires
  Stranger,       \* another account, with no post and in no conversation
  Null,           \* SQL NULL, and a parameter left out
  MaxListings,    \* bound: listings, whose ids run in the order of created_at
  Terms,          \* what a listing may say
  Wishes,         \* what the housing request may say
  Talked,         \* bound: listings with a conversation
  MaxMessages,    \* bound: messages in one conversation
  Filters,        \* the query parameters of ListListings clients use
  Walked,         \* bound: those a client pages through
  Sizes,          \* the per_page they ask for
  defaultPerPage, maxPerPage,
  MaxChanges      \* bound: writes while one client walks the pages

User == {Host, Student}
Listing == 1..MaxListings

\* What a row may say, and what a client may ask: a column or a parameter has
\* its type or is missing.
Maybe(T) == T \cup {Null}
Term == [price : Int, bills : Maybe(Int), distance : Maybe(Int), start : Int, end : Int,
         furnished : Maybe(BOOLEAN), minStay : Maybe(Int)]
Filter == [sort : {"new", "priceAsc", "priceDesc", "distance", "allInAsc", "match"},
           start : Maybe(Int), end : Maybe(Int), priceMin : Maybe(Int), priceMax : Maybe(Int),
           distanceMax : Maybe(Int), furnished : Maybe(BOOLEAN), verifiedOnly : Maybe(BOOLEAN),
           allInMax : Maybe(Int)]

ASSUME ReadsAssumption ==
  /\ Null \notin Int /\ Null \notin BOOLEAN /\ Null \notin User
  /\ Null \notin {"published", "paused", "open", "closed", "owner", "enquirer"}
  /\ Host # Student /\ Stranger \notin User \cup {Null} /\ MaxListings \in Nat /\ Talked \subseteq Listing
  /\ MaxMessages \in Nat \ {0} /\ MaxChanges \in Nat
  /\ defaultPerPage \in 1..maxPerPage /\ maxPerPage \in Nat
  /\ Filters \subseteq Filter /\ Walked \subseteq Filters /\ Sizes \subseteq Maybe(Int)
  /\ Terms \subseteq Term /\ \A t \in Terms : t.start <= t.end

VARIABLES
  user,      \* verified, and suspended_at IS NOT NULL
  listing,   \* the listings
  request,   \* the one housing request
  offer,     \* its offers, by listing
  conv,      \* the student's conversations, by listing
  messages,  \* their messages, oldest first
  walk       \* a client that pages through ListListings

posts == <<listing, request, offer>>
talk == <<conv, messages>>
vars == <<user, listing, request, offer, conv, messages, walk>>

-----------------------------------------------------------------------------
(* Rows.  A status other than published is paused; furnished stands for the *)
(* columns a filter asks to be equal.  Dates are months.                    *)

Exists(row) == row.status # "none"

\* A read marker counts the messages written before it.
NoConv == [status |-> "none", shared |-> FALSE, read |-> [u \in User |-> 0]]

Listings == {l \in Listing : Exists(listing[l])}
Requests == {r \in {request} : Exists(r)}
Offers == {l \in Listing : offer[l] # "none"}
Conversations == {l \in Listing : Exists(conv[l])}

-----------------------------------------------------------------------------
(* The public reads of listings.                                            *)

\* A request without parameters.
Everything == [sort |-> "new", start |-> Null, end |-> Null, priceMin |-> Null, priceMax |-> Null,
               distanceMax |-> Null, furnished |-> Null, verifiedOnly |-> Null, allInMax |-> Null]

\* filtersFrom: an inverted window or price range is a 400.
Refused(f) ==
  \/ f.start # Null /\ f.end # Null /\ f.end < f.start
  \/ f.priceMin # Null /\ f.priceMax # Null /\ f.priceMax < f.priceMin

\* Mutant: the total counts what a moderator took down.
CountListings_removedToo(f) ==
  Cardinality({l \in Listings :
    LET row == listing[l]  t == row.terms IN
    /\ row.status = "published" /\ ~user[Host].suspended
    /\ f.start = Null \/ t.start <= f.start
    /\ f.end = Null \/ t.end >= f.end
    /\ f.priceMin = Null \/ t.price >= f.priceMin
    /\ f.priceMax = Null \/ t.price <= f.priceMax
    /\ f.distanceMax = Null \/ (t.distance # Null /\ t.distance <= f.distanceMax)
    /\ f.furnished = Null \/ t.furnished = f.furnished
    /\ f.verifiedOnly = TRUE => user[Host].verified
    /\ f.allInMax = Null \/ (t.bills # Null /\ t.price + t.bills <= f.allInMax)})

CountListings(f) ==
  Cardinality({l \in Listings :
    LET row == listing[l]  t == row.terms IN
    /\ row.status = "published" /\ ~user[Host].suspended /\ ~row.removed
    /\ f.start = Null \/ t.start <= f.start
    /\ f.end = Null \/ t.end >= f.end
    /\ f.priceMin = Null \/ t.price >= f.priceMin
    /\ f.priceMax = Null \/ t.price <= f.priceMax
    /\ f.distanceMax = Null \/ (t.distance # Null /\ t.distance <= f.distanceMax)
    /\ f.furnished = Null \/ t.furnished = f.furnished
    /\ f.verifiedOnly = TRUE => user[Host].verified
    /\ f.allInMax = Null \/ (t.bills # Null /\ t.price + t.bills <= f.allInMax)})

\* The rows of ListListings, before ORDER BY.
Selected(f) ==
  {l \in Listings :
    LET row == listing[l]  t == row.terms IN
    /\ row.status = "published" /\ ~user[Host].suspended /\ ~row.removed
    /\ f.start = Null \/ t.start <= f.start
    /\ f.end = Null \/ t.end >= f.end
    /\ f.priceMin = Null \/ t.price >= f.priceMin
    /\ f.priceMax = Null \/ t.price <= f.priceMax
    /\ f.distanceMax = Null \/ (t.distance # Null /\ t.distance <= f.distanceMax)
    /\ f.furnished = Null \/ t.furnished = f.furnished
    /\ f.verifiedOnly = TRUE => user[Host].verified
    /\ f.allInMax = Null \/ (t.bills # Null /\ t.price + t.bills <= f.allInMax)}

\* The columns of ORDER BY: ascending, NULL after every number.
Column(l, f) ==
  LET t == listing[l].terms
      takeable == \/ t.start = f.start /\ t.end = f.end
                  \/ t.minStay # Null /\ f.start + t.minStay - 1 <= f.end IN
  CASE f.sort = "priceAsc"  -> t.price
    [] f.sort = "priceDesc" -> -t.price
    [] f.sort = "distance"  -> t.distance
    [] f.sort = "allInAsc"  -> IF t.bills = Null THEN Null ELSE t.price + t.bills
    [] f.sort = "match" /\ f.start # Null /\ f.end # Null -> IF takeable THEN 0 ELSE 1
    [] OTHER -> Null

Before(k, l, f) ==
  LET a == Column(k, f)  b == Column(l, f) IN
  IF a = b THEN k > l ELSE b = Null \/ (a # Null /\ a < b)

\* LIMIT and OFFSET.
Window(rows, limit, offset) == SubSeq(rows, offset + 1, Min({offset + limit, Len(rows)}))

\* ORDER BY: at each place the row before which that many others come.
InOrder(rows, before) ==
  [i \in 1..Cardinality(rows) |->
     CHOOSE l \in rows : Cardinality({k \in rows : <<k, l>> \in before}) = i - 1]

Ranked(f) ==
  LET rows == Selected(f) IN InOrder(rows, {p \in rows \X rows : Before(p[1], p[2], f)})
ListListings(f, limit, offset) == Window(Ranked(f), limit, offset)

GetPublishedListing(l) ==
  Exists(listing[l]) /\ listing[l].status = "published" /\ ~user[Host].suspended /\ ~listing[l].removed

\* ListingAvailabilityByMonth, which takes no window and no order.
ListingAvailabilityByMonth(f, month) ==
  Cardinality({l \in Listings :
    LET row == listing[l]  t == row.terms IN
    /\ row.status = "published" /\ ~user[Host].suspended /\ ~row.removed
    /\ f.priceMin = Null \/ t.price >= f.priceMin
    /\ f.priceMax = Null \/ t.price <= f.priceMax
    /\ f.distanceMax = Null \/ (t.distance # Null /\ t.distance <= f.distanceMax)
    /\ f.furnished = Null \/ t.furnished = f.furnished
    /\ f.verifiedOnly = TRUE => user[Host].verified
    /\ f.allInMax = Null \/ (t.bills # Null /\ t.price + t.bills <= f.allInMax)
    /\ t.start <= month /\ t.end >= month})

\* GetListingAvailability: an entry of the strip, or a 400.
GetListingAvailability(f, month) ==
  IF f.priceMin # Null /\ f.priceMax # Null /\ f.priceMax < f.priceMin
  THEN Null ELSE ListingAvailabilityByMonth(f, month)

-----------------------------------------------------------------------------
(* Pages.                                                                   *)

\* paginationFrom, for the size; pages start at 1.
PerPage(size) == IF size = Null \/ size < 1 THEN defaultPerPage ELSE Min({size, maxPerPage})

\* Mutant: the offset of the page after.
Offset_next(page, perPage) == page * perPage

Offset(page, perPage) == (page - 1) * perPage

\* Mutant: the division rounds down.
TotalPages_floor(total, perPage) == total \div perPage

\* pageMeta.
TotalPages(total, perPage) == (total + perPage - 1) \div perPage

-----------------------------------------------------------------------------
(* The public reads of requests, and the offers on one.                     *)

\* requestFiltersFrom: an inverted window or budget range is a 400.
RefusedOfRequests(f) ==
  \/ f.start # Null /\ f.end # Null /\ f.end < f.start
  \/ f.priceMin # Null /\ f.priceMax # Null /\ f.priceMax < f.priceMin

\* Asked of a request is what an owner has to offer: budget at least this rent,
\* a radius that reaches this far, this window.
CountRequests(f) ==
  Cardinality({r \in Requests :
    /\ r.status = "published" /\ ~user[Student].suspended /\ ~r.removed
    /\ f.start = Null \/ r.wish.start <= f.start
    /\ f.end = Null \/ r.wish.end >= f.end
    /\ f.priceMin = Null \/ r.wish.budget >= f.priceMin
    /\ f.priceMax = Null \/ r.wish.budget <= f.priceMax
    /\ f.distanceMax = Null \/ r.wish.maxDistance = Null \/ r.wish.maxDistance >= f.distanceMax
    /\ f.furnished = Null \/ r.wish.furnished = f.furnished
    /\ f.verifiedOnly = TRUE => user[Student].verified})

ListRequests(f) ==
  {r \in Requests :
    /\ r.status = "published" /\ ~user[Student].suspended /\ ~r.removed
    /\ f.start = Null \/ r.wish.start <= f.start
    /\ f.end = Null \/ r.wish.end >= f.end
    /\ f.priceMin = Null \/ r.wish.budget >= f.priceMin
    /\ f.priceMax = Null \/ r.wish.budget <= f.priceMax
    /\ f.distanceMax = Null \/ r.wish.maxDistance = Null \/ r.wish.maxDistance >= f.distanceMax
    /\ f.furnished = Null \/ r.wish.furnished = f.furnished
    /\ f.verifiedOnly = TRUE => user[Student].verified}

\* The offer_count of ListRequests,
BrowseOfferCount ==
  Cardinality({l \in Offers : /\ offer[l] = "live" /\ listing[l].status = "published"
                              /\ ~listing[l].removed /\ ~user[Host].suspended})

\* of GetPublishedRequest,
GetPublishedRequest ==
  {r \in Requests : r.status = "published" /\ ~user[Student].suspended /\ ~r.removed}
PublishedOfferCount ==
  Cardinality({l \in Offers : /\ offer[l] = "live" /\ listing[l].status = "published"
                              /\ ~listing[l].removed /\ ~user[Host].suspended})

\* of ListRequestsByPoster,
ListRequestsByPoster(u) == IF u = Student THEN Requests ELSE {}
PosterOfferCount ==
  Cardinality({l \in Offers : /\ offer[l] = "live" /\ listing[l].status = "published"
                              /\ ~listing[l].removed /\ ~user[Host].suspended})

\* and of ListRequestsForAdmin.
AdminOfferCount ==
  Cardinality({l \in Offers : /\ offer[l] = "live" /\ listing[l].status = "published"
                              /\ ~listing[l].removed /\ ~user[Host].suspended})

CountOffersForRequest ==
  Cardinality({l \in Offers : /\ offer[l] = "live" /\ listing[l].status = "published"
                              /\ ~listing[l].removed /\ ~user[Host].suspended})

\* Mutant: an offer outlives its owner's suspension.
ListOffersForRequest_suspendedToo ==
  {l \in Offers : offer[l] = "live" /\ listing[l].status = "published" /\ ~listing[l].removed}

ListOffersForRequest ==
  {l \in Offers : /\ offer[l] = "live" /\ listing[l].status = "published" /\ ~listing[l].removed
                  /\ ~user[Host].suspended}

\* ListOffers: the poster sees every offer, an owner only theirs, anyone else none.
ListOffers(u) == IF u \in {Student, Host} THEN ListOffersForRequest ELSE {}

-----------------------------------------------------------------------------
(* An owner's own posts, and the admin lists.                               *)

ListListingsByOwner(u) == IF u = Host THEN Listings ELSE {}
ListOffersByOwner(u) == IF u = Host THEN Offers ELSE {}

CountListingsForAdmin(status, removed, owner) ==
  Cardinality({l \in Listings : /\ status = Null \/ listing[l].status = status
                                /\ removed = Null \/ listing[l].removed = removed
                                /\ owner = Null \/ owner = Host})
ListListingsForAdmin(status, removed, owner) ==
  {l \in Listings : /\ status = Null \/ listing[l].status = status
                    /\ removed = Null \/ listing[l].removed = removed
                    /\ owner = Null \/ owner = Host}

CountRequestsForAdmin(status, removed, owner) ==
  Cardinality({r \in Requests : /\ status = Null \/ r.status = status
                                /\ removed = Null \/ r.removed = removed
                                /\ owner = Null \/ owner = Student})
ListRequestsForAdmin(status, removed, owner) ==
  {r \in Requests : /\ status = Null \/ r.status = status
                    /\ removed = Null \/ r.removed = removed
                    /\ owner = Null \/ owner = Student}

CountUsersForAdmin(verified, suspended) ==
  Cardinality({u \in User : /\ verified = Null \/ user[u].verified = verified
                            /\ suspended = Null \/ user[u].suspended = suspended})
ListUsersForAdmin(verified, suspended) ==
  {u \in User : /\ verified = Null \/ user[u].verified = verified
                /\ suspended = Null \/ user[u].suspended = suspended}

\* The counts of one account.
GetUserForAdmin(u) ==
  [listings |-> IF u = Host THEN Cardinality(Listings) ELSE 0,
   requests |-> IF u = Student THEN Cardinality(Requests) ELSE 0,
   offers   |-> IF u = Host THEN Cardinality(Offers) ELSE 0]

AdminOverviewCounts ==
  [verified  |-> Cardinality({u \in User : user[u].verified}),
   suspended |-> Cardinality({u \in User : user[u].suspended}),
   listings  |-> <<Cardinality(Listings), Cardinality({l \in Listings : listing[l].status = "published"})>>,
   requests  |-> <<Cardinality(Requests), Cardinality({r \in Requests : r.status = "published"})>>]

-----------------------------------------------------------------------------
(* The inbox.  Both sides of a conversation are its only readers.           *)

Participant(u) == u \in {Host, Student}

\* GetConversationForParticipant: what u sees of the conversation about l, or
\* none; the place is there only by the join that reveals it.
GetConversationForParticipant(u, l) ==
  LET c == conv[l]
      other == IF u = Host THEN Student ELSE Host IN
  [listingAvailable     |-> /\ listing[l].status = "published" /\ ~listing[l].removed
                            /\ ~user[Host].suspended,
   listingRemoved       |-> listing[l].removed,
   counterpartSuspended |-> user[other].suspended,
   closed               |-> c.status = "closed",
   place                |-> c.shared /\ ~listing[l].removed /\ ~user[Host].suspended,
   unread               |-> Cardinality({m \in DOMAIN messages[l] :
                                           messages[l][m] # u /\ m > c.read[u]})]

\* Mutant: the inbox reveals the place whatever moderation says.
ListConversationsForUser_revealing(u, status, side) ==
  {[about |-> l,
    place |-> conv[l].shared,
    unread |-> Cardinality({m \in DOMAIN messages[l] : messages[l][m] # u /\ m > conv[l].read[u]})] :
   l \in {k \in Conversations : /\ Participant(u)
                                /\ status = Null \/ (status = "open") = (conv[k].status = "open")
                                /\ side = Null \/ (side = "owner") = (u = Host)}}

ListConversationsForUser(u, status, side) ==
  {[about |-> l,
    place |-> conv[l].shared /\ ~listing[l].removed /\ ~user[Host].suspended,
    unread |-> Cardinality({m \in DOMAIN messages[l] : messages[l][m] # u /\ m > conv[l].read[u]})] :
   l \in {k \in Conversations : /\ Participant(u)
                                /\ status = Null \/ (status = "open") = (conv[k].status = "open")
                                /\ side = Null \/ (side = "owner") = (u = Host)}}

CountConversationsForUser(u, status, side) ==
  Cardinality({k \in Conversations : /\ Participant(u)
                                     /\ status = Null \/ (status = "open") = (conv[k].status = "open")
                                     /\ side = Null \/ (side = "owner") = (u = Host)})

\* Mutant: the badge leaves out the closed ones.
UnreadCountsForUser_open(u) ==
  LET unread == {x \in Conversations \X (1..MaxMessages) :
                   /\ conv[x[1]].status = "open" /\ x[2] \in DOMAIN messages[x[1]]
                   /\ messages[x[1]][x[2]] # u /\ x[2] > conv[x[1]].read[u]} IN
  [conversations |-> Cardinality({x[1] : x \in unread}), messages |-> Cardinality(unread)]

UnreadCountsForUser(u) ==
  LET unread == {x \in Conversations \X (1..MaxMessages) :
                   /\ x[2] \in DOMAIN messages[x[1]]
                   /\ messages[x[1]][x[2]] # u /\ x[2] > conv[x[1]].read[u]} IN
  [conversations |-> Cardinality({x[1] : x \in unread}), messages |-> Cardinality(unread)]

CountMessages(l) == Len(messages[l])
ListMessages(l, limit, offset) == Window(Reverse(messages[l]), limit, offset)

\* sendRefusal and shareRefusal, and what toConversation reports of them.
SendRefusal(c) == c.closed \/ c.counterpartSuspended \/ c.listingRemoved
ShareRefusal(c) == c.closed \/ c.counterpartSuspended \/ c.listingRemoved \/ ~c.listingAvailable

CanSend(u, l) == user[u].verified /\ ~SendRefusal(GetConversationForParticipant(u, l))
CanShareAddress(u, l) ==
  /\ user[u].verified /\ u = Host /\ ~conv[l].shared
  /\ ~ShareRefusal(GetConversationForParticipant(u, l))

-----------------------------------------------------------------------------
(* The paged answers: a page of the rows, newest first, and the page_meta.   *)

Answer(rows, total, page, size) ==
  LET perPage == PerPage(size) IN
  [data |-> Window(rows, perPage, Offset(page, perPage)),
   total |-> total, pages |-> TotalPages(total, perPage)]

Newest(ids) == InOrder(ids, {p \in ids \X ids : p[1] > p[2]})

\* A 400 shows no rows.
NoAnswer == [data |-> <<>>, total |-> 0, pages |-> 0]

ListListingsResponse(f, page, size) ==
  IF Refused(f) THEN NoAnswer ELSE Answer(Ranked(f), CountListings(f), page, size)
ListRequestsResponse(f, page, size) ==
  IF RefusedOfRequests(f) THEN NoAnswer
  ELSE Answer(SetToSeq(ListRequests(f)), CountRequests(f), page, size)
ListAdminListings(status, removed, owner, page, size) ==
  Answer(Newest(ListListingsForAdmin(status, removed, owner)),
         CountListingsForAdmin(status, removed, owner), page, size)
ListAdminRequests(status, removed, owner, page, size) ==
  Answer(SetToSeq(ListRequestsForAdmin(status, removed, owner)),
         CountRequestsForAdmin(status, removed, owner), page, size)
ListAdminUsers(verified, suspended, page, size) ==
  Answer(SetToSeq(ListUsersForAdmin(verified, suspended)),
         CountUsersForAdmin(verified, suspended), page, size)
ListMyConversations(u, status, side, page, size) ==
  Answer(SetToSeq(ListConversationsForUser(u, status, side)),
         CountConversationsForUser(u, status, side), page, size)
ListMessagesResponse(l, page, size) == Answer(Reverse(messages[l]), CountMessages(l), page, size)

-----------------------------------------------------------------------------
(* The exact address: which listings each response carries it of, by the     *)
(* flag its toListing is called with and the place its toConversation sets.  *)

toListing(ids, exact) == IF exact THEN ids ELSE {}

BrowseAddresses == toListing(Selected(Everything), FALSE)
GetAddresses == toListing({l \in Listing : GetPublishedListing(l)}, FALSE)
OfferAddresses(u) == toListing(ListOffers(u), FALSE)
OfferAnswerAddresses(u) == toListing(ListOffersByOwner(u), FALSE)
MyListingAddresses(u) == toListing(ListListingsByOwner(u), TRUE)
ConversationAddresses(u) ==
  {l \in Conversations : Participant(u) /\ GetConversationForParticipant(u, l).place}
InboxAddresses(u) == {c.about : c \in {d \in ListConversationsForUser(u, Null, Null) : d.place}}

\* The answers of the owner's own writes, past ownedListing.
OwnWriteAddresses(u) == toListing({l \in Listings : u = Host /\ ~listing[l].removed}, TRUE)

\* The admin surface, past requireAdmin: the list, and the answers of a
\* takedown and of a restoration.
AdminListAddresses(admin) ==
  toListing({l \in ListListingsForAdmin(Null, Null, Null) : admin}, TRUE)
AdminAnswerAddresses(admin) == toListing({l \in Listings : admin}, TRUE)

\* Everywhere an address may come out, to the account u whose access token
\* carries the admin role or does not.
AddressesSeen(u, admin) ==
  UNION {BrowseAddresses, GetAddresses, OfferAddresses(u), OfferAnswerAddresses(u),
         MyListingAddresses(u), OwnWriteAddresses(u), AdminListAddresses(admin),
         AdminAnswerAddresses(admin), ConversationAddresses(u), InboxAddresses(u)}

-----------------------------------------------------------------------------
(* The writes, while a client may be walking the pages.  The walk looks at   *)
(* listings alone, and conversations are looked at apart from requests.      *)

Walking == walk.pc # "idle"

\* The history of a walk: what came into its selection and what left it since
\* it began, an edited row doing both, and whether something came in between a
\* count and its list.
Watched ==
  IF walk.pc \notin {"count", "list"} THEN UNCHANGED walk
  ELSE \E f \in {walk.filter} :
    LET before == Selected(f)
        after == Selected(f)'
        edited == {l \in before \cap after : listing'[l].terms # listing[l].terms} IN
    walk' = [walk EXCEPT !.entered = @ \cup (after \ before) \cup edited,
                         !.left    = @ \cup (before \ after) \cup edited,
                         !.raced   = @ \/ (walk.pc = "list" /\ ~(after \subseteq before)),
                         !.changes = @ + 1]

Quiet == Walking => walk.changes < MaxChanges
Write == Quiet /\ Watched

CreateListing(l, t) ==
  /\ ~Exists(listing[l]) /\ \A k \in 1..(l - 1) : Exists(listing[k])
  /\ Conversations = {}
  /\ listing' = [listing EXCEPT ![l] = [status |-> "published", removed |-> FALSE, terms |-> t]]
  /\ UNCHANGED <<user, request, offer, talk>> /\ Write

SetListingStatus(l) ==
  /\ Exists(listing[l]) /\ ~listing[l].removed
  /\ listing' = [listing EXCEPT ![l].status = IF @ = "published" THEN "paused" ELSE "published"]
  /\ UNCHANGED <<user, request, offer, talk>> /\ Write

UpdateListing(l, t) ==
  /\ Exists(listing[l]) /\ ~listing[l].removed /\ t # listing[l].terms
  /\ Conversations = {} /\ Requests = {}
  /\ listing' = [listing EXCEPT ![l].terms = t]
  /\ UNCHANGED <<user, request, offer, talk>> /\ Write

ModerateListing(l) ==
  /\ Exists(listing[l])
  /\ listing' = [listing EXCEPT ![l].removed = ~@]
  /\ UNCHANGED <<user, request, offer, talk>> /\ Write

Suspend(u) ==
  /\ user' = [user EXCEPT ![u].suspended = ~@]
  /\ UNCHANGED <<posts, talk>> /\ Write

Verify(u) ==
  /\ ~user[u].verified /\ user' = [user EXCEPT ![u].verified = TRUE]
  /\ UNCHANGED <<posts, talk>> /\ Write

\* The housing request and its offers.
CreateRequest(w) ==
  /\ ~Walking /\ Conversations = {} /\ ~Exists(request)
  /\ request' = [status |-> "published", removed |-> FALSE, wish |-> w]
  /\ UNCHANGED <<user, listing, offer, talk, walk>>

ChangeRequest ==
  /\ Exists(request)
  /\ \/ ~request.removed /\ request' = [request EXCEPT !.status = IF @ = "published" THEN "paused" ELSE "published"]
     \/ request' = [request EXCEPT !.removed = ~@]
  /\ UNCHANGED <<user, listing, offer, talk, walk>>

CreateOffer(l) ==
  /\ GetPublishedRequest # {} /\ user[Host].verified
  /\ offer[l] = "none" /\ GetPublishedListing(l)
  /\ offer' = [offer EXCEPT ![l] = "live"]
  /\ UNCHANGED <<user, listing, request, talk, walk>>

WithdrawOffer(l) ==
  /\ offer[l] = "live" /\ offer' = [offer EXCEPT ![l] = "withdrawn"]
  /\ UNCHANGED <<user, listing, request, talk, walk>>

\* A conversation, its messages, its closing and its shared address.
Start(l) ==
  /\ ~Walking /\ ~Exists(request)
  /\ conv[l].status = "none" /\ GetPublishedListing(l) /\ user[Student].verified
  /\ conv' = [conv EXCEPT ![l].status = "open"]
  /\ messages' = [messages EXCEPT ![l] = <<Student>>]
  /\ UNCHANGED <<user, posts, walk>>

Send(u, l) ==
  /\ Exists(conv[l]) /\ CanSend(u, l) /\ Len(messages[l]) < MaxMessages
  /\ messages' = [messages EXCEPT ![l] = Append(@, u)]
  /\ UNCHANGED <<user, posts, conv, walk>>

Close(l) ==
  /\ conv[l].status = "open" /\ conv' = [conv EXCEPT ![l].status = "closed"]
  /\ UNCHANGED <<user, posts, messages, walk>>

Share(l) ==
  /\ Exists(conv[l]) /\ CanShareAddress(Host, l)
  /\ conv' = [conv EXCEPT ![l].shared = TRUE]
  /\ UNCHANGED <<user, posts, messages, walk>>

\* Mutant: the marker is set past the newest message.
MarkConversationRead_past(u, l) ==
  /\ Exists(conv[l]) /\ conv' = [conv EXCEPT ![l].read[u] = Len(messages[l]) + 1]
  /\ UNCHANGED <<user, posts, messages, walk>>

MarkConversationRead(u, l) ==
  /\ Exists(conv[l]) /\ conv' = [conv EXCEPT ![l].read[u] = Len(messages[l])]
  /\ UNCHANGED <<user, posts, messages, walk>>

-----------------------------------------------------------------------------
(* A client walks the pages: count, then list, and on to the next page while *)
(* page_meta says there is one.                                              *)

NoWalk == [pc |-> "idle", filter |-> Everything, perPage |-> 1, page |-> 1, total |-> 0, seen |-> <<>>,
           first |-> {}, entered |-> {}, left |-> {}, raced |-> FALSE, changes |-> 0]

StartWalk(f, size) ==
  /\ ~Walking /\ ~Refused(f) /\ Requests = {} /\ Conversations = {}
  /\ walk' = [NoWalk EXCEPT !.pc = "count", !.filter = f, !.perPage = PerPage(size),
                            !.first = Selected(f)]
  /\ UNCHANGED <<user, posts, talk>>

WalkCount ==
  /\ walk.pc = "count"
  /\ walk' = [walk EXCEPT !.pc = "list", !.total = CountListings(walk.filter), !.raced = FALSE]
  /\ UNCHANGED <<user, posts, talk>>

WalkList ==
  /\ walk.pc = "list"
  /\ LET rows == ListListings(walk.filter, walk.perPage, Offset(walk.page, walk.perPage))
         more == walk.page < TotalPages(walk.total, walk.perPage) IN
     walk' = [walk EXCEPT !.pc = IF more THEN "count" ELSE "done",
                          !.page = IF more THEN @ + 1 ELSE @, !.seen = @ \o rows]
  /\ UNCHANGED <<user, posts, talk>>

EndWalk ==
  /\ walk.pc = "done" /\ walk' = NoWalk
  /\ UNCHANGED <<user, posts, talk>>

-----------------------------------------------------------------------------
NoPost == [status |-> "none", removed |-> FALSE]

Init ==
  /\ user = [u \in User |-> [verified |-> u = Student, suspended |-> FALSE]]
  /\ listing = [l \in Listing |-> NoPost]
  /\ request = NoPost
  /\ offer = [l \in Listing |-> "none"]
  /\ conv = [l \in Listing |-> NoConv]
  /\ messages = [l \in Listing |-> <<>>]
  /\ walk = NoWalk

Next ==
  \/ \E l \in Listing :
       \/ \E t \in Terms : CreateListing(l, t) \/ UpdateListing(l, t)
       \/ SetListingStatus(l) \/ ModerateListing(l)
       \/ CreateOffer(l) \/ WithdrawOffer(l)
  \/ \E l \in Talked :
       \/ Start(l) \/ Close(l) \/ Share(l)
       \/ \E u \in User : Send(u, l) \/ MarkConversationRead(u, l)
  \/ \E u \in User : Suspend(u) \/ Verify(u)
  \/ (\E w \in Wishes : CreateRequest(w)) \/ ChangeRequest
  \/ (\E f \in Walked, size \in Sizes : StartWalk(f, size))
  \/ WalkCount \/ WalkList \/ EndWalk

Spec == Init /\ [][Next]_vars

================================================================================
