---------------------------- MODULE ReadsProperties ----------------------------
(***************************************************************************)
(* What Reads must guarantee: the reads agree with one another, the pages  *)
(* add up, and the exact address goes where its owner sent it.             *)
(***************************************************************************)
EXTENDS Reads

PostsOK ==
  /\ user \in [User -> [verified : BOOLEAN, suspended : BOOLEAN]]
  /\ DOMAIN listing = Listing
  /\ \A l \in Listing :
       listing[l] \in [status : {"published", "paused"}, removed : BOOLEAN, terms : Terms] \cup {NoPost}
  /\ request \in [status : {"published", "paused"}, removed : BOOLEAN, wish : Wishes] \cup {NoPost}
  /\ offer \in [Listing -> {"none", "live", "withdrawn"}]

TalkOK ==
  /\ conv \in [Listing -> [status : {"none", "open", "closed"}, shared : BOOLEAN, read : [User -> Nat]]]
  /\ messages \in [Listing -> Seq(User)]
  /\ \A l \in Listing : /\ Exists(conv[l]) => Exists(listing[l])
                        /\ ~Exists(conv[l]) => messages[l] = <<>>
                        /\ Len(messages[l]) <= MaxMessages
                        /\ \A u \in User : conv[l].read[u] <= Len(messages[l])

Walk ==
  [pc : {"idle", "count", "list", "done"}, filter : Filters \cup {Everything},
   perPage : 1..maxPerPage, page : Nat \ {0}, total : Nat, seen : Seq(Listing),
   first : SUBSET Listing, entered : SUBSET Listing, left : SUBSET Listing,
   raced : BOOLEAN, changes : Nat]
WalkOK == walk \in Walk

\* The shape of the rows and of a walk: what was never posted says nothing, a
\* conversation is about a listing there is, a marker counts messages that are
\* there, and pages have rows.
TypeOK == PostsOK /\ TalkOK /\ WalkOK

\* "In the SQL, not the handler, so no read path can forget it" (ListListings):
\* each read with a WHERE clause of its own agrees on what is in public view -
\* the browse, the listing's page, the month strip, the offers on a request and
\* the conversation about it - and likewise for the housing request.  The month
\* strip has "the browse's filters except the date window": what a window inside
\* a month finds is open in that month.
ReadsAgree ==
  /\ Selected(Everything) = {l \in Listing : GetPublishedListing(l)}
  /\ \A l \in Listings : \A month \in {listing[l].terms.start, listing[l].terms.end} :
       GetPublishedListing(l) => GetListingAvailability(Everything, month) > 0
  /\ \A f \in Filters : \A month \in {f.start, f.end} \ {Null} :
       f.start = f.end /\ ~Refused(f) => CountListings(f) <= GetListingAvailability(f, month)
  /\ ListOffersForRequest = {l \in Offers : offer[l] = "live" /\ GetPublishedListing(l)}
  /\ \A u \in User : \A l \in Conversations :
       GetConversationForParticipant(u, l).listingAvailable = GetPublishedListing(l)
  /\ ListRequests(Everything) = GetPublishedRequest

\* The admin's numbers are about everything there is, in view or not: the
\* overview, the admin's lists, an account's counts and its owner's own lists
\* tell the same, and a takedown moves a post from one list to the other.
AdminSeesAll ==
  LET o == AdminOverviewCounts IN
  /\ o.verified = CountUsersForAdmin(TRUE, Null) /\ o.suspended = CountUsersForAdmin(Null, TRUE)
  /\ o.listings = <<CountListingsForAdmin(Null, Null, Null), CountListingsForAdmin("published", Null, Null)>>
  /\ o.requests = <<CountRequestsForAdmin(Null, Null, Null), CountRequestsForAdmin("published", Null, Null)>>
  /\ CountListingsForAdmin(Null, TRUE, Null) + CountListingsForAdmin(Null, FALSE, Null) = o.listings[1]
  /\ \A u \in User : /\ ListListingsForAdmin(Null, Null, u) = ListListingsByOwner(u)
                     /\ GetUserForAdmin(u).listings = Cardinality(ListListingsByOwner(u))
                     /\ GetUserForAdmin(u).requests = Cardinality(ListRequestsByPoster(u))
                     /\ GetUserForAdmin(u).offers = Cardinality(ListOffersByOwner(u))

\* "The count applies the same filters, so the total is the number to show":
\* every total is the number of rows its list has, under any filter, every offer
\* count the number of offers the poster is shown, and the admin's numbers add up.
CountsAgree ==
  /\ AdminSeesAll
  /\ \A f \in Filters : /\ CountListings(f) = Cardinality(Selected(f))
                        /\ CountRequests(f) = Cardinality(ListRequests(f))
  /\ {BrowseOfferCount, PublishedOfferCount, PosterOfferCount, AdminOfferCount, CountOffersForRequest}
       = {Cardinality(ListOffers(Student))}
  /\ \A removed \in {Null, TRUE, FALSE} : \A status \in {Null, "published", "paused"} :
       \A owner \in User \cup {Null} :
         /\ CountListingsForAdmin(status, removed, owner)
              = Cardinality(ListListingsForAdmin(status, removed, owner))
         /\ CountRequestsForAdmin(status, removed, owner)
              = Cardinality(ListRequestsForAdmin(status, removed, owner))
  /\ \A verified, suspended \in {Null, TRUE, FALSE} :
       CountUsersForAdmin(verified, suspended) = Cardinality(ListUsersForAdmin(verified, suspended))

\* The pages an answer says there are, and their places.
Page == Nat \ {0}
Places(answer) == {x \in (1..answer[1].pages) \X (1..maxPerPage) : x[2] <= Len(answer[x[1]].data)}
Shown(answer, x) == answer[x[1]].data[x[2]]
UpTo(places, x) == {y \in places : y[1] < x[1] \/ (y[1] = x[1] /\ y[2] <= x[2])}

\* As many pages as page_meta says show the rows it says, none is empty, and the
\* page after them is.
Filled(answer, places) ==
  /\ Cardinality(places) = answer[1].total
  /\ \A page \in 1..answer[1].pages : <<page, 1>> \in places
  /\ answer[answer[1].pages + 1].data = <<>>

\* They show all the rows, and as many rows as there are: each at one place,
Tiles(answer, rows) ==
  LET places == Places(answer) IN
  /\ Filled(answer, places) /\ Cardinality(places) = Cardinality(rows)
  /\ {Shown(answer, x) : x \in places} = rows

\* or are, one after the other, a list.
Spells(answer, list) ==
  LET places == Places(answer) IN
  /\ Filled(answer, places) /\ Cardinality(places) = Len(list)
  /\ \A x \in places : Shown(answer, x) = list[Cardinality(UpTo(places, x))]

\* While nothing changes, paging to the end shows every row once: the rounding
\* of total_pages, the offset and the clamped size fit, in every paged answer.
\* (Any walk can end, so the states without one are all there is to look at.)
PagesTile ==
  ~Walking => \A size \in Sizes :
    /\ \A f \in Filters :
         /\ Tiles([page \in Page |-> ListListingsResponse(f, page, size)],
                  IF Refused(f) THEN {} ELSE Selected(f))
         /\ Tiles([page \in Page |-> ListRequestsResponse(f, page, size)],
                  IF RefusedOfRequests(f) THEN {} ELSE ListRequests(f))
    /\ \A removed \in {Null, TRUE} :
         /\ Tiles([page \in Page |-> ListAdminListings(Null, removed, Null, page, size)],
                  ListListingsForAdmin(Null, removed, Null))
         /\ Tiles([page \in Page |-> ListAdminRequests(Null, removed, Null, page, size)],
                  ListRequestsForAdmin(Null, removed, Null))
    /\ Tiles([page \in Page |-> ListAdminUsers(Null, Null, page, size)], User)
    /\ \A u \in User : Tiles([page \in Page |-> ListMyConversations(u, Null, Null, page, size)],
                             ListConversationsForUser(u, Null, Null))
    /\ \A l \in Conversations :
         Spells([page \in Page |-> ListMessagesResponse(l, page, size)], Reverse(messages[l]))

\* A client that pages to the end, as page_meta leads it, misses a listing only
\* if one left the selection, or came in between the last count and its list,
\* and is shown one twice only if one came in.
WalkFair ==
  walk.pc = "done" =>
    /\ walk.left = {} /\ ~walk.raced => walk.first \subseteq ToSet(walk.seen)
    /\ walk.entered = {} => Cardinality(ToSet(walk.seen)) = Len(walk.seen)

\* The badge, the inbox, the conversation and its messages tell the same unread
\* messages, closed conversations included, and the filters part the inbox.
InboxAgrees ==
  \A u \in User :
    LET inbox == ListConversationsForUser(u, Null, Null)
        waiting == {c \in inbox : c.unread > 0} IN
    /\ UnreadCountsForUser(u).conversations = Cardinality(waiting)
    /\ UnreadCountsForUser(u).messages = Cardinality({x \in waiting \X (1..MaxMessages) : x[2] <= x[1].unread})
    /\ \A c \in inbox : /\ GetConversationForParticipant(u, c.about).unread = c.unread
                        /\ c.unread <= CountMessages(c.about)
                        /\ Len(ListMessages(c.about, MaxMessages, 0)) = CountMessages(c.about)
    /\ inbox = ListConversationsForUser(u, "open", Null) \cup ListConversationsForUser(u, "closed", Null)
    /\ inbox = ListConversationsForUser(u, Null, "owner") \cup ListConversationsForUser(u, Null, "enquirer")
    /\ \A status \in {Null, "open", "closed"} : \A side \in {Null, "owner", "enquirer"} :
         CountConversationsForUser(u, status, side) = Cardinality(ListConversationsForUser(u, status, side))

\* "Only the owner's own reads and the admin surface pass true; every public
\* read passes false": over every call of toListing and of toConversation, an
\* address comes out to an admin, to the listing's owner, and to the student it
\* was shared with, in the inbox as in the conversation, for as long as neither
\* a takedown nor the owner's suspension withholds it; to no one else.
AddressStaysPrivate ==
  /\ \A u \in User \cup {Stranger} : AddressesSeen(u, TRUE) = Listings
  /\ AddressesSeen(Host, FALSE) = Listings
  /\ AddressesSeen(Student, FALSE) = {l \in Conversations : /\ conv[l].shared /\ ~listing[l].removed
                                                            /\ ~user[Host].suspended}
  /\ AddressesSeen(Stranger, FALSE) = {}
  /\ \A u \in User : InboxAddresses(u) = ConversationAddresses(u)

================================================================================
