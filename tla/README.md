# WaterlooStar backend: verification

TLA+ models of the WaterlooStar API server (`src/`), the TLC runs that check
them, and TLAPS proofs of what matters most. The server is one Go process over
PostgreSQL. Every HTTP request is served by a goroutine of its own; each
generated query is a statement that commits by itself at READ COMMITTED, except
where a handler opens a transaction (`s.tx`, `db.Audited`). What can go wrong is
therefore what happens *between* the statements of a handler, and that is what
these modules are about.

Run everything inside this directory:

    tlc -workers 2 -config MCMessaging_talk.cfg MCMessaging
    tlapm MessagingStepProofs.tla

`PROJECT.json` names every run with its module, cfg and properties, and every
theorem with its module.

## The system

| Component | State | Operations | Talks to |
|---|---|---|---|
| Conversations, messages, offers (`conversations.go`, `messages.go`, `offers.go`) | tables `conversations`, `messages`, `request_offers` | start, send, close, share the address, offer, withdraw an offer, mark read, list | listings, housing requests, suspensions (read in SQL); notifications (called after the commit) |
| Accounts and sessions (`auth.go`, `me.go`, `internal/auth`) | tables `users`, `refresh_tokens`, `email_verification_tokens`, `password_reset_tokens`; signed access tokens held by clients | register, verify, resend, login, refresh, logout, ask for and confirm a password reset | rate limiter (login), email, moderation (suspension, role) |
| Listings and housing requests (`listings_write.go`, `requests_write.go`) | tables `listings`, `housing_requests` | create, edit, set status, archive | moderation (`removed_at`), conversations (availability) |
| Moderation and admin roles (`internal/db/{accounts,posts,roles,audit}.go`, `admin_*.go`, `cmd/admin`) | `users.role`, `users.suspended_at`, `removed_at`, the ledger `admin_actions` | suspend, reinstate, verify by hand, remove and restore a post, change a role | sessions (revoked), every public read |
| Rate limiter (`internal/ratelimit`, `ratelimit_mw.go`) | in-memory token buckets in an LRU list | allow, peek, spend, evict | every route; login and notifications use peek and spend |
| Notifications (`notifications.go`, `internal/email`) | read markers, preferences, background goroutines | decide, cap, send | conversations, limiter, the email provider |
| Discovery (`listings.go`, `requests.go`, `mapping.go`) | none of its own | browse, filter, sort, page, month strip | every table, by a WHERE clause of its own in each read |
| Inbox (`conversations.go`, `messages.go`) | read markers on `conversations` | list, open, count the unread, mark read | messages, the address share |
| Admin views (`admin*.go`) | none of its own | overview, lists of accounts and posts | every table, in view or not |
| Process (`cmd/api/main.go`) | the server, its deadline, the connection pool | start, drain, wait, close the pool, exit | requests and notifications under way |
| Plumbing, configuration, generated code | none that changes | route, log, bind | - |

What is hard in each, and what makes it correct:

* **Conversations** - a decision is read in one statement and acted on in
  another. A closure must stand, unless the owner who made it makes an offer;
  an address must be shared only by its owner's act while every condition
  holds; a conversation must have a first message or an offer behind it; racing
  creations must have one winner; a retry must end.
* **Accounts** - tokens that work once, rotation of refresh tokens, sessions
  that must die with a suspension or a password reset although a login or
  refresh is under way.
* **Listings and requests** - a status change and an edit are each a read and
  an unconditional UPDATE: a terminal status, a moderator's takedown and a
  validated row can be overtaken.
* **Moderation and roles** - two demotions at once must not leave the site with no
  admin; a change and its ledger row commit together, and the row carries the
  time the change began, not the time it took effect.
* **Rate limiter** - a full bucket may be forgotten, an evicted one comes back
  full; peek-then-spend lets concurrent attempts through.
* **Notifications** - one email per unread stretch although messages commit
  out of timestamp order; emails sent in the background, lost with the client,
  the process or the provider; a shutdown that waits for requests first and for
  emails second, within a deadline that a hung query does not know of.
* **Reads** - what is public is spelled out again in each of some thirty
  statements, and again in each count; the count and its page are two
  statements over rows that move; the exact address is withheld by one flag,
  given at eight calls, and by the place of a conversation.

`PROJECT.json` lists each hazard with the line where it bites and the
properties that cover it.

## Modules

| Module | What it is |
|---|---|
| `Messaging` | the six operations on conversations and offers, each database call a step |
| `MessagingProperties` | its type invariant, invariants, action properties, liveness, and the two statements of the repository that interleavings refute |
| `Thread` | the abstract promise of one conversation, without requests, database or moderation |
| `MessagingRefinesThread` | the refinement mapping from `Messaging` to `Thread` |
| `MCMessaging` | instances for TLC: one listing of `o`, up to two housing requests of `s` |
| `MessagingProofs` | the inductive invariant and the theorems on the invariants |
| `MessagingStepProofs` | the theorems on the action properties |
| `Accounts` | registration, emailed links, sessions, password resets, and what admins do to accounts, each database call a step |
| `AccountsProperties` | its properties, and what a suspension and the ledger are said to do and an interleaving refutes |
| `MCAccounts` | the symmetry of its instances |
| `AccountsProofs` | its inductive invariant, type correctness, three action properties, and what the ledger of admins' actions tells |
| `RateLimiter` | the limiter under its mutex, and the middleware, login and notifications that consult it |
| `RateLimiterProperties` | its properties, and the refinement mapping to `TokenBuckets` |
| `TokenBuckets` | what the limiter promises of its buckets, without map, list, lazy refill or requests |
| `MCRateLimiter` | its instance: five keys of four kinds of rule |
| `RateLimiterProofs` | the bounds on debts and on charges |
| `RateLimiterListProofs` | that map and recency list agree, and the refinement of `TokenBuckets` |
| `Posts` | listings and housing requests as owners edit them and moderators take them down, each read and each UPDATE a step |
| `PostsProperties` | its properties, and three sentences of the repository that the code does not keep |
| `MCPosts` | its instance: one post, bodies and patches that clash in pairs |
| `PostsProofs` | type correctness, ledger, takedowns and archivings; then what validation and constraints leave in a row |
| `Notifications` | the emails of one conversation, read markers, and the life of the process |
| `NotificationsProperties` | who is told, and what a shutdown may cut off |
| `MCNotifications` | its instance |
| `NotificationsProofs` | its type invariant and its safety properties |
| `Reads` | every read of listings, requests, offers, conversations and the admin's lists as an operator of its own, over tables that change, and a client that walks the pages |
| `ReadsProperties` | that reads, counts and pages agree, and where the exact address goes |
| `MCReads` | its instance: terms, wishes and filters |
| `ReadsProofs` | its inductive invariant and all its properties, with the lemmas on order, pages and sizes they rest on |

The six specifications share no variable; what one needs of another it lets
move freely, or in steps at least as coarse as another shows to be possible:

* accounts and posts reach `Messaging` as suspensions, takedowns and statuses
  that come and go at any moment, so `Messaging` holds whatever `Accounts` and
  `Posts` do;
* the requests of `Notifications` are those of `Messaging`, as far as they
  insert a message and call `notify`; whether they may write at all is
  `Messaging`'s matter, and any order of commits is allowed;
* the caps of `notify` are in `RateLimiter`, and a free choice (`untold`) in
  `Notifications`; otherwise the limiter only delays or refuses requests, which
  every model lets happen by not taking a step;
* `Reads` has every write of the others as one step, because a statement that
  reads sees only what has committed.

### `Messaging` and the code

State: `conv` is the table `conversations` keyed by its UNIQUE
`(listing_id, enquirer_id)`, with `opened_by`, `closed_by` (set exactly when
`closed_at` is) and whether `address_shared_at` is set; a row that does not
exist has `openedBy = Nobody`. `messages` is the sender of each message in order
of insertion (bodies are irrelevant), `offers` the table `request_offers` keyed
by its UNIQUE `(request_id, listing_id)`. `published`, `removed`, `suspended`
and `wanted` are what the SQL reads of listings, users and housing requests.
`req[h]` is what handler `h` still knows: the operation, the step it is at, who
asks, the conversation, the housing request, whether a note comes with the
offer, and whether the offer is being retried.

Actions: a handler is split at its database calls. The arrival of a request
(`StartConversation`, `SendMessage`, `CloseConversation`, `ShareAddress`,
`CreateOffer`, `WithdrawOffer`) includes the first read and every check made on
its result; a request refused there answers 4xx without touching anything, so
it is no step. Then:

| Action | Code |
|---|---|
| `StartLookup`, `StartInsert` | the 409 lookup, and the transaction that writes the conversation with its first message (a lost race to the unique key is the same 409) |
| `SendInsert` | the unconditional INSERT |
| `CloseUpdate` | `UPDATE ... WHERE closed_at IS NULL` |
| `ShareListing`, `ShareUpdate`, `ShareReread` | the address check, the conditional UPDATE, the re-read that chooses 200 or 409 |
| `OfferListing`, `OfferLookup` | the reads before `makeOffer` |
| `OfferRead` | the first statement of `makeOffer`'s transaction, and its rule (`ConversationRule`) |
| `OfferCreate`, `OfferJoin`, `OfferReopen` | the rest of that transaction and its commit, on each branch of the rule |
| `OfferViolation`, `OfferRecheck` | the loop of `CreateOffer` after a unique violation |
| `WithdrawUpdate` | the conditional UPDATE, whose "no row" is answered 500 |
| `Abandon` | the client leaves, the process dies, or a query fails: the request's context is cancelled and what has not committed is rolled back |

`SetListingStatus`, `ModerateListing`, `ModerateUser` and `SetRequestStatus`
move the surroundings between any two steps; the model lets them move freely.

A transaction at READ COMMITTED takes a new snapshot for each statement, so
`makeOffer` is two steps: what it reads first may be out of date when the rest
runs. The rest is one step because its writes are protected by the unique keys
and by the row lock of `ReopenConversation`, and become visible together. The
conditional UPDATEs are atomic: their WHERE clause is evaluated on the row they
lock (`ShareConversationAddress` also reads the listing and the users in its
snapshot, which is equivalent to running it before any change that snapshot
does not see).

### `Thread`

A conversation is opened once, closed by one side and reopened only from the
owner's closure. Writes are admitted only while it is open; a write admitted
before a close may still arrive after it, and no other does. The address is
disclosed once, while it is open. The mapping reads the phase from `opened_by`
and `closed_by`, and the admitted writes are the handlers at `send_insert` or
`offer_join`.

### `Accounts` and the code

State: `account` is the table `users` as far as it matters, one row for an
identity (email and username, each unique): whether it exists, is verified, is
suspended, its role, and a count that stands for its password (equal counts are
equal passwords). `session` is `refresh_tokens`, each row with the access token
issued beside it: `live` is neither revoked nor expired, `access` that the
signed access token has not expired (nothing can revoke it), `role` the claim
in that token, `password` the password the session was logged in with, through
any rotation (history; the code does not store it). `link` holds both link
tables; `ledger` is `admin_actions`, per account, in the order of the commits,
each row with its `created_at`; `req[h]` is what handler `h` still knows.

| Action | Code |
|---|---|
| `Register`, `CreateUser` | the count, and the INSERT (losing to a unique index is the same 409) |
| `ResendVerification`, `RequestPasswordReset`, `ConsumeLinks`, `IssueLink` | the reads, then the two statements that spend what is outstanding and store the new link |
| `VerifyEmail`, `VerifyConsume`, `VerifyMark` | lookup, spend, mark |
| `Login`, `StartSession` | the account read with the password compared, and the INSERT of the refresh token |
| `RefreshSession`, `RefreshUser`, `RefuseRefresh`, `Rotate`, `StartSession` | the token's lookup, the account's, the revocation on either branch, the new tokens |
| `Logout` | one UPDATE |
| `ConfirmPasswordReset`, `ResetPassword`, `ResetConsume`, `ResetRevoke` | lookup, new hash, link spent, every live session revoked |
| `SetAdminUserRole`, `AdminCommand`, `ModerateAccount` | an admin's request by the access token's claim (never about themselves, except to reinstate or approve), or a run of `cmd/admin` on the host; the transaction begins, and `now()` is fixed |
| `ReadRole` | `ChangeRole`'s first read, and its refusal of a change that is none |
| `AdminUpdate` | the UPDATE that takes the row's lock, decided on the row as it then is, and the rest of the transaction that reads (`CountAdmins`, the sessions it revokes); refused, it rolls back |
| `Commit` | the transaction becomes visible: account, revoked sessions, ledger row |
| `Abandon` | the client leaves, the process dies, a query fails: statements already committed stay |
| `AccessExpires`, `SessionExpires`, `LinkExpires` | time |

A transaction (`Audited`) is two steps because others can run between the
statement that locks the row and the commit: they see the old row
(READ COMMITTED), and those that update the same row wait (`RowFree`). A role
change reads before it updates, and is three.

A ledger row's `created_at` is `DEFAULT now()`, the start of its transaction
(`000008_admin.up.sql:36`), its `id` is random, and the ledger is read
`ORDER BY created_at DESC, id` (`admin.sql`). A transaction may begin, wait for
the row, and commit after another that began later, so that order is not the
order in which changes took effect. `Begin` stamps the request (`began`), the
row carries the stamp (`at`), and the properties read the ledger by it
(`ShownFirst`); the place in the sequence says only in which order rows were
committed, which no query of the program can see. Only the order of the stamps
about one account matters: `Now` moves on from the latest in the ledger or
under way. Two transactions that begin in the same microsecond are not told
apart in the program either (the random `id` decides) and are left out.

Statements that insert or revoke tokens take no lock the transaction holds, so
they are free. A token identifier is used again once its row is dead, its
access token expired, and no request refers to it; a spent row can no longer
be matched by any statement, so this identifies only states the code cannot
tell apart. `Operator` are the accounts promoted before the model starts.

Left out: requests that are refused at their first read (they change nothing),
the email itself, password hashing, cookies, CSRF, profile fields.

### `RateLimiter` and the code

`consult` runs under the limiter's mutex, so one call is one step; the state
between calls is what matters. `tracked` and `recency` are the map and the
list, `tokens` and `age` the bucket as last written and the ticks since: a
bucket is refilled lazily, when it is consulted (`Refilled`), capped at its
burst. A bucket found full by a peek is forgotten (`Droppable`), and at the
ceiling the least recently used is (`Evicted`). The float64 amounts are exact
integers here: a token of `k` is `Window[k]` units, of which `Burst[k]` come
back each tick; rounding is not modelled.

| Action | Code |
|---|---|
| `RateLimit`, `GlobalAllowed`, `KeyAllowed` | the middleware: the route's backstop, then the caller's own key; a body without an identity meets the backstop only |
| `LoginPeeked`, `LoginAccepted`, `LoginFailed` | `chargeOnFailureOnly`: peek before the handler, spend in it when the attempt fails (`Spend` may leave a debt) |
| `Notify`, `NotifyPeeked`, `RecipientAllowed`, `CapAllowed` | `notify`'s caps |
| `Tick` | the clock |
| `Restart` | the process restarts: everything in memory is forgotten |
| `StartWatch` | history only: counts what a key is charged in a window |

`TokenBuckets` has buckets only: all fill as time passes, a charge takes a
token, a bucket that is not remembered is full, and at most a ceiling of them
is remembered. Its mapping is `level <- Refilled`, `held <- tracked`. It says
nothing about *which* bucket is given up at the ceiling: that the least
recently used one goes is in the model and not promised by it. A forgotten
bucket comes back full, so the bound of twice the burst holds only while the
key is remembered, and watching ends when it is forgotten.

### `Posts` and the code

State: `post` holds the rows of both tables, `ledger` their rows in
`admin_actions` with their `created_at` (as in `Accounts`, the start of the
transaction), `req[h]` what a handler still knows, `lives` (history) how
often a post has gone live. Of the columns, those some check relates to another
are kept (dates, lease, bedrooms and the room among them, studio, shorter
stays, minimum stay, radius); `plain` stands for those checked alone. A row is a
function of its columns, a patch one of the columns its body names; JSON's null
is `Null`.

| Action | Code |
|---|---|
| `CreateListing`, `CreateRequest` | validation and the INSERT, whose constraints are implied |
| `EditListing`, `EditRequest` | the owner's read with its refusal, the merged row (`applyUpdate`) and its validation |
| `EditListingUpdate`, `EditRequestUpdate` | the UPDATE by id alone: COALESCE of the patch into the row as it is (`UpdateParams` drops the nulls a pointer cannot carry), refused as a whole by a CHECK |
| `SetListingStatus`, `SetRequestStatus`, `DeleteListing`, `DeleteRequest` | the read and `allowedTransitions` |
| `ListingStatusUpdate`, `RequestStatusUpdate` | the UPDATE by id alone, with `published_at` |
| `RemoveAdmin*`, `RestoreAdmin*` | a moderator's request: BEGIN, which fixes `now()`, and the read of the post |
| `RemovePost`, `RestorePost` | the rest of the transaction: conditional UPDATE, ledger row, commit |
| `Abandon` | the client leaves, or a query fails |

The validations (`ValidListing`, `ValidRequest`) and the constraints
(`ChecksListing`, `ChecksRequest`) are operators of their own, since the point
is where they differ.

### `Notifications` and the code

`created_at` and the read markers are `now()`, the *start* of the transaction
that writes them, and are seen from its commit on. The model's clock counts
such starts. `event` are the requests that write and then call `notify`, each
with the message it inserts; `marker` the two read markers; `reader` the
requests that set one; `server` the process, `late` that its deadline has
passed, `held` that a request this module leaves out (any that neither notifies
nor marks) has a database connection while the pool closes.

| Action | Code |
|---|---|
| `Open`, `SendMessage`, `ShareAddress` | the write begins (`StartConversation` or an offer; `SendMessage` or an offer that joins; `ShareAddress`) |
| `Commit`, `Abandon` | it commits; or the client leaves or a query fails, before or after the commit |
| `Notify` | `GetNotificationRecipient`, the first-unread rule, preferences and caps, and the goroutine |
| `Deliver` | the provider's answer, or its timeout |
| `MarkRead`, `MarkCommit` | `MarkConversationRead`, whose UPDATEs commit in any order |
| `Signal`, `Drained`, `GiveUp` | SIGTERM, and `srv.Shutdown`: it returns when no request is left, or with an error at the deadline |
| `Waited`, `Overdue`, `Deadline` | `WaitForNotifications` against the deadline both share |
| `Fail` | the listener fails, and `run` returns with requests at work |
| `Release`, `Closed` | the deferred `pool.Close()`, which waits for every connection to be given back, and the exit |
| `Crash`, `Restart` | the process is killed; a new one |

Requests go on while the server drains, and a connection already open may still
bring one (`Serving`). `srv.Shutdown` cancels no request's context, and neither
the pool nor the statements have a time limit; so past the deadline, or when the
listener fails, the process stays (`closing`, `failing`) as long as one query
hangs. A request that waits for an email's decision holds no connection between
its statements, and an email holds none at all; so after `Waited` and `Overdue`
the pool closes at once.

### `Reads` and the code

Each SQL text is an operator with its own WHERE clause, as the same condition
is written out again in each (`CountListings` and `Selected` are two texts, as
in `listings.sql.go`), and each answer (`ListListingsResponse`, ...) adds what
the handler does: the refused filters, the clamped size, the offset, the number
of pages. The writes are those of the other modules, each one step, and cut
down to what a read can tell apart: a status is published or not, a read marker
counts the messages before it, dates are months. `furnished` stands for the six
filters that ask for equality. A client that walks the pages alternates
`WalkCount` and `WalkList`, as the handler's two statements do, with writes in
between.

Where an exact address may come out is one operator for each of the eight calls
of `toListing` (the browse, one listing, the offers on a request, the answer to an offer, the
owner's list and the answers to the owner's writes, the admin's list and the
answers to a takedown and a restoration) and for each use of a conversation's
place. `AddressesSeen(u, admin)` is their union, for an account whose access
token claims the role `requireAdmin` looks for, or not; `Stranger` is an
account that is in no conversation and has no post.

An `ORDER BY` is `InOrder`: at each place the row before which that many others
come, which needs no sorting algorithm. Where a query's order is no matter of
the properties, any order does (`SetToSeq`). `Tiles` and `Spells` say of a paged
answer, as a function of the page number, that the places on the pages it says
there are hold each row of a set once, or spell a list, and that the page after
them is empty.

## What is checked

`Served` and `Changing` choose the operations of an instance. Every cfg says
`CHECK_DEADLOCK FALSE`: a server with nobody asking rests, and in the instances
with bounds on tokens, passwords, changes or events all of them may be used
up.

| Run | Instance | Shows |
|---|---|---|
| `messaging_talk` | 3 handlers: start, send, close, share; status, takedown and suspension move | `ShareIsDeliberate`, `CloseSettles` |
| `messaging_offers` | 2 handlers, 2 housing requests: start, close, offer, withdraw; the requests come and go | `OpenedForAReason`, `OffersHaveConversation`, `OneWinner`, `ClosureStands` (that an offer leaves a closed conversation alone is in `KeepsThePromise`) |
| `messaging_live` | 2 handlers, every operation, fair | `TypeOK`, `Answered`, and `KeepsThePromise`: `Messaging` implements `Thread` |
| `messaging_late_offer` | violation | an offer committed after its student's close |
| `accounts_moderation` | 2 handlers, 2 accounts, 2 sessions: login, refresh, logout and every change by an admin | `TypeOK`, `LedgerAgrees`, `SuspensionSettles` |
| `accounts_reset` | 2 handlers, one identity, 2 links, 2 sessions: everything a person does | `AccountsPersist`, `ResetSettles` |
| `accounts_live` | 2 handlers, fair | `Answered`, `SuspendedGoesOut` |
| `accounts_two_admins` | violation | two demotions at once leave no admin |
| `limiter` | 2 requests, 5 keys, ceiling 2, fair | `TypeOK`, `ListAgrees`, `DebtBounded`, `TwiceTheBurst`, `ActsAsBuckets`, `NoLockout` |
| `posts` | 2 handlers, one post of either kind, 7 patches | `TypeOK`, `LedgerAgrees`, `RowsHold`, `TakedownSettles`, `ArchiveSettles`, `EditsLand` |
| `notifications` | 3 writing requests, 2 marks at a time, 4 writes, the process dying and stopping, fair | `TypeOK`, `FirstUnreadTold`, `SecondIsEarlier`, `ShutdownCutsNothing`, `ShutdownEnds` |
| `reads` | 2 listings, one request, one conversation of 2 messages, 9 filters, a walk with 2 writes in between | `TypeOK`, `ReadsAgree`, `CountsAgree`, `PagesTile`, `WalkFair`, `InboxAgrees`, `AddressStaysPrivate` |

Bounds. *Messaging*: one listing of the owner `o` and the student `s`, because
every statement but the reads names one conversation or one offer, so all
conflicts are between requests about one conversation; `MaxMessages = 3` is an
opening message, one more, and one that arrives late (a request that could
exceed it is not accepted). *Accounts*: `MaxPassword` and `MaxChanges` stop
resets and changes, `SessionRoom` and `LinkRoom` accept a request that will
need a token only while one is free for each that already does, so no request
is stuck for lack of identifiers; three passwords are an old one, a new one and
one more overtaking it, two changes of an account are one and its undoing, in
whichever order they began. Two
accounts are one to act and one acted upon, and the two of whom one must remain
admin. *RateLimiter*: two remembered keys of five, so that every consultation
of a third evicts; bursts and windows of one or two; `Watched` is the login
key, whose charges can be the most. *Posts*: no statement names two posts;
`MaxLives = 2` is a going live and a republication, `MaxChanges = 2` a takedown
and its restoration, in whichever order they began, and the patches clash in pairs (start and end, lease and
minimum stay, studio and room). *Notifications*: three messages of which any
may be late, each marker moved twice, four writes in all; a third message by
the same side is where counting "all unread" and "up to this one" part. A
request left out that has a connection is as good as any number (`held`).
*Reads*: two listings and `per_page` 1 give a page edge, `Sizes` the default and
a size to be clamped; the filters are used each in an order that goes with it,
and two are refused. `Walked` is the order an edit of price or bills changes.
Writes that a walk or an order of creation cannot tell from others are held
back while it goes on (`Watched`, and the guards on `Conversations` and
`Requests`): they are the same rows seen through fewer states.

Two handlers are enough for any race between two requests; three let a request
overtake one that has already lost a race. Handlers, tokens, links, reasons and
housing requests are interchangeable, so their permutations are symmetries of
the runs without fairness.

Fairness. `WF_vars(Serve(h))` for each handler: goroutines are scheduled by the
runtime, and each statement is answered or fails (`Abandon`). In `Accounts`
also strong fairness of the steps that wait for a row's lock: PostgreSQL queues
the waiters of a row, so nobody is overtaken for ever. The live instance
exercises `VerifyMark` and `AdminUpdate`; `ResetPassword` waits in the same way.
`WF(AccessExpires)` and, for the limiter, `WF(Tick)`: time passes. In
`Notifications` only the shutdown is fair: the deadline passes, `run` goes on
when it can, and the pool closes once no request is at work and no connection
is held. Requests and the provider may hang for ever, and `ShutdownEnds`
therefore promises an exit only up to a request that does. Nothing is assumed of
clients, admins or moderators.

### Disagreements with what the repository says

The two violation runs each check a sentence of the source; `PROJECT.json`
quotes it with its line. Common to them, and to most of what follows: a
decision read in one statement and acted on in a later one with no condition.
The passing runs say precisely how much remains true: `CloseSettles` and
`KeepsThePromise` (only writes that had passed their check while the
conversation was open can follow a close), `SuspensionSettles` and
`SuspendedGoesOut`, `TakedownSettles`, `ArchiveSettles`, `SecondIsEarlier`.

Seen while modelling. The formulas named are in the `Properties` modules: added
to a cfg of their module they are refuted, except `AdminRemains`, which TLC
confirms when one request is served at a time.

* `SameOfferIsConflict` (`offers.go:141`): the same offer made twice at once
  can be answered 500 instead of 409, with three requests at work.
* `SuspensionEndsSessions` (`accounts.go`): a login or a refresh under way when
  its account is suspended stores a live session afterwards.
* `ArchivedIsFinal` (`listings_write.go:182`): a status change chosen before an
  archiving lands after it and brings the post back.
* `RowsValid` (`listings_validate.go`): two edits at once, one making a studio
  and one naming a room, leave a studio with a room, which validation refuses and
  no constraint does. The other clashes are refused by a constraint and answered
  500.
* `NewestFirst` (`admin.sql:87`, "What has been done to one account or post,
  newest first"; in `AccountsProperties`, refuted with the cfg of
  `accounts_moderation`): a reinstatement begins, a suspension begins and
  commits, the reinstatement gets the row and commits. The ledger, read by the
  time each began, shows the suspension first, and the account is active. A
  takedown and a restoration of a post likewise. `LedgerAgrees` is what remains:
  the numbers are right, and the row shown first tells what is, unless the
  change it tells of was overtaken in this way.
* `ValidationSees` (`listings_validate.go:105`, "applyUpdate mirrors the
  SQL's COALESCE, so validation sees what the row will actually become"; in
  `PostsProperties`, refuted with the cfg of `posts`, with no race): an edit
  that clears `bedroom_of`, `deposit_cents` or, of a housing request,
  `max_distance_m` is validated with the column cleared and answered 200, and
  `COALESCE` keeps the column. One that also makes the place a studio leaves a
  studio with a room. `EditsLand` says what becomes of the rest of the edit.
* `OneEmailPerSpell` (`notifications.go:82`): a message that commits late, but
  began earlier than one already emailed, is the first unread when it decides,
  and sends a second email.
* `messages.go:112`: a message may be inserted after the conversation was
  closed (`conversations.go:24-25`).
* `offers.go:351`: a repeated withdrawal that overlaps the first is answered
  500, against the comment on line 349.
* `auth.go:368`: a refresh under way when a password reset revokes every
  session (`auth.go:490-491`) stores a new one afterwards; two refreshes of one
  token both succeed. `ResetSettles` is what remains.
* `auth.go:477`: spending a reset link does not ask whether it still was live,
  so two confirmations at once both set a password.
* `auth.go:137`: two requests for a link may leave two that work (`auth.go:227-228`
  spends those outstanding).
* `roles.go:60`: two equal role changes at once both commit and both are
  logged; `ChangeRole` is described as refusing a change that is none
  (`roles.go:17-18`), and the second row's `from` is out of date. `LedgerAgrees`
  therefore claims nothing of a role row's `from`.
* `ratelimit_mw.go:184`: the backstop `LoginGlobal` is charged for successful
  logins too (`policy.go:13-21` describes it as counting failures).
* `notifications.go:100-111`: when another notification takes the last global
  token in between, the recipient's token is spent and nothing is sent.
* `main.go:56`: the shutdown has a deadline, and past it `pool.Close()` waits
  without one; a query that hangs keeps the process until it is killed.
* `notifications.go:70`: `notify` reads in the request's context, after the
  answer's write has committed: a client that leaves in between gets its message
  delivered and no email sent for it. A crash loses the emails under way, and
  the email about a shared address, sent once, is never tried again.
* `conversations.sql.go:599`: a message that began before a mark and commits
  after it is at once read, and never shown as unread. Two messages with the
  same microsecond both find two unread and both stay silent; the model's times
  differ.
* `posts.go:96`: the ledger's detail shows the `status` and `removed_reason` of
  the read before the UPDATE, which an owner or another moderator may have
  changed since.
* `conversations.go`: `can_share_address` is true for a listing without an
  address, for which `ShareAddress` answers 409.
* `listings.go:50`: `(page - 1) * perPage` and the numbers of the filters are
  cut to 32 bits; a huge page wraps to a negative offset (500) or to an earlier
  page.
* `listings.go:43`: a listing published between the last count and the last
  list pushes another over the edge, and the client stops without it
  (`WalkFair` says how far); the lists order by `created_at` with no tie-break.

## What is proved

For every value of the constants, from the named assumptions of each module
(`MessagingAssumption`, `AccountsAssumption`, `RateLimiterAssumption`,
`PostsAssumption`, `NotificationsAssumption`, `ReadsAssumption`) and the
definitions only. Every safety property of every passing run is a theorem, and
so are the two refinements, of `Thread` and of `TokenBuckets`.

### Messaging

The inductive invariant `MessagingInv` (`MessagingProofs`) adds to the
invariants themselves three parts that no run checks on its own:

* `RequestsGrounded`: what a handler relies on is still there. A handler about
  to join, reopen or look again finds the conversation; a request acts for the
  side it was accepted from; a finished offer or start has left its row. This is
  what makes `OneWinner` and `RetryFindsConversation` inductive: had the second
  unique violation come from nothing, the retry could open a conversation.
* `OpenedFirst`: no closure, share or message without the row. Without it a
  start could insert into a conversation that already has messages, and
  `OpenedForAReason` would not follow.
* `RetryFindsConversation`: the second attempt of an offer finds what the first
  lost to, and so never opens a conversation.

`NothingDeleted` (rows never go away) carries `RequestsGrounded` across the
steps of other handlers; `RequestStep` reduces every step to the handler that
takes it; `ReadingStep` disposes of the steps that only read, `WriteAgrees` and
`CommitInv` of those that write. From the invariant follow `TypeCorrect`,
`ConversationsHaveReason`, `OffersAreAnswered`, `RacesHaveOneWinner`,
`RetriesFindTheConversation`. The action properties (`ClosuresStand`,
`ClosingSettles`, `SharesAreDeliberate`) follow from it and
`TouchedByItsWriter`: whatever happens to a conversation is done by a handler
at one of seven writing steps, serving a request about it.

`ImplementsThread` (`MessagingStepProofs`) is the refinement: the initial states
map to initial states of `Thread`, and a step maps to one of its actions or a
stutter. Steps that write nothing about a conversation only admit a write,
while it is open, or end one; each writing step is an action of its own of
`Thread` on the one conversation it is about and leaves the others alone. The
invariant is needed where a handler that acts on an earlier read must find the
conversation in the phase that `Thread`'s action asks for.

### Accounts

`AccountsInv` (`AccountsProofs`) is `TypeOK` with two more facts: a live refresh
token is somebody's (`Owned`; `TypeOK` alone would let a refresh read the row of
nobody, whose role has no type), and a handler about to read, rotate or store a
session serves a login or a refresh of a user, one about to update or commit an
admin's change of a user (`StepFits`). `TypeCorrect` follows.

The action properties need to know where a row or a request comes from.
`SessionBecomes`: a token's row is either stored by a handler at
`start_session` or what it was with less. `Becomes` and `Carries`: a handler
that is about to store a session was so before, or has just read the account;
a login or refresh carries its user and password from where it read them. With
them, `Settling` proves `SuspensionSettles`, `Eviction` proves `ResetSettles`,
and `Persistence` proves `AccountsPersist`.

`LedgerAgrees` reads the ledger by `created_at`, and that order is not inductive:
a row stamped early may come last. `LedgerInv` therefore speaks of the order of
the commits (`RowsTell`: of the rows about a matter, the one committed last says
what the account is) and of numbers (one more suspension than reinstatements of
a suspended account, as many of another; one verification by hand). A commit
copies what its handler found at the UPDATE, so `LedgerInv` adds `Founded`: a
change under way is of an account that exists; once it waits to commit its
handler holds the row alone, and a suspension, a reinstatement or a verification
finds the account not yet as it will be. And `Unborn`, that an account not yet
registered has no ledger. It is the row's lock that keeps `Founded`: no other
change, verification or reset gets at the row before the commit. `LedgerTells`
follows (`TellsWhatStands`): the row shown first is the one committed last, or
was stamped no earlier and committed before it, which is what `Overtaken` says.

### Rate limiter

`LimiterInv` (`RateLimiterProofs`) has four parts: `Typed`; `Fits`, that a
request at each step consults keys of the right kind, so that only a login is
let through to pay later; `Solvent`, that nobody but a login key owes anything,
and that a login key's bucket, less what the attempts under way still owe it,
is no further below zero than the handlers can be at once; and `Conserved`,
that what the watched bucket holds and what was taken from it since came from
one full bucket and the refill of the ticks since. `DebtBounded` and
`TwiceTheBurst` follow for any rules, keys, ceiling and number of requests.

`ListInv` (`RateLimiterListProofs`) adds `Listed`: the recency list holds the
keys of the map, each once, and no more than the ceiling; no bucket holds more
than its burst, and one that is not remembered is full. `Pushed` and `Evicting`
follow the list through `consult`: `PushFront` or `MoveToFront`, `evictLocked`
at the ceiling, and the bucket a peek drops. Taking a key out is `RemoveFirst`
of a list without repetitions, which `Removed` computes from the key's one
place, with no induction. `TypeCorrect`, `ListsAgree` and, with `LevelsAfter`,
which says what every bucket holds after a consultation, `ImplementsBuckets`
follow: a consultation is a charge, a look, or a look that forgets, of
`TokenBuckets`.

### Posts

`PostsInv` (`PostsProofs`) is `TypeOK`, `Grounded` (a request at work is about a
post that exists) and `LedgerInv`, that in the order of the commits the ledger's
last row tells what the post's row says, and that takedowns and restorations
balance. `LedgerTells` gets from the last committed to the first shown as in
`Accounts`. `TakedownsSettle` and `ArchivingsSettle` follow from `PostsInv`.

`RowsInv` adds `Validated`, that what an owner's update is about to write was
valid when merged with the row it read, and `RowHolds`; from it, that every row
keeps what its table checks and those joint rules two edits cannot break between
them (`RowsAlwaysHold`), and `EveryEditLands`: an accepted edit writes the columns
its body names, but for the nulls `COALESCE` ignores, all together, or a CHECK
refuses it as a whole; and if no null is ignored and nobody wrote in between, it
is not refused and the row becomes what validation saw.

### Notifications

`NotificationsInv` (`NotificationsProofs`) is `TypeOK` with `Named` (a request at
work is of one of the two, and a reply has a message), `Dated` (no two writes
began at the same time), `Drain` (a process that waits
for emails has no request left, and one that closes the pool after a shutdown is
past the deadline) and `FirstUnreadTold`. `GoesOn` says that a
request changes only in its own step, `MovesOnly` that a marker moves only by the
commit of a mark; `FirstUnreadTells`, `SecondsAreEarlier` and
`ShutdownsCutNothing` rest on them.

### Reads

`ReadsInv` (`ReadsProofs`) is `TypeOK` with `WalkInv`, that a client's walk is
where its offset says, whatever is written meanwhile:

* `Underway`, while pages are left. `Place` is how many selected rows come
  before a row. If no row left the selection, every row that was there at the
  start and has a place before the offset has been shown; if none came in, what
  has been shown was shown once, and what of it is still selected has a place
  before the offset. `WalkFair` speaks of the end only and says nothing of the
  offset, so it is not inductive.
* After a count and before its list, unless a row came in, the count is no
  less than the rows there are. This is what makes the last page the last.
* `Ended`, when none is left: `WalkFair` in terms of the list itself.

A write keeps `Underway` because rows that come in only push others back
(`PlaceRises`) and rows that leave only let them up (`PlaceFalls`); an edited
row counts as both. A list extends it by one window: `Batch` says which rows a
window holds, by their places, and `EnoughPages` that `total_pages` windows
reach the total.

`PagesAddUp` needs no walk: `Paged` says that any answer whose total is the
length of its list has the places `Spots`, which number the rows without
repetition (`SpotsOrder`, `SpotsNumber`), from the division that rounds up and
the offset. `Tiled` and `Spelled` apply it to a set of rows and to a list,
`Sorted` to the rows in an order and `Listed` in any. That `ORDER BY` is a strict
total order under each sort, missing columns last and newest first among equals,
is `BeforeOrders`.

`InboxAlike` matches each message the badge counts with its rank among the
unread of its conversation. `ReadsAlike`, `CountsAlike` and `AddressPrivate`
compare the queries' texts, over rows of the right shape: `AddressPrivate` needs
that a conversation is about a listing there is. It says that the admin surface
shows every exact address to whoever is let in, and that elsewhere an address
comes out to the listing's owner, to the student it was shared with while
nothing withholds it, and to no `Stranger`. That the flags of `toListing` are
the model's is a matter of reading the eight calls.

Of the constants, the proofs assume that `Null` is no number, Boolean, user,
status or side; that `Stranger` is another account than the two; that terms and
filters have the columns' types; that a listing's dates are in order (`validate`
and a CHECK see to it); and that a conversation may have a message.

### Only model-checked

`Answered`, `SuspendedGoesOut`, `NoLockout`, `ShutdownEnds`: liveness under
fairness, which is out of the prover's reach.

## What is not modelled

The components marked `not_modelled` in `PROJECT.json`, each with its reason:
the emails' text and transport (a send ends, well or not, or is cut off);
password hashing, cookies and the request context (pure functions); routing,
logging, CORS and error bodies; configuration, migrations, the seed and the
start-up. Of the generated code, the sqlc functions are what the modules' steps
stand for and are mapped where they are; the wrappers of `server.gen.go` only
bind parameters, decode bodies and write answers, nearly half of the
repository's lines with nothing to check.

Of conversations: message bodies, error wording. Listings are never deleted by
the server (deleting is archiving), so no cascade happens. Of accounts: what
"Left out" names above. Of the limiter: float rounding and how keys are built.
Of posts: columns checked alone, which `plain` stands for, and the photographs.
Of the reads: full-text search, the filters of the same form as `furnished`,
and the admin's views of the ledger, of which `Accounts` and `Posts` have the
writes. Clocks are not modelled as such except in `Notifications`: expiry is an
event that may come at any time.

## Plan

Done: `Messaging` with `Thread` and the proof of the refinement; `Accounts` with
its ledger; `RateLimiter` with `TokenBuckets`; `Posts`; `Notifications`;
`Reads`. What is left:

1. `Messaging` over `Posts` and `Accounts` themselves instead of surroundings
   that move freely. It can only remove behaviours: what is proved holds there
   too. Worth it for what the three promise together, as that a suspended owner
   of a listing just taken down is in nobody's inbox as somebody to write to.
2. A proof of `AdminRemains` when changes come one at a time.
