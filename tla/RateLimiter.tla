------------------------------ MODULE RateLimiter -----------------------------
(***************************************************************************)
(* The rate limiter (internal/ratelimit) and those who consult it: the     *)
(* middleware in front of the limited routes, Login, which charges for a   *)
(* failed attempt only, and the notification emails with their two caps.   *)
(*                                                                         *)
(* consult runs under the limiter's mutex and is one step.  A request      *)
(* consults it up to three times, and others come between.  The float64    *)
(* arithmetic is exact here: a token of k is Window[k] units, of which     *)
(* Burst[k] come back each tick.                                           *)
(***************************************************************************)
EXTENDS Integers, FiniteSets, SequencesExt

CONSTANTS
  Key,         \* keys of buckets, each with the rule it is of
  Burst,       \* Burst[k]: attempts at once
  Window,      \* Window[k]: ticks to refill from empty
  RouteKey,    \* keys the middleware charges in advance
  LoginKey,    \* keys of login, charged when an attempt fails
  RecipientKey,\* keys of NotifyPerRecipient
  NotifyGlobal,\* the key of the rule of that name
  GlobalOf,    \* GlobalOf[k]: the backstop of the route k belongs to, if any
  NoKey,       \* no identity, or no backstop
  MaxKeys,     \* the ceiling on tracked keys
  Watched,     \* bound: keys whose charges are counted
  Handler      \* requests at work at one time

ASSUME RateLimiterAssumption ==
  /\ NoKey \notin Key /\ MaxKeys \in Nat \ {0} /\ NotifyGlobal \in Key
  /\ Burst \in [Key -> Nat \ {0}] /\ Window \in [Key -> Nat \ {0}]
  /\ RouteKey \cup LoginKey \cup RecipientKey \subseteq Key
  /\ GlobalOf \in [RouteKey \cup LoginKey -> Key \cup {NoKey}]
  /\ LoginKey \cap (RouteKey \cup RecipientKey) = {}
  /\ \A k \in RouteKey \cup LoginKey : GlobalOf[k] \notin LoginKey
  /\ NotifyGlobal \notin LoginKey /\ Watched \subseteq Key
  /\ IsFiniteSet(Handler) /\ Handler # {}

VARIABLES
  tracked,  \* the keys of the map buckets
  tokens,   \* each bucket's units when it was last refilled, full when untracked
  age,      \* ticks since then
  recency,  \* the list of keys, most recently used first
  req,      \* what each request at work is to do next
  watch     \* history: the charges of one key since a moment

limiter == <<tracked, tokens, age, recency>>
vars == <<tracked, tokens, age, recency, req, watch>>

-----------------------------------------------------------------------------
(* consult. *)

Full(k) == Burst[k] * Window[k]
Token(k) == Window[k]
AtMost(n, bound) == IF n <= bound THEN n ELSE bound

\* Mutant: the refill is not capped at full.
Refilled_uncapped(k) == tokens[k] + age[k] * Burst[k]

\* What the bucket holds now.
Refilled(k) == AtMost(tokens[k] + age[k] * Burst[k], Full(k))

Available(k) == Refilled(k) >= Token(k)

\* Mutant: a used key is pushed to the front and not removed from its place.
ToFront_twice(k) == <<k>> \o recency

\* PushFront and MoveToFront: a key has at most one place in the list.
ToFront(k) == <<k>> \o RemoveFirst(recency, k)

\* Mutant: Peek forgets every bucket that has a token.
Droppable_available(k) == Available(k)

\* A bucket as full as a new one need not be kept.
Droppable(k) == Refilled(k) = Full(k)

\* Mutant: whoever is refused goes into debt.
Charges_always(k, take, force) == take

\* Whether the consultation takes a token.
Charges(k, take, force) == take /\ (force \/ Available(k))

\* Mutant: the ceiling is checked before the new key is counted.
Evicted_late(k) ==
  LET q == ToFront(k) IN
  {q[i] : i \in {n \in 1..Len(q) : n > MaxKeys + 1}}

\* The keys evictLocked discards once k is in front.
Evicted(k) ==
  LET q == ToFront(k) IN
  {q[i] : i \in {n \in 1..Len(q) : n > MaxKeys}}

\* What evictLocked leaves of the list.
Kept(k) == SubSeq(ToFront(k), 1, AtMost(Len(ToFront(k)), MaxKeys))

consult(k, take, force) ==
  LET charged == Charges(k, take, force)
      dropped == ~take /\ Droppable(k)
      gone == Evicted(k) \cup IF dropped THEN {k} ELSE {}
      left == [tokens EXCEPT ![k] = Refilled(k) - IF charged THEN Token(k) ELSE 0]
  IN
  /\ recency' = IF dropped THEN RemoveFirst(Kept(k), k) ELSE Kept(k)
  /\ tracked' = (tracked \cup {k}) \ gone
  /\ tokens' = [j \in Key |-> IF j \in gone THEN Full(j) ELSE left[j]]
  /\ age' = [j \in Key |-> IF j \in gone \cup {k} THEN 0 ELSE age[j]]
  /\ watch' = IF watch.key \in Evicted(k) THEN [watch EXCEPT !.key = NoKey]
              ELSE IF charged /\ watch.key = k THEN [watch EXCEPT !.charges = @ + 1]
              ELSE watch

Allow(k) == consult(k, TRUE, FALSE)
Peek(k) == consult(k, FALSE, FALSE)
Spend(k) == consult(k, TRUE, TRUE)

-----------------------------------------------------------------------------
(* Those who consult it. *)

Request == [pc : {"idle", "global", "key", "login", "notify", "recipient", "cap"},
            global : Key \cup {NoKey}, key : Key \cup {NoKey}]
Idle == [pc |-> "idle", global |-> NoKey, key |-> NoKey]

Goto(h, pc) == req' = [req EXCEPT ![h].pc = pc]
Finish(h) == req' = [req EXCEPT ![h] = Idle]

\* Where a request goes when its bucket had a token, or else it is refused.
Onward(h, k, pc) == IF Available(k) THEN Goto(h, pc) ELSE Finish(h)

\* RateLimit: a request for the route of k; a body without an identity meets
\* only the backstop.
RateLimit(h, k) ==
  /\ req[h].pc = "idle"
  /\ \E key \in {k, NoKey} :
       /\ GlobalOf[k] # NoKey \/ key # NoKey
       /\ req' = [req EXCEPT ![h] =
            [pc |-> IF GlobalOf[k] = NoKey THEN "key" ELSE "global",
             global |-> GlobalOf[k], key |-> key]]
  /\ UNCHANGED <<limiter, watch>>

GlobalAllowed(h) ==
  LET g == req[h].global IN
  /\ req[h].pc = "global"
  /\ Allow(g)
  /\ IF req[h].key = NoKey THEN Finish(h) ELSE Onward(h, g, "key")

KeyAllowed(h) ==
  LET k == req[h].key IN
  /\ req[h].pc = "key" /\ k \notin LoginKey
  /\ Allow(k)
  /\ Finish(h)

\* chargeOnFailureOnly: peek, and let the handler pay.
LoginPeeked(h) ==
  LET k == req[h].key IN
  /\ req[h].pc = "key" /\ k \in LoginKey
  /\ Peek(k)
  /\ Onward(h, k, "login")

\* A correct password, a suspended account or a failed query.
LoginAccepted(h) ==
  /\ req[h].pc = "login"
  /\ Finish(h)
  /\ UNCHANGED <<limiter, watch>>

\* An unknown address or a wrong password: chargeFailedLogin.
LoginFailed(h) ==
  /\ req[h].pc = "login"
  /\ Spend(req[h].key)
  /\ Finish(h)

\* notify, once its recipient is found willing.
Notify(h, k) ==
  /\ req[h].pc = "idle"
  /\ req' = [req EXCEPT ![h] = [pc |-> "notify", global |-> NotifyGlobal, key |-> k]]
  /\ UNCHANGED <<limiter, watch>>

NotifyPeeked(h) ==
  LET g == req[h].global IN
  req[h].pc = "notify" /\ Peek(g) /\ Onward(h, g, "recipient")

RecipientAllowed(h) ==
  LET k == req[h].key IN
  req[h].pc = "recipient" /\ Allow(k) /\ Onward(h, k, "cap")

\* Sending, or not, is all that follows.
CapAllowed(h) == req[h].pc = "cap" /\ Allow(req[h].global) /\ Finish(h)

-----------------------------------------------------------------------------
(* Time, restarts and the history. *)

\* A tick; ages beyond a full bucket tell nothing.
Tick ==
  /\ age' = [k \in Key |-> IF k \in tracked /\ Refilled(k) < Full(k) THEN age[k] + 1 ELSE age[k]]
  /\ watch' = IF watch.key = NoKey THEN watch ELSE
              IF watch.ticks < Window[watch.key] THEN [watch EXCEPT !.ticks = @ + 1]
              ELSE [watch EXCEPT !.key = NoKey]
  /\ UNCHANGED <<tracked, tokens, recency, req>>

Fresh ==
  /\ tracked = {} /\ recency = <<>>
  /\ tokens = [k \in Key |-> Full(k)] /\ age = [k \in Key |-> 0]
  /\ req = [h \in Handler |-> Idle]

NoWatch == [key |-> NoKey, ticks |-> 0, charges |-> 0]

\* State lives in the process: a restart forgets it all.
Restart ==
  /\ tracked' = {} /\ recency' = <<>>
  /\ tokens' = [k \in Key |-> Full(k)] /\ age' = [k \in Key |-> 0]
  /\ req' = [h \in Handler |-> Idle]
  /\ watch' = NoWatch

\* Charges of k are counted from now on, for a window, while k is remembered.
StartWatch(k) ==
  /\ watch.key = NoKey
  /\ watch' = [NoWatch EXCEPT !.key = k]
  /\ UNCHANGED <<limiter, req>>

Init == Fresh /\ watch = NoWatch

Consult(h) ==
  \/ GlobalAllowed(h) \/ KeyAllowed(h)
  \/ LoginPeeked(h) \/ LoginAccepted(h) \/ LoginFailed(h)
  \/ NotifyPeeked(h) \/ RecipientAllowed(h) \/ CapAllowed(h)

Next ==
  \/ \E h \in Handler :
       \/ \E k \in RouteKey \cup LoginKey : RateLimit(h, k)
       \/ \E k \in RecipientKey : Notify(h, k)
       \/ Consult(h)
  \/ \E k \in Watched : StartWatch(k)
  \/ Tick \/ Restart

Spec == Init /\ [][Next]_vars

\* Time passes; nothing is assumed of those who consult.
FairSpec == Spec /\ WF_vars(Tick)

===============================================================================
