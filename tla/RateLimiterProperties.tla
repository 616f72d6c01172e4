------------------------- MODULE RateLimiterProperties ------------------------
(***************************************************************************)
(* What the rate limiter must guarantee, whoever consults it in between.   *)
(***************************************************************************)
EXTENDS RateLimiter

\* The shape of the limiter's memory and of the requests consulting it.
TypeOK ==
  /\ tracked \subseteq Key /\ recency \in Seq(Key)
  /\ tokens \in [Key -> Int] /\ age \in [Key -> Nat]
  /\ \A k \in Key : tokens[k] <= Full(k)
  /\ req \in [Handler -> Request]
  /\ watch \in [key : Key \cup {NoKey}, ticks : Nat, charges : Nat]

\* The map and the recency list are two structures that every path of consult
\* must change together: they hold the same keys, each once.  Otherwise
\* evictLocked would forget the wrong key, or never reach the ceiling.
ListAgrees ==
  /\ {recency[i] : i \in 1..Len(recency)} = tracked
  /\ \A i, j \in 1..Len(recency) : recency[i] = recency[j] => i = j

\* Logins that were let through on a token they have not yet paid for.
Owing(k) == {h \in Handler : req[h].pc = "login" /\ req[h].key = k}

\* Checking and spending are separate, so attempts made at once share a token,
\* but no more of them than the server has at work: the debt of k never
\* exceeds the other requests that were let through with the first.
DebtBounded ==
  \A k \in Key : Refilled(k) - Cardinality(Owing(k)) * Token(k) >= (1 - Cardinality(Handler)) * Token(k)

\* "A bucket of Burst B refilling over 24 hours can let through at most 2B in
\* any 24 hours" (policy.go): as long as its bucket is remembered, a key is
\* charged at most twice its burst within any window, and a login's by at most
\* as many more as were let through at once.
TwiceTheBurst ==
  watch.key # NoKey =>
    watch.charges <= 2 * Burst[watch.key]
                     + IF watch.key \in LoginKey THEN Cardinality(Handler) - 1 ELSE 0

\* The map, the list, the lazy refill, and dropping full buckets amount to
\* plain buckets: evictions aside nothing is forgotten that a new bucket would
\* not hold, and never more than MaxKeys are held.
Buckets == INSTANCE TokenBuckets WITH
  Capacity <- [k \in Key |-> Full(k)],
  Refill <- Burst,
  Price <- Window,
  Ceiling <- MaxKeys,
  level <- [k \in Key |-> Refilled(k)],
  held <- tracked

ActsAsBuckets == Buckets!BucketsSpec

\* "None of them is a lockout - buckets always refill" (policy.go): however
\* insistently a key is used, it gets a token again.
NoLockout == \A k \in Key : ~Available(k) ~> Available(k)

===============================================================================
