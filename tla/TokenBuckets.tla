----------------------------- MODULE TokenBuckets -----------------------------
(***************************************************************************)
(* What a rate limiter promises of its buckets, without the map, the       *)
(* recency list, the lazy refill or the requests: every bucket fills as    *)
(* time passes, a charge takes a token, and nothing else lowers or raises  *)
(* one, except that at the ceiling a held bucket may be given up, and that *)
(* a restart fills them all.                                               *)
(***************************************************************************)
EXTENDS Integers, FiniteSets

CONSTANTS
  Key,
  Capacity, \* Capacity[k]: what the bucket of k holds at most
  Refill,   \* Refill[k]: what a tick restores
  Price,    \* Price[k]: what a charge takes
  Ceiling   \* buckets held at most

VARIABLES
  level,  \* what each bucket holds; negative is a debt
  held    \* the buckets that are remembered

bucketVars == <<level, held>>

AtMost(n, bound) == IF n <= bound THEN n ELSE bound

\* The ceiling holds, and a bucket that is not remembered is full.
BucketsOK ==
  /\ level \in [Key -> Int]
  /\ held \subseteq Key /\ Cardinality(held) <= Ceiling
  /\ \A k \in Key : level[k] <= Capacity[k] /\ (k \notin held => level[k] = Capacity[k])

Elapse ==
  /\ level' = [k \in Key |-> AtMost(level[k] + Refill[k], Capacity[k])]
  /\ UNCHANGED held

\* At the ceiling a bucket is given up, any but k's, to make room for k's.
GivenUp(k) ==
  IF Cardinality(held \cup {k}) <= Ceiling THEN {{}} ELSE {{j} : j \in held \ {k}}

Filled(gone) == [j \in Key |-> IF j \in gone THEN Capacity[j] ELSE level[j]]

\* k is looked at, or charged, and remembered,
Look(k) ==
  \E gone \in GivenUp(k) : held' = (held \cup {k}) \ gone /\ level' = Filled(gone)

Charge(k) ==
  \E gone \in GivenUp(k) :
    /\ held' = (held \cup {k}) \ gone
    /\ level' = [Filled(gone) EXCEPT ![k] = @ - Price[k]]

\* or not remembered, if it is full.
LookAndForget(k) ==
  \E gone \in GivenUp(k) :
    level[k] = Capacity[k] /\ held' = held \ (gone \cup {k}) /\ level' = Filled(gone)

ForgetAll == held' = {} /\ level' = Capacity

BucketsInit == held = {} /\ level = Capacity

BucketsNext ==
  \/ Elapse \/ ForgetAll
  \/ \E k \in Key : Charge(k) \/ Look(k) \/ LookAndForget(k)

BucketsSpec == BucketsInit /\ [][BucketsNext]_bucketVars

===============================================================================
