------------------------- MODULE RateLimiterListProofs ------------------------
(***************************************************************************)
(* Proofs that the limiter's map and recency list agree, and that map,     *)
(* list and lazy refill together act as plain buckets (TokenBuckets).      *)
(***************************************************************************)
EXTENDS RateLimiterProofs, FunctionTheorems, SequenceTheorems

-----------------------------------------------------------------------------
(* Lists without repetitions.                                              *)

Elements(q) == {q[i] : i \in 1..Len(q)}
Distinct(q) == \A i, j \in 1..Len(q) : q[i] = q[j] => i = j

\* A list without repetitions is as long as the set it lists.
LEMMA Counted ==
  ASSUME NEW S, NEW q \in Seq(S), Distinct(q)
  PROVE  IsFiniteSet(Elements(q)) /\ Cardinality(Elements(q)) = Len(q) /\ Len(q) \in Nat
<1>1. Len(q) \in Nat /\ q \in [1..Len(q) -> S]
  BY LenProperties
<1> DEFINE f == [i \in 1..Len(q) |-> q[i]]
<1>2. f \in Bijection(1..Len(q), Elements(q))
  BY Fun_IsBij DEF Elements, Distinct
<1>3. ExistsBijection(1..Len(q), Elements(q))
  BY <1>2 DEF ExistsBijection
<1>4. IsFiniteSet(1..Len(q)) /\ Cardinality(1..Len(q)) = Len(q)
  BY <1>1, FS_Interval
<1> QED BY <1>1, <1>3, <1>4, FS_Bijection

\* A part of a list.
LEMMA Part ==
  ASSUME NEW S, NEW q \in Seq(S), NEW m \in Nat \ {0}, NEW n \in Nat, n <= Len(q), m <= n + 1
  PROVE  /\ SubSeq(q, m, n) \in Seq(S) /\ Len(SubSeq(q, m, n)) = n - m + 1
         /\ \A i \in 1..(n - m + 1) : SubSeq(q, m, n)[i] = q[m + i - 1]
<1>1. Len(q) \in Nat /\ \A i \in m..n : q[i] \in S
  BY LenProperties
<1> QED BY <1>1, SubSeqProperties

\* What is left when the one place of k is taken out.
LEMMA Removed ==
  ASSUME NEW S, NEW q \in Seq(S), Distinct(q), NEW k
  PROVE  LET r == RemoveFirst(q, k) IN
         /\ r \in Seq(S) /\ Distinct(r) /\ Elements(r) = Elements(q) \ {k}
         /\ Len(r) = IF k \in Elements(q) THEN Len(q) - 1 ELSE Len(q)
<1>1. Len(q) \in Nat /\ \A i \in 1..Len(q) : q[i] \in S
  BY LenProperties
<1>2. CASE k \notin Elements(q)
  <2>1. RemoveFirst(q, k) = q
    BY <1>2 DEF RemoveFirst, Elements
  <2> QED BY <1>2, <2>1
<1>3. CASE k \in Elements(q)
  <2>1. PICK p \in 1..Len(q) : q[p] = k
    BY <1>3 DEF Elements
  <2>2. SelectInSeq(q, LAMBDA v : v = k) = p
    <3>1. {i \in 1..Len(q) : q[i] = k} = {p}
      BY <2>1 DEF Distinct
    <3>2. Min({p}) = p
      BY <1>1, <2>1 DEF Min
    <3> QED BY <3>1, <3>2 DEF SelectInSeq
  <2> DEFINE a == SubSeq(q, 1, p - 1)
             b == SubSeq(q, p + 1, Len(q))
             r == RemoveFirst(q, k)
  <2>3. r = a \o b
    BY <2>1, <2>2 DEF RemoveFirst, RemoveAt
  <2>4. a \in Seq(S) /\ Len(a) = p - 1 /\ \A i \in 1..(p - 1) : a[i] = q[i]
    BY <1>1, Part
  <2>5. b \in Seq(S) /\ Len(b) = Len(q) - p /\ \A i \in 1..(Len(q) - p) : b[i] = q[p + i]
    BY <1>1, Part
  <2>6. /\ r \in Seq(S) /\ Len(r) = Len(q) - 1
        /\ \A i \in 1..(Len(q) - 1) : r[i] = IF i < p THEN q[i] ELSE q[i + 1]
    <3> HIDE DEF a, b, r
    <3>1. /\ r \in Seq(S) /\ Len(r) = Len(a) + Len(b)
          /\ \A i \in 1..(Len(a) + Len(b)) : r[i] = IF i <= Len(a) THEN a[i] ELSE b[i - Len(a)]
      BY <2>3, <2>4, <2>5, ConcatProperties
    <3>2. Len(r) = Len(q) - 1
      BY <1>1, <2>4, <2>5, <3>1
    <3>3. ASSUME NEW i \in 1..(Len(q) - 1) PROVE r[i] = IF i < p THEN q[i] ELSE q[i + 1]
      <4>1. CASE i < p
        <5>1. i \in 1..(p - 1) /\ i <= Len(a) /\ i \in 1..(Len(a) + Len(b))
          BY <1>1, <2>4, <2>5, <4>1
        <5>2. r[i] = a[i]
          BY <3>1, <5>1
        <5>3. a[i] = q[i]
          BY <2>4, <5>1
        <5> QED BY <4>1, <5>2, <5>3
      <4>2. CASE i >= p
        <5>1. i - (p - 1) \in 1..(Len(q) - p) /\ p + (i - (p - 1)) = i + 1
          BY <1>1, <4>2
        <5>2. ~(i <= Len(a)) /\ i - Len(a) = i - (p - 1) /\ i \in 1..(Len(a) + Len(b))
          BY <1>1, <2>4, <2>5, <4>2
        <5>3. r[i] = b[i - (p - 1)]
          BY <3>1, <5>2
        <5>4. b[i - (p - 1)] = q[p + (i - (p - 1))]
          BY <2>5, <5>1
        <5>5. ~(i < p)
          BY <1>1, <4>2
        <5> QED BY <5>1, <5>3, <5>4, <5>5
      <4> QED BY <1>1, <4>1, <4>2
    <3> QED BY <3>1, <3>2, <3>3
  <2> HIDE DEF a, b, r
  <2>7. Distinct(r)
    BY <1>1, <2>6 DEF Distinct
  <2>8. Elements(r) = Elements(q) \ {k}
    <3>1. ASSUME NEW i \in 1..Len(r) PROVE r[i] \in Elements(q) \ {k}
      BY <1>1, <2>1, <2>6 DEF Distinct, Elements
    <3>2. ASSUME NEW i \in 1..Len(q), i # p PROVE q[i] \in Elements(r)
      <4>1. CASE i < p
        BY <1>1, <2>6, <4>1 DEF Elements
      <4>2. CASE i > p
        <5>1. i - 1 \in 1..Len(r) /\ r[i - 1] = q[i]
          BY <1>1, <2>6, <4>2
        <5> QED BY <5>1 DEF Elements
      <4> QED BY <1>1, <3>2, <4>1, <4>2
    <3> QED BY <2>1, <3>1, <3>2 DEF Elements
  <2> QED BY <1>3, <2>6, <2>7, <2>8 DEF r
<1> QED BY <1>2, <1>3

-----------------------------------------------------------------------------
(* The invariant: the list and the map are one, at most MaxKeys long, and    *)
(* what the map does not remember is full.                                   *)

Listed ==
  /\ recency \in Seq(Key) /\ ListAgrees /\ Len(recency) <= MaxKeys
  /\ \A k \in Key : tokens[k] <= Full(k) /\ (k \notin tracked => tokens[k] = Full(k))

ListInv == LimiterInv /\ Listed

LEMMA ListedForm ==
  ListAgrees <=> Distinct(recency) /\ Elements(recency) = tracked
BY DEF ListAgrees, Distinct, Elements

LEMMA ListedFormNext ==
  ListAgrees' <=> Distinct(recency') /\ Elements(recency') = tracked'
BY DEF ListAgrees, Distinct, Elements

\* The list once k is in front.
LEMMA Pushed ==
  ASSUME Listed, NEW k \in Key
  PROVE  /\ ToFront(k) \in Seq(Key) /\ Distinct(ToFront(k)) /\ ToFront(k)[1] = k
         /\ Elements(ToFront(k)) = tracked \cup {k}
         /\ Len(ToFront(k)) \in 1..(MaxKeys + 1)
<1>1. /\ recency \in Seq(Key) /\ Distinct(recency) /\ Elements(recency) = tracked
      /\ Len(recency) \in Nat /\ Len(recency) <= MaxKeys /\ MaxKeys \in Nat
  BY ListedForm, LenProperties, RateLimiterAssumption DEF Listed
<1> DEFINE r == RemoveFirst(recency, k)
           q == ToFront(k)
<1>2. /\ r \in Seq(Key) /\ Distinct(r) /\ Elements(r) = tracked \ {k}
      /\ Len(r) \in Nat /\ Len(r) <= MaxKeys
  <2>1. /\ r \in Seq(Key) /\ Distinct(r) /\ Elements(r) = tracked \ {k}
        /\ Len(r) = IF k \in Elements(recency) THEN Len(recency) - 1 ELSE Len(recency)
    BY <1>1, Removed
  <2>2. Len(r) \in Nat
    BY <2>1, LenProperties
  <2> QED BY <1>1, <2>1, <2>2
<1>3. q = <<k>> \o r /\ <<k>> \in Seq(Key) /\ Len(<<k>>) = 1 /\ <<k>>[1] = k
  BY DEF ToFront
<1> HIDE DEF r, q
<1>4. /\ q \in Seq(Key) /\ Len(q) = 1 + Len(r)
      /\ \A i \in 1..(1 + Len(r)) : q[i] = IF i <= 1 THEN <<k>>[i] ELSE r[i - 1]
  BY <1>2, <1>3, ConcatProperties
<1>5. Len(q) \in 1..(MaxKeys + 1) /\ q[1] = k
  BY <1>1, <1>2, <1>3, <1>4
<1>6. ASSUME NEW i \in 1..Len(q), i # 1 PROVE i - 1 \in 1..Len(r) /\ q[i] = r[i - 1]
  BY <1>2, <1>4, <1>6
<1>7. ASSUME NEW i \in 1..Len(r) PROVE i + 1 \in 1..Len(q) /\ q[i + 1] = r[i]
  <2>1. i + 1 \in 1..Len(q) /\ i + 1 # 1 /\ (i + 1) - 1 = i
    BY <1>2, <1>4
  <2> QED BY <1>6, <2>1
<1>8. \A i \in 1..Len(q) : i # 1 => q[i] \in tracked \ {k}
  BY <1>2, <1>6 DEF Elements
<1>9. Distinct(q)
  <2> SUFFICES ASSUME NEW i \in 1..Len(q), NEW j \in 1..Len(q), q[i] = q[j] PROVE i = j
    BY DEF Distinct
  <2>1. CASE i = 1 \/ j = 1
    BY <1>5, <1>8, <2>1
  <2>2. CASE i # 1 /\ j # 1
    <3>1. i - 1 = j - 1
      BY <1>2, <1>6, <2>2 DEF Distinct
    <3> QED BY <3>1
  <2> QED BY <2>1, <2>2
<1>10. Elements(q) = tracked \cup {k}
  <2>1. Elements(q) \subseteq tracked \cup {k}
    BY <1>5, <1>8 DEF Elements
  <2>2. k \in Elements(q)
    BY <1>5 DEF Elements
  <2>3. tracked \ {k} \subseteq Elements(q)
    <3>1. Elements(r) \subseteq Elements(q)
      BY <1>7 DEF Elements
    <3> QED BY <1>2, <3>1
  <2> QED BY <2>1, <2>2, <2>3
<1> QED BY <1>4, <1>5, <1>9, <1>10 DEF q

\* The list once evictLocked has run: at most one key goes, and never k.
LEMMA Evicting ==
  ASSUME Listed, NEW k \in Key
  PROVE  /\ Kept(k) \in Seq(Key) /\ Distinct(Kept(k)) /\ Len(Kept(k)) <= MaxKeys
         /\ Elements(Kept(k)) = (tracked \cup {k}) \ Evicted(k)
         /\ k \notin Evicted(k) /\ Evicted(k) \subseteq tracked
         /\ IF Cardinality(tracked \cup {k}) <= MaxKeys THEN Evicted(k) = {}
            ELSE \E j \in tracked \ {k} : Evicted(k) = {j}
<1> DEFINE q == ToFront(k)
           n == AtMost(Len(q), MaxKeys)
           p == Kept(k)
<1>1. /\ q \in Seq(Key) /\ Distinct(q) /\ q[1] = k /\ Elements(q) = tracked \cup {k}
      /\ Len(q) \in 1..(MaxKeys + 1) /\ MaxKeys \in Nat /\ MaxKeys >= 1
  <2>1. MaxKeys \in Nat /\ MaxKeys >= 1
    BY RateLimiterAssumption
  <2> QED BY <2>1, Pushed
<1>2. Cardinality(tracked \cup {k}) = Len(q)
  BY <1>1, Counted
<1>3. Evicted(k) = {q[i] : i \in {m \in 1..Len(q) : m > MaxKeys}} /\ p = SubSeq(q, 1, n)
  BY DEF Evicted, Kept
<1> HIDE DEF q, p
<1>4. n \in Nat /\ n <= Len(q) /\ n <= MaxKeys /\ n >= 1
      /\ (\A i \in 1..Len(q) : i > MaxKeys <=> ~(i <= n))
  BY <1>1 DEF AtMost
<1> HIDE DEF n
<1>5. /\ p \in Seq(Key) /\ Len(p) = n /\ \A i \in 1..n : p[i] = q[i]
  <2>1. /\ p \in Seq(Key) /\ Len(p) = n - 1 + 1
        /\ \A i \in 1..(n - 1 + 1) : p[i] = q[1 + i - 1]
    BY <1>1, <1>3, <1>4, Part
  <2>2. n - 1 + 1 = n /\ \A i \in 1..n : 1 + i - 1 = i
    BY <1>4
  <2> QED BY <2>1, <2>2
<1>6. Distinct(p)
  BY <1>1, <1>4, <1>5 DEF Distinct
<1>7. Elements(p) = Elements(q) \ Evicted(k)
  <2>1. ASSUME NEW i \in 1..n PROVE q[i] \notin Evicted(k)
    BY <1>1, <1>3, <1>4 DEF Distinct
  <2>2. ASSUME NEW i \in 1..Len(q), q[i] \notin Evicted(k) PROVE i \in 1..n
    BY <1>1, <1>3, <1>4, <2>2
  <2>3. Elements(p) = {q[i] : i \in 1..n} /\ 1..n \subseteq 1..Len(q)
    BY <1>1, <1>4, <1>5 DEF Elements
  <2> QED BY <2>1, <2>2, <2>3 DEF Elements
<1>8. k \notin Evicted(k) /\ Evicted(k) \subseteq tracked
  <2>1. k \notin Evicted(k)
    BY <1>1, <1>3 DEF Distinct
  <2>2. Evicted(k) \subseteq Elements(q)
    BY <1>3 DEF Elements
  <2> QED BY <1>1, <2>1, <2>2
<1>9. Len(p) <= MaxKeys /\ Elements(p) = (tracked \cup {k}) \ Evicted(k)
  BY <1>1, <1>4, <1>5, <1>7
<1>10. IF Len(q) <= MaxKeys THEN Evicted(k) = {} ELSE \E j \in tracked \ {k} : Evicted(k) = {j}
  <2>1. CASE Len(q) <= MaxKeys
    BY <1>1, <1>3, <2>1
  <2>2. CASE ~(Len(q) <= MaxKeys)
    <3>1. {m \in 1..Len(q) : m > MaxKeys} = {Len(q)}
      BY <1>1, <2>2
    <3>2. Evicted(k) = {q[Len(q)]}
      BY <1>3, <3>1
    <3> QED BY <1>8, <2>2, <3>2
  <2> QED BY <2>1, <2>2
<1> QED BY <1>2, <1>5, <1>6, <1>8, <1>9, <1>10 DEF p

-----------------------------------------------------------------------------
(* A consultation, exactly.                                                *)

Dropped(k, take) == IF ~take /\ Droppable(k) THEN {k} ELSE {}
Gone(k, take) == Evicted(k) \cup Dropped(k, take)
Paid(k, take, force) == IF Charges(k, take, force) THEN Token(k) ELSE 0

\* What every bucket is set to, and what it holds after.
LEMMA LevelsAfter ==
  ASSUME Typed, NEW k \in Key, NEW take, NEW force, consult(k, take, force), NEW j \in Key
  PROVE  /\ tokens'[j] = IF j \in Gone(k, take) THEN Full(j)
                         ELSE IF j = k THEN Refilled(k) - Paid(k, take, force) ELSE tokens[j]
         /\ Refilled(j)' = IF j \in Gone(k, take) THEN Full(j)
                           ELSE IF j = k THEN Refilled(k) - Paid(k, take, force) ELSE Refilled(j)
<1>1. tokens'[j] = IF j \in Gone(k, take) THEN Full(j)
                   ELSE IF j = k THEN Refilled(k) - Paid(k, take, force) ELSE tokens[j]
  BY DEF consult, Typed, Gone, Dropped, Paid
<1>2. age'[j] = IF j \in Gone(k, take) \cup {k} THEN 0 ELSE age[j]
  BY DEF consult, Gone, Dropped
<1>3. /\ Refilled(k) \in Int /\ Refilled(k) <= Full(k) /\ Full(j) \in Int /\ Full(k) \in Int
      /\ Paid(k, take, force) \in Nat
  BY Levels, Rules DEF Paid
<1>4. CASE j \in Gone(k, take)
  BY <1>1, <1>2, <1>3, <1>4, LevelNow
<1>5. CASE j \notin Gone(k, take) /\ j = k
  <2>1. tokens'[k] = Refilled(k) - Paid(k, take, force) /\ age'[k] = 0
    BY <1>1, <1>2, <1>5
  <2>2. Refilled(k) - Paid(k, take, force) \in Int /\ Refilled(k) - Paid(k, take, force) <= Full(k)
    BY <1>3
  <2>3. Refilled(k)' = Refilled(k) - Paid(k, take, force)
    BY <2>1, <2>2, LevelNow
  <2> QED BY <1>1, <1>5, <2>3
<1>6. CASE j \notin Gone(k, take) /\ j # k
  <2>1. tokens'[j] = tokens[j] /\ age'[j] = age[j]
    BY <1>1, <1>2, <1>6
  <2> QED BY <1>1, <1>6, <2>1 DEF Refilled, Full
<1> QED BY <1>4, <1>5, <1>6

LEMMA ConsultListed ==
  ASSUME Typed, Listed, NEW k \in Key, NEW take, NEW force, consult(k, take, force)
  PROVE  Listed' /\ tracked' = (tracked \cup {k}) \ Gone(k, take)
<1> DEFINE p == Kept(k)
           dropped == ~take /\ Droppable(k)
<1>1. /\ p \in Seq(Key) /\ Distinct(p) /\ Len(p) <= MaxKeys /\ Len(p) \in Nat
      /\ Elements(p) = (tracked \cup {k}) \ Evicted(k)
      /\ k \notin Evicted(k) /\ MaxKeys \in Nat
  BY Evicting, LenProperties, RateLimiterAssumption
<1>2. /\ recency' = IF dropped THEN RemoveFirst(p, k) ELSE p
      /\ tracked' = (tracked \cup {k}) \ Gone(k, take)
  BY DEF consult, Gone, Dropped
<1> HIDE DEF p
<1>3. /\ recency' \in Seq(Key) /\ Distinct(recency') /\ Elements(recency') = tracked'
      /\ Len(recency') <= MaxKeys
  <2>1. CASE dropped
    <3>1. /\ recency' \in Seq(Key) /\ Distinct(recency') /\ Elements(recency') = Elements(p) \ {k}
          /\ Len(recency') = IF k \in Elements(p) THEN Len(p) - 1 ELSE Len(p)
      BY <1>1, <1>2, <2>1, Removed
    <3>2. Elements(p) \ {k} = tracked'
      BY <1>1, <1>2, <2>1 DEF Gone, Dropped
    <3> QED BY <1>1, <3>1, <3>2
  <2>2. CASE ~dropped
    BY <1>1, <1>2, <2>2 DEF Gone, Dropped
  <2> QED BY <2>1, <2>2
<1>4. ASSUME NEW j \in Key
      PROVE  tokens'[j] <= Full(j) /\ (j \notin tracked' => tokens'[j] = Full(j))
  <2>1. /\ tokens'[j] = IF j \in Gone(k, take) THEN Full(j)
                        ELSE IF j = k THEN Refilled(k) - Paid(k, take, force) ELSE tokens[j]
        /\ Refilled(k) \in Int /\ Refilled(k) <= Full(k) /\ Full(j) \in Int /\ Full(k) \in Int
        /\ Paid(k, take, force) \in Nat
    BY LevelsAfter, Levels, Rules DEF Paid
  <2>2. tokens[j] <= Full(j) /\ (j \notin tracked => tokens[j] = Full(j))
    BY DEF Listed
  <2> QED BY <1>2, <2>1, <2>2
<1> QED BY <1>2, <1>3, <1>4, ListedFormNext DEF Listed, Full

-----------------------------------------------------------------------------
(* The steps.                                                              *)

LEMMA StepKinds ==
  ASSUME LimiterInv, [Next]_vars
  PROVE  \/ UNCHANGED limiter
         \/ Tick
         \/ Restart
         \/ \E k \in Key, take, force \in BOOLEAN : consult(k, take, force)
<1> DEFINE Some == \E k \in Key, take, force \in BOOLEAN : consult(k, take, force)
<1>1. ASSUME NEW k \in Key, Allow(k) \/ Peek(k) \/ Spend(k) PROVE Some
  BY <1>1 DEF Allow, Peek, Spend
<1> HIDE DEF Some
<1>2. ASSUME NEW h \in Handler, Consult(h) PROVE UNCHANGED limiter \/ Some
  <2>1. Fits(req[h])
    BY DEF LimiterInv
  <2>2. LoginKey \subseteq Key
    BY RateLimiterAssumption
  <2>3. CASE GlobalAllowed(h) \/ NotifyPeeked(h) \/ CapAllowed(h)
    BY <1>1, <2>1, <2>3 DEF GlobalAllowed, NotifyPeeked, CapAllowed, Fits
  <2>4. CASE KeyAllowed(h) \/ LoginPeeked(h) \/ RecipientAllowed(h)
    BY <1>1, <2>1, <2>4 DEF KeyAllowed, LoginPeeked, RecipientAllowed, Fits
  <2>5. CASE LoginFailed(h)
    BY <1>1, <2>1, <2>2, <2>5 DEF LoginFailed, Fits
  <2>6. CASE LoginAccepted(h)
    BY <2>6 DEF LoginAccepted
  <2> QED BY <1>2, <2>3, <2>4, <2>5, <2>6 DEF Consult
<1>3. CASE UNCHANGED vars
  BY <1>3 DEF vars, limiter
<1>4. ASSUME NEW h \in Handler,
             \/ \E k \in RouteKey \cup LoginKey : RateLimit(h, k)
             \/ \E k \in RecipientKey : Notify(h, k)
      PROVE  UNCHANGED limiter
  BY <1>4 DEF RateLimit, Notify
<1>5. ASSUME NEW k \in Watched, StartWatch(k) PROVE UNCHANGED limiter
  BY <1>5 DEF StartWatch
<1> QED BY <1>2, <1>3, <1>4, <1>5 DEF Next, Some

\* Waiting leaves the memory as it is.
LEMMA TickListed ==
  ASSUME Typed, Listed, Tick
  PROVE  Listed'
<1>1. UNCHANGED <<tracked, tokens, recency>>
  BY DEF Tick
<1> QED BY <1>1 DEF Listed, ListAgrees, Full

\* Nothing is remembered, and every bucket is full.
LEMMA FreshListed == Fresh => Listed
<1> SUFFICES ASSUME Fresh PROVE Listed
  OBVIOUS
<1>1. recency = <<>> /\ tracked = {} /\ \A k \in Key : tokens[k] = Full(k)
  BY DEF Fresh
<1>2. Len(recency) = 0 /\ recency \in Seq(Key) /\ 1..0 = {}
  BY <1>1
<1>3. ListAgrees
  BY <1>1, <1>2 DEF ListAgrees
<1>4. MaxKeys \in Nat /\ \A k \in Key : Full(k) \in Int
  BY Rules, RateLimiterAssumption
<1> QED BY <1>1, <1>2, <1>3, <1>4 DEF Listed

LEMMA RestartListed == Restart => Listed'
<1>1. Restart => Fresh'
  BY DEF Restart, Fresh, Idle, Full
<1> QED BY <1>1, FreshListed, PTL

LEMMA NextListed == ListInv /\ [Next]_vars => ListInv'
<1> SUFFICES ASSUME ListInv, [Next]_vars PROVE Listed'
  BY NextInv DEF ListInv
<1>1. LimiterInv /\ Listed /\ Typed
  BY DEF ListInv, LimiterInv
<1>2. CASE UNCHANGED limiter
  BY <1>1, <1>2 DEF Listed, ListAgrees, limiter, Full
<1>3. CASE \E k \in Key, take, force \in BOOLEAN : consult(k, take, force)
  BY <1>1, <1>3, ConsultListed
<1> QED BY <1>1, <1>2, <1>3, StepKinds, TickListed, RestartListed

\* Every reachable state satisfies the invariant.
THEOREM ListInvariance == Spec => []ListInv
<1>1. Init => ListInv
  BY InitInv, FreshListed DEF Init, ListInv
<1> QED BY <1>1, NextListed, PTL DEF Spec

\* The limiter's memory and the requests at work keep their shape, and no bucket
\* holds more than it may.
THEOREM TypeCorrect == Spec => []TypeOK
<1>1. ListInv => TypeOK
  <2> SUFFICES ASSUME ListInv PROVE TypeOK
    OBVIOUS
  <2>1. tracked \subseteq Key
    <3>1. recency \in Seq(Key) /\ Elements(recency) = tracked
      BY ListedForm DEF ListInv, Listed
    <3> QED BY <3>1, LenProperties DEF Elements
  <2> QED BY <2>1 DEF ListInv, LimiterInv, Listed, Typed, Watches, TypeOK
<1> QED BY <1>1, ListInvariance, PTL

\* The map and the recency list hold the same keys, each once, after every path
\* of consult: evictLocked forgets the right key and keeps under the ceiling.
THEOREM ListsAgree == Spec => []ListAgrees
<1>1. ListInv => ListAgrees
  BY DEF ListInv, Listed
<1> QED BY <1>1, ListInvariance, PTL

-----------------------------------------------------------------------------
(* The limiter as plain buckets (TokenBuckets).                            *)

Level == [j \in Key |-> Refilled(j)]

\* A consultation charges, looks, or looks and forgets.
LEMMA ConsultActs ==
  ASSUME Typed, Listed, NEW k \in Key, NEW take, NEW force, consult(k, take, force)
  PROVE  Buckets!Charge(k) \/ Buckets!Look(k) \/ Buckets!LookAndForget(k)
<1> DEFINE gone == Evicted(k)
           filled == [j \in Key |-> IF j \in gone THEN Full(j) ELSE Refilled(j)]
           level == [j \in Key |-> Refilled(j)']
<1>1. gone \in Buckets!GivenUp(k) /\ k \notin gone
  <2>1. Buckets!Cardinality(tracked \cup {k}) = Cardinality(tracked \cup {k})
    BY DEF Buckets!Cardinality, Cardinality
  <2> QED BY <2>1, Evicting DEF Buckets!GivenUp
<1>2. Buckets!Filled(gone) = filled
  BY DEF Buckets!Filled
<1>3. tracked' = (tracked \cup {k}) \ Gone(k, take)
  BY ConsultListed
<1>4. \A j \in Key :
        Refilled(j)' = IF j \in Gone(k, take) THEN Full(j)
                       ELSE IF j = k THEN Refilled(k) - Paid(k, take, force) ELSE Refilled(j)
  BY LevelsAfter
<1>5. Refilled(k) \in Int /\ Window[k] = Token(k)
  BY Levels, Rules
<1>6. CASE Charges(k, take, force)
  <2>1. Gone(k, take) = gone /\ Paid(k, take, force) = Window[k]
    BY <1>5, <1>6 DEF Gone, Dropped, Paid, Charges
  <2>2. level = [filled EXCEPT ![k] = @ - Window[k]]
    BY <1>1, <1>4, <2>1
  <2>3. tracked' = (tracked \cup {k}) \ gone
    BY <1>3, <2>1
  <2> QED BY <1>1, <1>2, <2>2, <2>3 DEF Buckets!Charge
<1>7. CASE ~Charges(k, take, force) /\ Dropped(k, take) = {}
  <2>1. Gone(k, take) = gone /\ Refilled(k) - Paid(k, take, force) = Refilled(k)
    BY <1>5, <1>7 DEF Gone, Paid
  <2>2. level = filled
    BY <1>4, <2>1
  <2>3. tracked' = (tracked \cup {k}) \ gone
    BY <1>3, <2>1
  <2> QED BY <1>1, <1>2, <2>2, <2>3 DEF Buckets!Look
<1>8. CASE Dropped(k, take) # {}
  <2>1. Gone(k, take) = gone \cup {k} /\ Refilled(k) = Full(k)
    BY <1>8 DEF Gone, Dropped, Droppable
  <2>2. level = filled
    BY <1>4, <2>1
  <2>3. tracked' = tracked \ (gone \cup {k})
    BY <1>3, <2>1
  <2> QED BY <1>1, <1>2, <2>1, <2>2, <2>3 DEF Buckets!LookAndForget
<1> QED BY <1>6, <1>7, <1>8

\* A tick refills every bucket, whether or not its age is kept.
LEMMA TickActs ==
  ASSUME Typed, Listed, Tick
  PROVE  Buckets!Elapse
<1>1. UNCHANGED <<tracked, tokens>>
  BY DEF Tick
<1>2. ASSUME NEW k \in Key PROVE Refilled(k)' = Buckets!AtMost(Refilled(k) + Burst[k], Full(k))
  <2>1. /\ tokens[k] \in Int /\ age[k] \in Nat /\ Full(k) \in Int /\ Burst[k] \in Nat
        /\ Refilled(k) \in Int /\ Refilled(k) <= Full(k)
    BY Levels, Rules DEF Typed
  <2>2. tokens'[k] = tokens[k] /\ Full(k)' = Full(k)
    BY <1>1 DEF Full
  <2>3. CASE k \in tracked /\ Refilled(k) < Full(k)
    <3>1. age'[k] = age[k] + 1
      BY <2>3 DEF Tick
    <3>2. Refilled(k) = tokens[k] + age[k] * Burst[k]
      BY <2>1, <2>3, Levels
    <3>3. age'[k] * Burst[k] = age[k] * Burst[k] + Burst[k] /\ age[k] * Burst[k] \in Int
      <4>1. PICK n \in Int, b \in Int : n = age[k] /\ b = Burst[k]
        BY <2>1
      <4>2. (n + 1) * b = n * b + b /\ n * b \in Int
        OBVIOUS
      <4>3. age'[k] * Burst[k] = (n + 1) * b
        BY <3>1, <4>1, Zenon
      <4>4. age[k] * Burst[k] = n * b
        BY <4>1, Zenon
      <4> QED BY <4>1, <4>2, <4>3, <4>4, Zenon
    <3>4. tokens'[k] + age'[k] * Burst[k] = Refilled(k) + Burst[k]
      BY <2>1, <2>2, <3>2, <3>3
    <3> QED BY <2>2, <3>4 DEF Refilled, AtMost, Buckets!AtMost
  <2>4. CASE ~(k \in tracked /\ Refilled(k) < Full(k))
    <3>1. age'[k] = age[k]
      BY <2>4 DEF Tick
    <3>2. Refilled(k)' = Refilled(k)
      BY <2>2, <3>1 DEF Refilled
    <3>3. Refilled(k) = Full(k)
      <4>1. CASE k \notin tracked
        <5>1. tokens[k] = Full(k) /\ age[k] * Burst[k] \in Nat
          BY <2>1, <4>1 DEF Listed
        <5> QED BY <2>1, <5>1 DEF Refilled, AtMost
      <4>2. CASE k \in tracked
        BY <2>1, <2>4, <4>2
      <4> QED BY <4>1, <4>2
    <3> QED BY <2>1, <3>2, <3>3 DEF Buckets!AtMost
  <2> QED BY <2>3, <2>4
<1> QED BY <1>1, <1>2 DEF Buckets!Elapse

\* New buckets are full.
LEMMA FreshLevel == Fresh => Level = [k \in Key |-> Full(k)] /\ tracked = {}
<1> SUFFICES ASSUME Fresh, NEW k \in Key PROVE Refilled(k) = Full(k)
  BY DEF Fresh, Level
<1> QED BY Rules DEF Fresh, Refilled, AtMost

LEMMA RestartActs == Restart => Buckets!ForgetAll
<1>1. Restart => Fresh'
  BY DEF Restart, Fresh, Idle, Full
<1>2. Fresh' => (Level = [k \in Key |-> Full(k)] /\ tracked = {})'
  BY FreshLevel, PTL
<1> QED BY <1>1, <1>2 DEF Buckets!ForgetAll, Level, Full

\* The map, the recency list, the lazy refill and the dropping of full buckets
\* act as plain buckets: a key loses nothing but the tokens it is charged, and
\* what is given up at the ceiling is another key's and is full again.
THEOREM ImplementsBuckets == Spec => ActsAsBuckets
<1>1. Init => Buckets!BucketsInit
  BY FreshLevel DEF Init, Buckets!BucketsInit, Level
<1>2. ListInv /\ [Next]_vars => [Buckets!BucketsNext]_Buckets!bucketVars
  <2> SUFFICES ASSUME ListInv, [Next]_vars PROVE [Buckets!BucketsNext]_Buckets!bucketVars
    OBVIOUS
  <2>1. LimiterInv /\ Listed /\ Typed
    BY DEF ListInv, LimiterInv
  <2>2. CASE UNCHANGED limiter
    BY <2>2 DEF limiter, Buckets!bucketVars, Refilled, Full
  <2>3. CASE \E k \in Key, take, force \in BOOLEAN : consult(k, take, force)
    BY <2>1, <2>3, ConsultActs DEF Buckets!BucketsNext
  <2> QED BY <2>1, <2>2, <2>3, StepKinds, TickActs, RestartActs DEF Buckets!BucketsNext
<1> QED BY <1>1, <1>2, ListInvariance, PTL DEF Spec, ActsAsBuckets, Buckets!BucketsSpec

===============================================================================
