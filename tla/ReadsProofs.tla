------------------------------ MODULE ReadsProofs -----------------------------
(***************************************************************************)
(* Proofs, for any rows, filters, page sizes and numbers of listings and   *)
(* messages, that the reads agree, that pages add up, that a client who    *)
(* walks them is treated fairly, and that exact addresses stay private.    *)
(***************************************************************************)
EXTENDS ReadsProperties, FiniteSetTheorems, FunctionTheorems, SequenceTheorems, TLAPS

-----------------------------------------------------------------------------
(* Sizes of sets.                                                          *)

\* What can be numbered without repetition is as many as the numbers.
LEMMA SameSize ==
  ASSUME NEW S, NEW T, IsFiniteSet(S), NEW f \in [S -> T],
         \A x, y \in S : f[x] = f[y] => x = y, \A t \in T : \E x \in S : f[x] = t
  PROVE  IsFiniteSet(T) /\ Cardinality(T) = Cardinality(S)
<1>1. f \in Bijection(S, T)
  BY Fun_IsBij
<1> QED BY <1>1, FS_Bijection DEF ExistsBijection

LEMMA SizeAlike ==
  ASSUME NEW S, NEW T, IsFiniteSet(T), NEW f \in [S -> T],
         \A x, y \in S : f[x] = f[y] => x = y, \A t \in T : \E x \in S : f[x] = t
  PROVE  IsFiniteSet(S) /\ Cardinality(S) = Cardinality(T)
<1>1. f \in Injection(S, T) /\ f \in Surjection(S, T)
  BY Fun_IsInj, Fun_IsSurj
<1> QED BY <1>1, FS_Injection

LEMMA Sized ==
  ASSUME NEW S, IsFiniteSet(S), NEW T, T \subseteq S
  PROVE  /\ IsFiniteSet(T) /\ Cardinality(T) \in Nat /\ Cardinality(S) \in Nat
         /\ Cardinality(T) <= Cardinality(S) /\ (Cardinality(T) = Cardinality(S) => T = S)
BY FS_Subset, FS_CardinalityType

LEMMA Smaller ==
  ASSUME NEW S, IsFiniteSet(S), NEW T, T \subseteq S, NEW x \in S, x \notin T
  PROVE  Cardinality(T) < Cardinality(S)
<1>1. Cardinality(T) # Cardinality(S)
  BY Sized
<1> QED BY <1>1, Sized

LEMMA UpToN ==
  ASSUME NEW n \in Nat
  PROVE  IsFiniteSet(1..n) /\ Cardinality(1..n) = n
BY FS_Interval

-----------------------------------------------------------------------------
(* ORDER BY: rows in the order of R.                                       *)

Orders(rows, R) ==
  /\ \A k \in rows : <<k, k>> \notin R
  /\ \A k, l, m \in rows : <<k, l>> \in R /\ <<l, m>> \in R => <<k, m>> \in R
  /\ \A k, l \in rows : k # l => <<k, l>> \in R \/ <<l, k>> \in R

Rank(rows, R, l) == Cardinality({k \in rows : <<k, l>> \in R})

LEMMA RankBound ==
  ASSUME NEW rows, IsFiniteSet(rows), NEW R, Orders(rows, R), NEW l \in rows
  PROVE  Rank(rows, R, l) \in Nat /\ Rank(rows, R, l) < Cardinality(rows)
<1>1. {k \in rows : <<k, l>> \in R} \subseteq rows /\ l \notin {k \in rows : <<k, l>> \in R}
  BY DEF Orders
<1> QED BY <1>1, Smaller, Sized DEF Rank

LEMMA RankRises ==
  ASSUME NEW rows, IsFiniteSet(rows), NEW R, Orders(rows, R), NEW k \in rows, NEW l \in rows,
         <<k, l>> \in R
  PROVE  Rank(rows, R, k) < Rank(rows, R, l)
<1> DEFINE S == {j \in rows : <<j, l>> \in R}
           T == {j \in rows : <<j, k>> \in R}
<1>1. T \subseteq S /\ k \in S /\ k \notin T
  BY DEF Orders
<1>2. IsFiniteSet(S)
  BY Sized
<1> HIDE DEF S, T
<1>3. Cardinality(T) < Cardinality(S)
  BY <1>1, <1>2, Smaller
<1> QED BY <1>3 DEF Rank, S, T

\* Each row has a rank of its own, and each rank is that of a row.
LEMMA Ranks ==
  ASSUME NEW rows, IsFiniteSet(rows), NEW R, Orders(rows, R)
  PROVE  /\ \A k, l \in rows : Rank(rows, R, k) = Rank(rows, R, l) => k = l
         /\ \A i \in 1..Cardinality(rows) : \E l \in rows : Rank(rows, R, l) = i - 1
<1> DEFINE n == Cardinality(rows)
           f == [l \in rows |-> Rank(rows, R, l) + 1]
<1>1. n \in Nat
  BY FS_CardinalityType
<1>2. \A l \in rows : Rank(rows, R, l) \in Nat /\ Rank(rows, R, l) < n
  BY RankBound
<1>3. ASSUME NEW k \in rows, NEW l \in rows, Rank(rows, R, k) = Rank(rows, R, l) PROVE k = l
  <2>1. CASE <<k, l>> \in R
    BY <1>2, <1>3, <2>1, RankRises
  <2>2. CASE <<l, k>> \in R
    BY <1>2, <1>3, <2>2, RankRises
  <2> QED BY <2>1, <2>2 DEF Orders
<1> HIDE DEF n
<1>4. f \in [rows -> 1..n] /\ \A k, l \in rows : f[k] = f[l] => k = l
  BY <1>1, <1>2, <1>3
<1>5. f \in Injection(rows, 1..n)
  BY <1>4, Fun_IsInj
<1>6. f \in Surjection(rows, 1..n)
  <2>1. IsFiniteSet(1..n) /\ Cardinality(rows) = Cardinality(1..n)
    BY <1>1, UpToN DEF n
  <2> QED BY <1>5, <2>1, FS_Injection
<1>7. ASSUME NEW i \in 1..n PROVE \E l \in rows : Rank(rows, R, l) = i - 1
  <2>1. PICK l \in rows : f[l] = i
    BY <1>6 DEF Surjection
  <2> QED BY <1>2, <2>1
<1> QED BY <1>3, <1>7 DEF n

LEMMA Numbered ==
  ASSUME NEW T, NEW n \in Nat, NEW q \in [1..n -> T]
  PROVE  q \in Seq(T) /\ Len(q) = n
OBVIOUS

\* The list in that order holds every row at its rank.
LEMMA Sorted ==
  ASSUME NEW rows, IsFiniteSet(rows), NEW R, Orders(rows, R)
  PROVE  LET q == InOrder(rows, R) IN
         /\ q \in Seq(rows) /\ Len(q) = Cardinality(rows) /\ Len(q) \in Nat
         /\ \A i \in 1..Len(q) : q[i] \in rows /\ Rank(rows, R, q[i]) = i - 1
         /\ \A l \in rows : Rank(rows, R, l) + 1 \in 1..Len(q) /\ q[Rank(rows, R, l) + 1] = l
<1> DEFINE n == Cardinality(rows)
           q == InOrder(rows, R)
<1>1. n \in Nat
  BY FS_CardinalityType
<1>2. ASSUME NEW i \in 1..n PROVE q[i] \in rows /\ Rank(rows, R, q[i]) = i - 1
  <2>1. q[i] = CHOOSE l \in rows : Rank(rows, R, l) = i - 1
    BY <1>2 DEF InOrder, Rank
  <2> QED BY <2>1, Ranks
<1>3. q \in [1..n -> rows]
  <2> DEFINE at(i) == CHOOSE l \in rows : Cardinality({k \in rows : <<k, l>> \in R}) = i - 1
  <2>1. q = [i \in 1..n |-> at(i)]
    BY DEF InOrder
  <2>2. ASSUME NEW i \in 1..n PROVE at(i) \in rows
    <3>1. \E l \in rows : Cardinality({k \in rows : <<k, l>> \in R}) = i - 1
      BY Ranks DEF Rank
    <3> QED BY <3>1
  <2> HIDE DEF at, q
  <2> QED BY <2>1, <2>2
<1> HIDE DEF q, n
<1>4. q \in Seq(rows) /\ Len(q) = n
  BY <1>1, <1>3, Numbered
<1>5. ASSUME NEW l \in rows PROVE Rank(rows, R, l) + 1 \in 1..n /\ q[Rank(rows, R, l) + 1] = l
  <2>1. Rank(rows, R, l) \in Nat /\ Rank(rows, R, l) < n
    BY RankBound DEF n
  <2>2. Rank(rows, R, l) + 1 \in 1..n
    BY <1>1, <2>1
  <2>3. Rank(rows, R, q[Rank(rows, R, l) + 1]) = Rank(rows, R, l)
    BY <1>2, <2>1, <2>2
  <2> QED BY <1>2, <2>2, <2>3, Ranks
<1> QED BY <1>1, <1>2, <1>4, <1>5 DEF q, n

\* Any order will do where none is asked for.
LEMMA Listed ==
  ASSUME NEW S, IsFiniteSet(S)
  PROVE  LET q == SetToSeq(S) IN
         /\ q \in Seq(S) /\ Len(q) = Cardinality(S) /\ Len(q) \in Nat
         /\ \A i, j \in 1..Len(q) : q[i] = q[j] => i = j
         /\ \A x \in S : \E i \in 1..Len(q) : q[i] = x
<1> DEFINE n == Cardinality(S)
           q == SetToSeq(S)
<1>1. n \in Nat /\ ExistsBijection(1..n, S)
  BY FS_CardinalityType
<1>2. \E f \in [1..n -> S] : IsInjective(f)
  <2>1. PICK f : f \in Bijection(1..n, S)
    BY <1>1 DEF ExistsBijection
  <2>2. f \in [1..n -> S] /\ IsInjective(f)
    BY <2>1 DEF Bijection, Injection
  <2> QED BY <2>2
<1>3. q \in [1..n -> S] /\ IsInjective(q)
  BY <1>2 DEF SetToSeq
<1> HIDE DEF q, n
<1>4. q \in Seq(S) /\ Len(q) = n
  BY <1>1, <1>3, Numbered
<1>5. \A i, j \in 1..n : q[i] = q[j] => i = j
  BY <1>3 DEF IsInjective
<1>6. q \in Injection(1..n, S)
  BY <1>3, <1>5, Fun_IsInj
<1>7. q \in Surjection(1..n, S)
  <2>1. Cardinality(1..n) = Cardinality(S) /\ IsFiniteSet(1..n)
    BY <1>1, UpToN DEF n
  <2> QED BY <1>6, <2>1, FS_Injection
<1>8. \A x \in S : \E i \in 1..n : q[i] = x
  BY <1>7 DEF Surjection
<1> QED BY <1>1, <1>4, <1>5, <1>8 DEF q, n

-----------------------------------------------------------------------------
(* Pages.                                                                  *)

LEMMA Least ==
  ASSUME NEW a \in Int, NEW b \in Int
  PROVE  Min({a, b}) = IF a <= b THEN a ELSE b
BY DEF Min

\* What LIMIT and OFFSET leave of rows.
WindowLen(n, limit, offset) ==
  IF offset >= n THEN 0 ELSE IF offset + limit <= n THEN limit ELSE n - offset

LEMMA Windowed ==
  ASSUME NEW T, NEW rows \in Seq(T), NEW limit \in Nat, NEW offset \in Nat
  PROVE  LET w == Window(rows, limit, offset) IN
         /\ w \in Seq(T) /\ Len(w) = WindowLen(Len(rows), limit, offset)
         /\ \A i \in 1..Len(w) : w[i] = rows[offset + i] /\ offset + i \in 1..Len(rows)
<1> DEFINE n == Len(rows)
           end == IF offset + limit <= n THEN offset + limit ELSE n
           w == Window(rows, limit, offset)
<1>1. n \in Nat /\ \A i \in 1..n : rows[i] \in T
  BY LenProperties
<1>2. w = SubSeq(rows, offset + 1, end)
  BY <1>1, Least DEF Window
<1>3. \A i \in (offset + 1)..end : rows[i] \in T
  BY <1>1
<1>4. end \in Int /\ offset + 1 \in Int
  BY <1>1
<1> HIDE DEF w, end
<1>5. /\ w \in Seq(T) /\ Len(w) = IF offset + 1 <= end THEN end - (offset + 1) + 1 ELSE 0
      /\ \A i \in 1..(end - (offset + 1) + 1) : w[i] = rows[(offset + 1) + i - 1]
  BY <1>2, <1>3, <1>4, SubSeqProperties
<1>6. Len(w) = WindowLen(n, limit, offset)
  BY <1>1, <1>5 DEF WindowLen, end
<1>7. ASSUME NEW i \in 1..Len(w) PROVE w[i] = rows[offset + i] /\ offset + i \in 1..n
  <2>1. i \in 1..(end - (offset + 1) + 1) /\ (offset + 1) + i - 1 = offset + i
    BY <1>4, <1>5
  <2>2. w[i] = rows[offset + i]
    BY <1>5, <2>1
  <2> QED BY <1>1, <2>1, <2>2 DEF end
<1> QED BY <1>5, <1>6, <1>7 DEF w

LEMMA Clamped ==
  ASSUME NEW size \in Maybe(Int)
  PROVE  PerPage(size) \in Nat /\ PerPage(size) >= 1 /\ PerPage(size) <= maxPerPage
BY ReadsAssumption, Least DEF PerPage, Maybe

LEMMA Division ==
  ASSUME NEW a \in Nat, NEW b \in Nat \ {0}
  PROVE  a \div b \in Nat /\ a % b \in 0..(b - 1) /\ a = b * (a \div b) + (a % b)
BY SMT

\* As many pages as there are rows for, and not one more.
LEMMA EnoughPages ==
  ASSUME NEW n \in Nat, NEW P \in Nat, P >= 1
  PROVE  /\ TotalPages(n, P) \in Nat
         /\ n <= TotalPages(n, P) * P /\ TotalPages(n, P) * P < n + P
<1> DEFINE k == (n + P - 1) \div P
           r == (n + P - 1) % P
<1>1. k \in Nat /\ r \in 0..(P - 1) /\ n + P - 1 = P * k + r
  <2>1. n + P - 1 \in Nat /\ P \in Nat \ {0}
    OBVIOUS
  <2> QED BY <2>1, Division, Zenon
<1> HIDE DEF k, r
<1>2. P * k = k * P
  BY <1>1
<1>3. k * P \in Nat /\ n <= k * P /\ k * P < n + P
  BY <1>1, <1>2
<1> QED BY <1>1, <1>3 DEF TotalPages, k

\* The place x of a page is the row numbered so.
Spot(P, x) == (x[1] - 1) * P + x[2]
Spots(P, n) == {x \in (1..TotalPages(n, P)) \X (1..P) : Spot(P, x) <= n}

LEMMA SpotsOrder ==
  ASSUME NEW P \in Nat, P >= 1, NEW x \in Nat \X (1..P), NEW y \in Nat \X (1..P)
  PROVE  /\ Spot(P, x) \in Int
         /\ Spot(P, y) <= Spot(P, x) <=> y[1] < x[1] \/ (y[1] = x[1] /\ y[2] <= x[2])
         /\ Spot(P, x) = Spot(P, y) => x = y
<1> DEFINE a == x[1]  b == x[2]  c == y[1]  d == y[2]
<1>1. a \in Nat /\ b \in 1..P /\ c \in Nat /\ d \in 1..P /\ x = <<a, b>> /\ y = <<c, d>>
  OBVIOUS
<1> HIDE DEF a, b, c, d
<1>2. a < c => (c - 1) * P >= (a - 1) * P + P
  <2> SUFFICES ASSUME a < c PROVE (c - 1) * P >= (a - 1) * P + P
    OBVIOUS
  <2>1. (c - 1) * P = (a - 1) * P + (c - a) * P /\ (c - a) * P >= P
    BY <1>1
  <2> QED BY <1>1, <2>1
<1>3. c < a => (a - 1) * P >= (c - 1) * P + P
  <2> SUFFICES ASSUME c < a PROVE (a - 1) * P >= (c - 1) * P + P
    OBVIOUS
  <2>1. (a - 1) * P = (c - 1) * P + (a - c) * P /\ (a - c) * P >= P
    BY <1>1
  <2> QED BY <1>1, <2>1
<1>4. (a - 1) * P \in Int /\ (c - 1) * P \in Int
  BY <1>1
<1>5. Spot(P, x) = (a - 1) * P + b /\ Spot(P, y) = (c - 1) * P + d
  BY DEF Spot, a, b, c, d
<1>6. a = c => (a - 1) * P = (c - 1) * P
  OBVIOUS
<1>7. CASE a < c
  BY <1>1, <1>2, <1>4, <1>5, <1>7 DEF a, b, c, d
<1>8. CASE c < a
  BY <1>1, <1>3, <1>4, <1>5, <1>8 DEF a, b, c, d
<1>9. CASE a = c
  BY <1>1, <1>4, <1>5, <1>6, <1>9 DEF a, b, c, d
<1> QED BY <1>1, <1>7, <1>8, <1>9

\* The places number the rows.
LEMMA SpotsNumber ==
  ASSUME NEW P \in Nat, P >= 1, NEW n \in Nat
  PROVE  /\ \A x \in Spots(P, n) : Spot(P, x) \in 1..n
         /\ \A m \in 1..n : \E x \in Spots(P, n) : Spot(P, x) = m
<1> DEFINE k == TotalPages(n, P)
<1>1. k \in Nat /\ n <= k * P
  BY EnoughPages
<1> HIDE DEF k
<1>2. ASSUME NEW x \in Spots(P, n) PROVE Spot(P, x) \in 1..n
  <2>1. PICK a \in 1..k, b \in 1..P : x = <<a, b>> /\ Spot(P, x) <= n
    BY <1>2 DEF Spots, k
  <2>2. (a - 1) * P \in Nat /\ Spot(P, x) = (a - 1) * P + b
    BY <1>1, <2>1 DEF Spot
  <2> QED BY <2>1, <2>2
<1>3. ASSUME NEW m \in 1..n PROVE \E x \in Spots(P, n) : Spot(P, x) = m
  <2> DEFINE q == (m - 1) \div P
             r == (m - 1) % P
             a == q + 1
             b == r + 1
  <2>1. q \in Nat /\ r \in 0..(P - 1) /\ m - 1 = P * q + r
    <3>1. m - 1 \in Nat /\ P \in Nat \ {0}
      OBVIOUS
    <3> QED BY <3>1, Division, Zenon
  <2> HIDE DEF q, r
  <2>2. a \in Nat /\ a >= 1 /\ b \in 1..P /\ (a - 1) * P + b = m
    BY <2>1
  <2> HIDE DEF a, b
  <2>3. a <= k
    <3> SUFFICES ASSUME a > k PROVE FALSE
      BY <1>1, <2>2
    <3>1. (a - 1) * P = k * P + (a - 1 - k) * P /\ (a - 1 - k) * P \in Nat
      BY <1>1, <2>2
    <3> QED BY <1>1, <2>2, <3>1
  <2>4. <<a, b>> \in (1..k) \X (1..P) /\ Spot(P, <<a, b>>) = m
    BY <1>1, <2>2, <2>3 DEF Spot
  <2> QED BY <2>4 DEF Spots, k
<1> QED BY <1>2, <1>3

LEMMA SpotsSized ==
  ASSUME NEW P \in Nat, P >= 1, NEW n \in Nat
  PROVE  /\ IsFiniteSet(Spots(P, n)) /\ Cardinality(Spots(P, n)) = n
         /\ \A x \in Spots(P, n) : Cardinality(UpTo(Spots(P, n), x)) = Spot(P, x)
<1> DEFINE S == Spots(P, n)
<1>1. S \subseteq Nat \X (1..P)
  BY EnoughPages DEF Spots
<1>2. /\ \A x \in S : Spot(P, x) \in 1..n
      /\ \A m \in 1..n : \E x \in S : Spot(P, x) = m
  BY SpotsNumber
<1> HIDE DEF S
<1>3. \A x, y \in S : /\ Spot(P, x) = Spot(P, y) => x = y
                      /\ Spot(P, y) <= Spot(P, x) <=> y[1] < x[1] \/ (y[1] = x[1] /\ y[2] <= x[2])
  BY <1>1, SpotsOrder
<1>4. ASSUME NEW m \in Nat, m <= n, NEW U, U = {y \in S : Spot(P, y) <= m}
      PROVE  IsFiniteSet(U) /\ Cardinality(U) = m
  <2> DEFINE f == [y \in U |-> Spot(P, y)]
  <2>1. f \in [U -> 1..m]
    BY <1>2, <1>4
  <2>2. \A x, y \in U : f[x] = f[y] => x = y
    BY <1>3, <1>4
  <2>3. ASSUME NEW t \in 1..m PROVE \E x \in U : f[x] = t
    <3>1. PICK x \in S : Spot(P, x) = t
      BY <1>2, <1>4
    <3> QED BY <1>4, <3>1
  <2> HIDE DEF f
  <2> QED BY <2>1, <2>2, <2>3, UpToN, SizeAlike
<1>5. IsFiniteSet(S) /\ Cardinality(S) = n
  <2>1. S = {y \in S : Spot(P, y) <= n}
    BY <1>2
  <2> QED BY <1>4, <2>1
<1>6. ASSUME NEW x \in S PROVE Cardinality(UpTo(S, x)) = Spot(P, x)
  <2>1. UpTo(S, x) = {y \in S : Spot(P, y) <= Spot(P, x)}
    BY <1>3 DEF UpTo
  <2>2. Spot(P, x) \in Nat /\ Spot(P, x) <= n
    BY <1>2
  <2> QED BY <1>4, <2>1, <2>2
<1> QED BY <1>5, <1>6 DEF S

\* Any paged answer about rows shows each of them at its place.
LEMMA Paged ==
  ASSUME NEW T, NEW rows \in Seq(T), NEW size \in Maybe(Int), NEW answer,
         answer = [page \in Page |-> Answer(rows, Len(rows), page, size)]
  PROVE  LET P == PerPage(size)
             places == Places(answer) IN
         /\ P \in Nat /\ P >= 1 /\ places = Spots(P, Len(rows)) /\ Filled(answer, places)
         /\ \A x \in places : Shown(answer, x) = rows[Spot(P, x)]
<1> DEFINE P == PerPage(size)
           n == Len(rows)
           k == TotalPages(n, P)
           places == Places(answer)
           cut(page) == Window(rows, P, Offset(page, P))
<1>1. /\ P \in Nat /\ P >= 1 /\ P <= maxPerPage /\ n \in Nat /\ maxPerPage \in Nat
      /\ k \in Nat /\ n <= k * P /\ k * P < n + P
  BY Clamped, LenProperties, EnoughPages, ReadsAssumption
<1>2. \A page \in Page : /\ answer[page].data = cut(page) /\ answer[page].pages = k
                         /\ answer[page].total = n
  BY DEF Answer
<1> HIDE DEF P, n, k, cut
<1>3. ASSUME NEW page \in Page
      PROVE  /\ (page - 1) * P \in Nat /\ cut(page) \in Seq(T)
             /\ Len(cut(page)) = WindowLen(n, P, (page - 1) * P)
             /\ \A i \in 1..Len(cut(page)) : cut(page)[i] = rows[(page - 1) * P + i]
  <2>1. (page - 1) * P \in Nat /\ Offset(page, P) = (page - 1) * P
    BY <1>1 DEF Page, Offset
  <2> QED BY <1>1, <2>1, Windowed DEF cut, n
<1>4. places = Spots(P, n)
  <2>1. places = {x \in (1..k) \X (1..maxPerPage) : x[2] <= Len(cut(x[1]))}
    BY <1>1, <1>2 DEF Places, Page
  <2>2. ASSUME NEW a \in 1..k, NEW b \in Nat \ {0}
        PROVE  b <= maxPerPage /\ b <= Len(cut(a)) <=> b <= P /\ (a - 1) * P + b <= n
    <3>1. (a - 1) * P \in Nat /\ Len(cut(a)) = WindowLen(n, P, (a - 1) * P)
      BY <1>1, <1>3 DEF Page
    <3> QED BY <1>1, <3>1 DEF WindowLen
  <2>3. Spots(P, n) = {x \in (1..k) \X (1..P) : (x[1] - 1) * P + x[2] <= n}
    BY DEF Spots, Spot, k
  <2>4. ASSUME NEW x PROVE x \in places <=> x \in Spots(P, n)
    <3>1. CASE \E a \in 1..k, b \in Nat \ {0} : x = <<a, b>>
      <4>1. PICK a \in 1..k, b \in Nat \ {0} : x = <<a, b>>
        BY <3>1
      <4>2. x \in places <=> b <= maxPerPage /\ b <= Len(cut(a))
        BY <1>1, <2>1, <4>1
      <4>3. x \in Spots(P, n) <=> b <= P /\ (a - 1) * P + b <= n
        BY <1>1, <2>3, <4>1
      <4> QED BY <2>2, <4>2, <4>3
    <3>2. CASE ~\E a \in 1..k, b \in Nat \ {0} : x = <<a, b>>
      <4>1. 1..maxPerPage \subseteq Nat \ {0} /\ 1..P \subseteq Nat \ {0}
        BY <1>1
      <4>2. x \notin (1..k) \X (1..maxPerPage) /\ x \notin (1..k) \X (1..P)
        BY <3>2, <4>1
      <4> QED BY <2>1, <2>3, <4>2
    <3> QED BY <3>1, <3>2
  <2> QED BY <2>4
<1>5. ASSUME NEW x \in places PROVE Shown(answer, x) = rows[Spot(P, x)]
  <2>1. x[1] \in Page /\ x[2] \in 1..Len(cut(x[1]))
    <3>1. x[1] \in 1..k /\ x[2] \in 1..maxPerPage /\ x[2] <= Len(answer[x[1]].data)
      BY <1>1, <1>2, <1>5 DEF Places, Page
    <3>2. x[1] \in Page
      BY <1>1, <3>1 DEF Page
    <3>3. Len(cut(x[1])) \in Nat
      BY <1>3, <3>2, LenProperties
    <3> QED BY <1>1, <1>2, <3>1, <3>2, <3>3
  <2>2. answer[x[1]].data = cut(x[1]) /\ cut(x[1])[x[2]] = rows[(x[1] - 1) * P + x[2]]
    BY <1>2, <1>3, <2>1
  <2> QED BY <2>2 DEF Shown, Spot
<1>6. Filled(answer, places)
  <2>1. Cardinality(places) = n
    BY <1>1, <1>4, SpotsSized
  <2>2. ASSUME NEW page \in 1..k PROVE <<page, 1>> \in places
    <3>1. (page - 1) * P + 1 <= n
      <4>1. (page - 1) * P + (k - page) * P = k * P - P /\ (k - page) * P \in Nat
        BY <1>1
      <4>2. (page - 1) * P \in Nat /\ k * P \in Nat
        BY <1>1
      <4> QED BY <1>1, <4>1, <4>2
    <3> QED BY <1>1, <1>4, <3>1 DEF Spots, Spot, k
  <2>3. answer[k + 1].data = <<>>
    <3>1. k + 1 \in Page /\ (k + 1) - 1 = k
      BY <1>1 DEF Page
    <3>2. cut(k + 1) \in Seq(T) /\ Len(cut(k + 1)) = 0
      <4>1. cut(k + 1) \in Seq(T) /\ Len(cut(k + 1)) = WindowLen(n, P, k * P)
        BY <1>3, <3>1
      <4> QED BY <1>1, <4>1 DEF WindowLen
    <3> QED BY <1>2, <3>1, <3>2, EmptySeq
  <2>4. 1 \in Page
    BY DEF Page
  <2> QED BY <1>2, <2>1, <2>2, <2>3, <2>4 DEF Filled
<1> QED BY <1>1, <1>4, <1>5, <1>6 DEF P, n

LEMMA Tiled ==
  ASSUME NEW S, NEW rows \in Seq(S), NEW size \in Maybe(Int), NEW answer,
         Len(rows) = Cardinality(S), \A l \in S : \E i \in 1..Len(rows) : rows[i] = l,
         answer = [page \in Page |-> Answer(rows, Len(rows), page, size)]
  PROVE  Tiles(answer, S)
<1> DEFINE P == PerPage(size)
           places == Places(answer)
<1>1. /\ P \in Nat /\ P >= 1 /\ places = Spots(P, Len(rows)) /\ Filled(answer, places)
      /\ \A x \in places : Shown(answer, x) = rows[Spot(P, x)]
  BY Paged
<1> HIDE DEF P, places
<1>2. Len(rows) \in Nat /\ \A i \in 1..Len(rows) : rows[i] \in S
  BY LenProperties
<1>3. /\ \A x \in places : Spot(P, x) \in 1..Len(rows)
      /\ \A m \in 1..Len(rows) : \E x \in places : Spot(P, x) = m
  BY <1>1, <1>2, SpotsNumber
<1>4. {Shown(answer, x) : x \in places} = S
  <2>1. \A x \in places : Shown(answer, x) \in S
    BY <1>1, <1>2, <1>3
  <2>2. ASSUME NEW l \in S PROVE \E x \in places : Shown(answer, x) = l
    <3>1. PICK i \in 1..Len(rows) : rows[i] = l
      OBVIOUS
    <3>2. PICK x \in places : Spot(P, x) = i
      BY <1>3
    <3> QED BY <1>1, <3>1, <3>2
  <2> QED BY <2>1, <2>2
<1>5. Cardinality(places) = Cardinality(S)
  BY <1>1, <1>2, SpotsSized
<1> QED BY <1>1, <1>4, <1>5 DEF Tiles, places

LEMMA Spelled ==
  ASSUME NEW T, NEW rows \in Seq(T), NEW size \in Maybe(Int), NEW answer,
         answer = [page \in Page |-> Answer(rows, Len(rows), page, size)]
  PROVE  Spells(answer, rows)
<1> DEFINE P == PerPage(size)
           places == Places(answer)
<1>1. /\ P \in Nat /\ P >= 1 /\ places = Spots(P, Len(rows)) /\ Filled(answer, places)
      /\ \A x \in places : Shown(answer, x) = rows[Spot(P, x)]
  BY Paged
<1> HIDE DEF P, places
<1>2. Len(rows) \in Nat
  BY LenProperties
<1>3. /\ Cardinality(places) = Len(rows)
      /\ \A x \in places : Cardinality(UpTo(places, x)) = Spot(P, x)
  BY <1>1, <1>2, SpotsSized
<1> QED BY <1>1, <1>3 DEF Spells, places

\* A 400 has no pages.
LEMMA Untiled ==
  ASSUME NEW answer, answer = [page \in Page |-> NoAnswer]
  PROVE  Tiles(answer, {})
<1>1. 1 \in Page /\ 1 = 0 + 1 /\ 1..0 = {}
  BY DEF Page
<1>2. Places(answer) = {}
  BY <1>1 DEF Places, NoAnswer
<1> QED BY <1>1, <1>2, FS_EmptySet DEF Tiles, Filled, NoAnswer

-----------------------------------------------------------------------------
(* The order of listings.                                                  *)

LEMMA Columns ==
  ASSUME TypeOK, NEW f \in Filter, NEW l \in Listings
  PROVE  Column(l, f) \in Maybe(Int)
<1>1. listing[l].terms \in Term
  BY ReadsAssumption DEF TypeOK, PostsOK, Listings, Exists, NoPost
<1> DEFINE t == listing[l].terms
<1>2. /\ t.price \in Int /\ t.bills \in Int \cup {Null} /\ t.distance \in Int \cup {Null}
      /\ f.sort \in {"new", "priceAsc", "priceDesc", "distance", "allInAsc", "match"}
  BY <1>1 DEF Term, Filter, Maybe
<1> HIDE DEF t
<1>3. CASE f.sort \in {"priceAsc", "priceDesc", "distance", "allInAsc"}
  BY <1>2, <1>3 DEF Column, Maybe, t
<1>4. CASE f.sort \in {"new", "match"}
  BY <1>4 DEF Column, Maybe
<1> QED BY <1>2, <1>3, <1>4

\* Rows of equal columns, missing ones among them, come newest first.
LEMMA BeforeOrders ==
  ASSUME TypeOK, NEW f \in Filter, NEW rows, rows \subseteq Listings
  PROVE  Orders(rows, {p \in rows \X rows : Before(p[1], p[2], f)})
<1>1. \A l \in rows : l \in Int /\ Column(l, f) \in Int \cup {Null}
  <2>1. Listings \subseteq Int
    BY ReadsAssumption DEF Listings, Listing
  <2> QED BY <2>1, Columns DEF Maybe
<1>2. Null \notin Int
  BY ReadsAssumption
<1>3. \A k \in rows : ~Before(k, k, f)
  BY <1>1 DEF Before
<1>4. \A k, l, m \in rows : Before(k, l, f) /\ Before(l, m, f) => Before(k, m, f)
  BY <1>1, <1>2 DEF Before
<1>5. \A k, l \in rows : k # l => Before(k, l, f) \/ Before(l, k, f)
  BY <1>1, <1>2 DEF Before
<1> DEFINE R == {p \in rows \X rows : Before(p[1], p[2], f)}
<1>6. \A k, l \in rows : <<k, l>> \in R <=> Before(k, l, f)
  OBVIOUS
<1> HIDE DEF R
<1> QED BY <1>3, <1>4, <1>5, <1>6 DEF Orders, R

-----------------------------------------------------------------------------
(* The invariant of a walk.                                                *)

\* Of the rows selected now, how many come before l.
Order(f) == {p \in Selected(f) \X Selected(f) : Before(p[1], p[2], f)}
Place(f, l) == Rank(Selected(f), Order(f), l)

\* What was there and stayed has been shown up to where the walk is; what was
\* shown, once each, and is still there is behind it, unless rows came in.
Underway(f, shown, seen) ==
  /\ Selected(f) \subseteq walk.first \cup walk.entered
  /\ walk.first \ walk.left \subseteq Selected(f)
  /\ walk.left = {} => \A l \in walk.first : Place(f, l) < shown => l \in ToSet(seen)
  /\ walk.entered = {} =>
       /\ IsInjective(seen)
       /\ \A l \in ToSet(seen) \cap Selected(f) : Place(f, l) < shown
  /\ walk.pc = "list" /\ ~walk.raced => Cardinality(Selected(f)) <= walk.total

Ended ==
  /\ walk.left = {} /\ ~walk.raced => walk.first \subseteq ToSet(walk.seen)
  /\ walk.entered = {} => IsInjective(walk.seen)

WalkInv ==
  /\ walk.pc \in {"count", "list"} =>
       \A f \in {walk.filter}, shown \in {(walk.page - 1) * walk.perPage}, seen \in {walk.seen} :
         Underway(f, shown, seen)
  /\ walk.pc = "done" => Ended

-----------------------------------------------------------------------------
(* The shape of the rows, step by step.                                    *)

PostsStep ==
  \/ \E l \in Listing :
       \/ \E t \in Terms : CreateListing(l, t) \/ UpdateListing(l, t)
       \/ SetListingStatus(l) \/ ModerateListing(l) \/ CreateOffer(l) \/ WithdrawOffer(l)
  \/ \E u \in User : Suspend(u) \/ Verify(u)
  \/ (\E w \in Wishes : CreateRequest(w)) \/ ChangeRequest

TalkStep ==
  \E l \in Talked :
    \/ Start(l) \/ Close(l) \/ Share(l)
    \/ \E u \in User : Send(u, l) \/ MarkConversationRead(u, l)

WalkStep ==
  (\E f \in Walked, size \in Sizes : StartWalk(f, size)) \/ WalkCount \/ WalkList \/ EndWalk

LEMMA Steps == Next <=> PostsStep \/ TalkStep \/ WalkStep
BY DEF Next, PostsStep, TalkStep, WalkStep

Posted == [status : {"published", "paused"}, removed : BOOLEAN, terms : Terms]

\* A step that writes a listing leaves a row of it, and no row goes.
LEMMA ListingWritten ==
  ASSUME PostsOK, NEW l \in Listing,
         \/ \E t \in Terms : CreateListing(l, t) \/ UpdateListing(l, t)
         \/ SetListingStatus(l) \/ ModerateListing(l)
  PROVE  \E row \in Posted : listing' = [listing EXCEPT ![l] = row]
<1>1. ASSUME NEW t \in Terms, CreateListing(l, t)
      PROVE  \E row \in Posted : listing' = [listing EXCEPT ![l] = row]
  BY <1>1 DEF CreateListing, Posted
<1>2. Exists(listing[l]) => listing[l] \in Posted
  BY DEF PostsOK, Exists, NoPost, Posted
<1>3. ASSUME NEW t \in Terms, UpdateListing(l, t)
      PROVE  \E row \in Posted : listing' = [listing EXCEPT ![l] = row]
  BY <1>2, <1>3 DEF UpdateListing, Posted
<1>4. CASE SetListingStatus(l)
  BY <1>2, <1>4 DEF SetListingStatus, Posted
<1>5. CASE ModerateListing(l)
  BY <1>2, <1>5 DEF ModerateListing, Posted
<1> QED BY <1>1, <1>3, <1>4, <1>5

LEMMA PostsShape ==
  ASSUME PostsOK, PostsStep
  PROVE  /\ PostsOK' /\ UNCHANGED talk
         /\ \A l \in Listing : Exists(listing[l]) => Exists(listing'[l])
<1> DEFINE Rows == /\ DOMAIN listing' = Listing
                   /\ \A k \in Listing : listing'[k] \in Posted \cup {NoPost}
                   /\ \A k \in Listing : Exists(listing[k]) => Exists(listing'[k])
<1>1. ASSUME UNCHANGED listing PROVE Rows
  BY <1>1 DEF PostsOK, Posted
<1>2. ASSUME NEW l \in Listing,
             \/ \E t \in Terms : CreateListing(l, t) \/ UpdateListing(l, t)
             \/ SetListingStatus(l) \/ ModerateListing(l)
      PROVE  Rows /\ UNCHANGED <<user, request, offer, talk>>
  <2>1. PICK row \in Posted : listing' = [listing EXCEPT ![l] = row]
    BY <1>2, ListingWritten
  <2>2. Rows
    BY <2>1 DEF PostsOK, Exists, Posted
  <2>3. UNCHANGED <<user, request, offer, talk>>
    BY <1>2 DEF CreateListing, UpdateListing, SetListingStatus, ModerateListing
  <2> QED BY <2>2, <2>3
<1>3. ASSUME NEW l \in Listing, CreateOffer(l) \/ WithdrawOffer(l)
      PROVE  /\ offer' \in [Listing -> {"none", "live", "withdrawn"}]
             /\ UNCHANGED <<user, listing, request, talk>>
  BY <1>3 DEF PostsOK, CreateOffer, WithdrawOffer
<1>4. ASSUME NEW u \in User, Suspend(u) \/ Verify(u)
      PROVE  /\ user' \in [User -> [verified : BOOLEAN, suspended : BOOLEAN]]
             /\ UNCHANGED <<listing, request, offer, talk>>
  <2> DEFINE Row == [verified : BOOLEAN, suspended : BOOLEAN]
  <2>1. user \in [User -> Row] /\ user[u] \in Row
    BY DEF PostsOK
  <2>2. ASSUME NEW row \in Row, user' = [user EXCEPT ![u] = row] PROVE user' \in [User -> Row]
    BY <2>1, <2>2
  <2>3. [user[u] EXCEPT !.suspended = ~user[u].suspended] \in Row
        /\ [user[u] EXCEPT !.verified = TRUE] \in Row
    BY <2>1
  <2>4. UNCHANGED <<listing, request, offer, talk>>
    BY <1>4 DEF Suspend, Verify, posts
  <2>5. CASE Suspend(u)
    <3>1. user' = [user EXCEPT ![u] = [user[u] EXCEPT !.suspended = ~user[u].suspended]]
      BY <2>5 DEF Suspend
    <3> QED BY <2>2, <2>3, <2>4, <3>1
  <2>6. CASE Verify(u)
    <3>1. user' = [user EXCEPT ![u] = [user[u] EXCEPT !.verified = TRUE]]
      BY <2>6 DEF Verify
    <3> QED BY <2>2, <2>3, <2>4, <3>1
  <2> QED BY <1>4, <2>5, <2>6
<1>5. ASSUME (\E w \in Wishes : CreateRequest(w)) \/ ChangeRequest
      PROVE  /\ request' \in [status : {"published", "paused"}, removed : BOOLEAN, wish : Wishes]
             /\ UNCHANGED <<user, listing, offer, talk>>
  <2>1. ASSUME NEW w \in Wishes, CreateRequest(w)
        PROVE  /\ request' \in [status : {"published", "paused"}, removed : BOOLEAN, wish : Wishes]
               /\ UNCHANGED <<user, listing, offer, talk>>
    BY <2>1 DEF CreateRequest
  <2>2. CASE ChangeRequest
    <3>1. request \in [status : {"published", "paused"}, removed : BOOLEAN, wish : Wishes]
      BY <2>2 DEF ChangeRequest, PostsOK, Exists, NoPost
    <3>2. UNCHANGED <<user, listing, offer, talk>>
      BY <2>2 DEF ChangeRequest
    <3>3. CASE request' = [request EXCEPT !.status = IF @ = "published" THEN "paused" ELSE "published"]
      BY <3>1, <3>2, <3>3
    <3>4. CASE request' = [request EXCEPT !.removed = ~@]
      BY <3>1, <3>2, <3>4
    <3> QED BY <2>2, <3>3, <3>4 DEF ChangeRequest
  <2> QED BY <1>5, <2>1, <2>2
<1>6. Rows /\ user' \in [User -> [verified : BOOLEAN, suspended : BOOLEAN]]
      /\ request' \in [status : {"published", "paused"}, removed : BOOLEAN, wish : Wishes] \cup {NoPost}
      /\ offer' \in [Listing -> {"none", "live", "withdrawn"}] /\ UNCHANGED talk
  <2>1. /\ user \in [User -> [verified : BOOLEAN, suspended : BOOLEAN]]
        /\ request \in [status : {"published", "paused"}, removed : BOOLEAN, wish : Wishes] \cup {NoPost}
        /\ offer \in [Listing -> {"none", "live", "withdrawn"}]
    BY DEF PostsOK
  <2> HIDE DEF Rows
  <2> QED BY <1>1, <1>2, <1>3, <1>4, <1>5, <2>1 DEF PostsStep
<1> QED BY <1>6 DEF PostsOK, Posted, NoPost

LEMMA PostsStepTalk ==
  ASSUME TypeOK, PostsStep
  PROVE  TalkOK'
BY PostsShape DEF TypeOK, TalkOK, talk, Exists

\* A conversation and its messages change together.
LEMMA TalkChanged ==
  ASSUME TalkOK, NEW l \in Listing, Exists(listing[l]), UNCHANGED listing,
         NEW row \in [status : {"open", "closed"}, shared : BOOLEAN, read : [User -> Nat]],
         NEW list \in Seq(User), Len(list) <= MaxMessages,
         \A u \in User : row.read[u] <= Len(list),
         conv' = [conv EXCEPT ![l] = row], messages' = [messages EXCEPT ![l] = list]
  PROVE  TalkOK'
<1>1. /\ conv' \in [Listing -> [status : {"none", "open", "closed"}, shared : BOOLEAN, read : [User -> Nat]]]
      /\ messages' \in [Listing -> Seq(User)]
  BY DEF TalkOK
<1>2. ASSUME NEW k \in Listing
      PROVE  /\ Exists(conv'[k]) => Exists(listing'[k])
             /\ ~Exists(conv'[k]) => messages'[k] = <<>>
             /\ Len(messages'[k]) <= MaxMessages
             /\ \A u \in User : conv'[k].read[u] <= Len(messages'[k])
  <2>1. CASE k = l
    <3>1. conv'[k] = row /\ messages'[k] = list /\ Exists(row)
      BY <2>1 DEF TalkOK, Exists
    <3> QED BY <2>1, <3>1
  <2>2. CASE k # l
    <3>1. conv'[k] = conv[k] /\ messages'[k] = messages[k]
      BY <2>2 DEF TalkOK
    <3> QED BY <3>1 DEF TalkOK
  <2> QED BY <2>1, <2>2
<1> QED BY <1>1, <1>2 DEF TalkOK, Exists

LEMMA TalkShape ==
  ASSUME TypeOK, TalkStep
  PROVE  TalkOK' /\ UNCHANGED <<user, posts, walk>>
<1>1. PICK l \in Talked : \/ Start(l) \/ Close(l) \/ Share(l)
                          \/ \E u \in User : Send(u, l) \/ MarkConversationRead(u, l)
  BY DEF TalkStep
<1>2. l \in Listing /\ MaxMessages \in Nat \ {0} /\ TalkOK
  BY ReadsAssumption DEF TypeOK
<1>3. UNCHANGED <<user, posts, walk>> /\ UNCHANGED listing
  BY <1>1 DEF Start, Close, Share, Send, MarkConversationRead, posts
<1> DEFINE Row == [status : {"open", "closed"}, shared : BOOLEAN, read : [User -> Nat]]
<1>4. /\ conv[l] \in [status : {"none", "open", "closed"}, shared : BOOLEAN, read : [User -> Nat]]
      /\ Exists(conv[l]) => conv[l] \in Row /\ Exists(listing[l])
      /\ ~Exists(conv[l]) => messages[l] = <<>>
      /\ messages[l] \in Seq(User) /\ Len(messages[l]) \in Nat /\ Len(messages[l]) <= MaxMessages
      /\ \A u \in User : conv[l].read[u] \in Nat /\ conv[l].read[u] <= Len(messages[l])
  BY <1>2, LenProperties DEF TalkOK, Exists
<1>5. CASE Start(l)
  <2> DEFINE row == [conv[l] EXCEPT !.status = "open"]
             list == <<Student>>
  <2>1. /\ conv' = [conv EXCEPT ![l] = row] /\ messages' = [messages EXCEPT ![l] = list]
        /\ Exists(listing[l]) /\ ~Exists(conv[l])
    BY <1>5 DEF Start, GetPublishedListing, Exists
  <2>2. row \in Row /\ row.read = conv[l].read
    BY <1>4
  <2>3. list \in Seq(User) /\ Len(list) = 1 /\ Len(messages[l]) = 0
    BY <1>4, <2>1 DEF User
  <2>4. \A u \in User : row.read[u] <= Len(list)
    BY <1>4, <2>2, <2>3
  <2> HIDE DEF row, list
  <2>5. Len(list) <= MaxMessages
    BY <1>2, <2>3
  <2>6. TalkOK'
    BY <1>2, <1>3, <2>1, <2>2, <2>3, <2>4, <2>5, TalkChanged
  <2> QED BY <1>3, <2>6
<1>6. ASSUME NEW u \in User, Send(u, l) PROVE TalkOK'
  <2> DEFINE list == Append(messages[l], u)
  <2>1. /\ messages' = [messages EXCEPT ![l] = list] /\ conv' = conv
        /\ Exists(conv[l]) /\ Len(messages[l]) < MaxMessages
    BY <1>6 DEF Send
  <2>2. list \in Seq(User) /\ Len(list) = Len(messages[l]) + 1
    BY <1>4
  <2>3. conv' = [conv EXCEPT ![l] = conv[l]]
    BY <1>2, <2>1 DEF TalkOK
  <2>4. Len(list) <= MaxMessages /\ \A v \in User : conv[l].read[v] <= Len(list)
    BY <1>2, <1>4, <2>1, <2>2
  <2> HIDE DEF list
  <2> QED BY <1>2, <1>3, <1>4, <2>1, <2>2, <2>3, <2>4, TalkChanged
<1>7. ASSUME NEW row \in Row, conv' = [conv EXCEPT ![l] = row], messages' = messages, Exists(conv[l]),
             \A u \in User : row.read[u] <= Len(messages[l])
      PROVE  TalkOK'
  <2>1. messages' = [messages EXCEPT ![l] = messages[l]]
    BY <1>2, <1>7 DEF TalkOK
  <2> QED BY <1>2, <1>3, <1>4, <1>7, <2>1, TalkChanged
<1>8. CASE Close(l)
  <2> DEFINE row == [conv[l] EXCEPT !.status = "closed"]
  <2>1. row \in Row /\ row.read = conv[l].read /\ Exists(conv[l])
    BY <1>4, <1>8 DEF Close, Exists
  <2>2. conv' = [conv EXCEPT ![l] = row] /\ messages' = messages
    BY <1>8 DEF Close
  <2> HIDE DEF row
  <2> QED BY <1>3, <1>4, <1>7, <2>1, <2>2
<1>9. CASE Share(l)
  <2> DEFINE row == [conv[l] EXCEPT !.shared = TRUE]
  <2>1. row \in Row /\ row.read = conv[l].read /\ Exists(conv[l])
    BY <1>4, <1>9 DEF Share
  <2>2. conv' = [conv EXCEPT ![l] = row] /\ messages' = messages
    BY <1>9 DEF Share
  <2> HIDE DEF row
  <2> QED BY <1>3, <1>4, <1>7, <2>1, <2>2
<1>10. ASSUME NEW u \in User, MarkConversationRead(u, l) PROVE TalkOK'
  <2> DEFINE row == [conv[l] EXCEPT !.read = [conv[l].read EXCEPT ![u] = Len(messages[l])]]
  <2>1. Exists(conv[l]) /\ row \in Row
    BY <1>4, <1>10 DEF MarkConversationRead
  <2>2. \A v \in User : row.read[v] <= Len(messages[l])
    BY <1>4
  <2>3. conv' = [conv EXCEPT ![l] = row] /\ messages' = messages
    BY <1>10 DEF MarkConversationRead
  <2> HIDE DEF row
  <2> QED BY <1>7, <2>1, <2>2, <2>3
<1> QED BY <1>1, <1>3, <1>5, <1>6, <1>8, <1>9, <1>10

-----------------------------------------------------------------------------
(* Writes under a walk.                                                    *)

LEMMA FiltersAre == Everything \in Filter /\ Filters \subseteq Filter /\ Filters \cup {Everything} \subseteq Filter
BY ReadsAssumption DEF Everything, Filter, Maybe

LEMMA SelectedAre ==
  ASSUME NEW f
  PROVE  /\ Selected(f) \subseteq Listing /\ Selected(f) \subseteq Listings
         /\ IsFiniteSet(Selected(f)) /\ Cardinality(Selected(f)) \in Nat
<1>1. Selected(f) \subseteq Listing /\ Selected(f) \subseteq Listings
  BY DEF Selected, Listings
<1>2. IsFiniteSet(Listing)
  BY ReadsAssumption, UpToN DEF Listing
<1> QED BY <1>1, <1>2, Sized

LEMMA SelectedNext ==
  ASSUME NEW f
  PROVE  Selected(f)' \subseteq Listing /\ IsFiniteSet(Selected(f)') /\ Cardinality(Selected(f)') \in Nat
<1>1. Selected(f)' \subseteq Listing
  BY DEF Selected, Listings
<1>2. IsFiniteSet(Listing)
  BY ReadsAssumption, UpToN DEF Listing
<1> QED BY <1>1, <1>2, Sized

\* What is there and what comes before what, while users and listings stay.
LEMMA SelectedSame ==
  ASSUME NEW f, UNCHANGED <<user, listing>>
  PROVE  Selected(f)' = Selected(f) /\ \A l : Place(f, l)' = Place(f, l)
<1>1. Selected(f)' = Selected(f)
  BY DEF Selected, Listings
<1>2. \A k, l : Before(k, l, f)' <=> Before(k, l, f)
  BY DEF Before, Column
<1>3. Order(f)' = Order(f)
  BY <1>1, <1>2 DEF Order
<1> QED BY <1>1, <1>3 DEF Place, Rank

LEMMA PlaceForm ==
  ASSUME NEW f, NEW l \in Selected(f)
  PROVE  Place(f, l) = Cardinality({k \in Selected(f) : Before(k, l, f)})
<1>1. {k \in Selected(f) : <<k, l>> \in Order(f)} = {k \in Selected(f) : Before(k, l, f)}
  BY DEF Order
<1> QED BY <1>1 DEF Place, Rank

LEMMA PlaceFormNext ==
  ASSUME NEW f, NEW l \in Selected(f)'
  PROVE  Place(f, l)' = Cardinality({k \in Selected(f)' : Before(k, l, f)'})
<1>1. {k \in Selected(f)' : <<k, l>> \in Order(f)'} = {k \in Selected(f)' : Before(k, l, f)'}
  BY DEF Order
<1> QED BY <1>1 DEF Place, Rank

LEMMA BeforeSame ==
  ASSUME NEW f, NEW k, NEW l, listing'[k].terms = listing[k].terms, listing'[l].terms = listing[l].terms
  PROVE  Before(k, l, f)' <=> Before(k, l, f)
BY DEF Before, Column

\* Rows coming in only push others back, and rows leaving only let them up.
LEMMA PlaceRises ==
  ASSUME NEW f, Selected(f) \subseteq Selected(f)',
         \A k \in Selected(f) : listing'[k].terms = listing[k].terms, NEW l \in Selected(f)
  PROVE  Place(f, l) \in Nat /\ Place(f, l)' \in Nat /\ Place(f, l) <= Place(f, l)'
<1> DEFINE S == {k \in Selected(f) : Before(k, l, f)}
           T == {k \in Selected(f)' : Before(k, l, f)'}
<1>1. S \subseteq T
  BY BeforeSame
<1>2. IsFiniteSet(T)
  <2>1. T \subseteq Selected(f)'
    OBVIOUS
  <2> HIDE DEF T
  <2> QED BY <2>1, SelectedNext, Sized
<1>3. Place(f, l) = Cardinality(S) /\ Place(f, l)' = Cardinality(T)
  BY PlaceForm, PlaceFormNext
<1> HIDE DEF S, T
<1> QED BY <1>1, <1>2, <1>3, Sized

LEMMA PlaceFalls ==
  ASSUME NEW f, Selected(f)' \subseteq Selected(f),
         \A k \in Selected(f)' : listing'[k].terms = listing[k].terms, NEW l \in Selected(f)'
  PROVE  Place(f, l) \in Nat /\ Place(f, l)' \in Nat /\ Place(f, l)' <= Place(f, l)
<1> DEFINE S == {k \in Selected(f)' : Before(k, l, f)'}
           T == {k \in Selected(f) : Before(k, l, f)}
<1>1. S \subseteq T
  BY BeforeSame
<1>2. IsFiniteSet(T)
  <2>1. T \subseteq Selected(f)
    OBVIOUS
  <2> HIDE DEF T
  <2> QED BY <2>1, SelectedAre, Sized
<1>3. Place(f, l) = Cardinality(T) /\ Place(f, l)' = Cardinality(S)
  BY PlaceForm, PlaceFormNext
<1> HIDE DEF S, T
<1> QED BY <1>1, <1>2, <1>3, Sized

LEMMA WatchedForm ==
  ASSUME NEW w \in Walk, NEW in \in SUBSET Listing, NEW out \in SUBSET Listing,
         NEW raced \in BOOLEAN, NEW n \in Nat
  PROVE  [w EXCEPT !.entered = in, !.left = out, !.raced = raced, !.changes = n] \in Walk
<1> DEFINE A == {"idle", "count", "list", "done"}  B == Filters \cup {Everything}
           C == 1..maxPerPage  D == Nat \ {0}  E == Seq(Listing)  F == SUBSET Listing
<1>1. Walk = [pc : A, filter : B, perPage : C, page : D, total : Nat, seen : E,
              first : F, entered : F, left : F, raced : BOOLEAN, changes : Nat]
  BY DEF Walk
<1>2. in \in F /\ out \in F
  OBVIOUS
<1> HIDE DEF A, B, C, D, E, F
<1> QED BY <1>1, <1>2

\* A write while the client is between a count and a list, or before one.
LEMMA WatchedUnderway ==
  ASSUME WalkOK, walk.pc \in {"count", "list"}, Watched, NEW f, f = walk.filter,
         NEW shown \in Nat, NEW seen, Underway(f, shown, seen)
  PROVE  /\ walk'.pc = walk.pc /\ walk'.filter = f /\ walk'.page = walk.page
         /\ walk'.perPage = walk.perPage /\ walk'.seen = walk.seen
         /\ WalkOK' /\ Underway(f, shown, seen)'
<1> DEFINE S == Selected(f)
           T == Selected(f)'
           edited == {l \in S \cap T : listing'[l].terms # listing[l].terms}
<1>1. walk' = [walk EXCEPT !.entered = @ \cup (T \ S) \cup edited,
                           !.left    = @ \cup (S \ T) \cup edited,
                           !.raced   = @ \/ (walk.pc = "list" /\ ~(T \subseteq S)),
                           !.changes = @ + 1]
  BY DEF Watched
<1>2. /\ S \subseteq Listing /\ IsFiniteSet(S) /\ Cardinality(S) \in Nat
      /\ T \subseteq Listing /\ IsFiniteSet(T) /\ Cardinality(T) \in Nat
  BY SelectedAre, SelectedNext
<1>3. edited \subseteq S \cap T /\ (edited = {} => \A l \in S \cap T : listing'[l].terms = listing[l].terms)
  OBVIOUS
<1> HIDE DEF S, T, edited
<1>4. /\ walk'.pc = walk.pc /\ walk'.filter = f /\ walk'.page = walk.page
      /\ walk'.perPage = walk.perPage /\ walk'.seen = walk.seen
      /\ walk'.first = walk.first /\ walk'.total = walk.total
      /\ walk'.entered = walk.entered \cup (T \ S) \cup edited
      /\ walk'.left = walk.left \cup (S \ T) \cup edited
      /\ walk'.raced = (walk.raced \/ (walk.pc = "list" /\ ~(T \subseteq S)))
      /\ walk'.changes = walk.changes + 1
  BY <1>1 DEF WalkOK, Walk
<1>5. WalkOK'
  <2> DEFINE in == walk.entered \cup (T \ S) \cup edited
             out == walk.left \cup (S \ T) \cup edited
             raced == walk.raced \/ (walk.pc = "list" /\ ~(T \subseteq S))
  <2>1. walk' = [walk EXCEPT !.entered = in, !.left = out, !.raced = raced, !.changes = walk.changes + 1]
    BY <1>1
  <2>2. in \in SUBSET Listing /\ out \in SUBSET Listing
    BY <1>2, <1>3 DEF WalkOK, Walk
  <2>3. raced \in BOOLEAN
    OBVIOUS
  <2>4. walk.changes + 1 \in Nat
    BY DEF WalkOK, Walk
  <2> HIDE DEF in, out, raced
  <2> QED BY <2>1, <2>2, <2>3, <2>4, WatchedForm DEF WalkOK
<1>6. /\ S \subseteq walk.first \cup walk.entered /\ walk.first \ walk.left \subseteq S
      /\ walk.left = {} => \A l \in walk.first : Place(f, l) < shown => l \in ToSet(seen)
      /\ walk.entered = {} =>
           IsInjective(seen) /\ \A l \in ToSet(seen) \cap S : Place(f, l) < shown
      /\ walk.pc = "list" /\ ~walk.raced => Cardinality(S) <= walk.total
  BY DEF Underway, S
<1>7. T \subseteq walk'.first \cup walk'.entered /\ walk'.first \ walk'.left \subseteq T
  BY <1>4, <1>6
<1>8. ASSUME walk'.left = {}, NEW l \in walk.first, Place(f, l)' < shown PROVE l \in ToSet(seen)
  <2>1. walk.left = {} /\ S \subseteq T /\ edited = {}
    BY <1>4, <1>8
  <2>2. l \in S /\ \A k \in S : listing'[k].terms = listing[k].terms
    BY <1>3, <1>6, <2>1
  <2>3. Place(f, l) \in Nat /\ Place(f, l)' \in Nat /\ Place(f, l) <= Place(f, l)'
    BY <2>1, <2>2, PlaceRises DEF S, T
  <2>4. Place(f, l) < shown
    BY <1>8, <2>3
  <2> QED BY <1>6, <2>1, <2>4
<1>9. ASSUME walk'.entered = {} PROVE IsInjective(seen) /\ \A l \in ToSet(seen) \cap T : Place(f, l)' < shown
  <2>1. walk.entered = {} /\ T \subseteq S /\ edited = {}
    BY <1>4, <1>9
  <2>2. \A k \in T : listing'[k].terms = listing[k].terms
    BY <1>3, <2>1
  <2>3. ASSUME NEW l \in ToSet(seen) \cap T PROVE Place(f, l)' < shown
    <3>1. Place(f, l) \in Nat /\ Place(f, l)' \in Nat /\ Place(f, l)' <= Place(f, l)
      BY <2>1, <2>2, PlaceFalls DEF S, T
    <3>2. Place(f, l) < shown
      BY <1>6, <2>1
    <3> QED BY <3>1, <3>2
  <2> QED BY <1>6, <2>1, <2>3
<1>10. ASSUME walk'.pc = "list", ~walk'.raced PROVE Cardinality(T) <= walk'.total
  <2>1. T \subseteq S /\ Cardinality(S) <= walk.total /\ walk'.total = walk.total /\ walk.total \in Nat
    BY <1>4, <1>6, <1>10 DEF WalkOK, Walk
  <2>2. Cardinality(T) <= Cardinality(S)
    BY <1>2, <2>1, Sized
  <2> QED BY <1>2, <2>1, <2>2
<1>11. Underway(f, shown, seen)' <=>
         /\ T \subseteq walk'.first \cup walk'.entered
         /\ walk'.first \ walk'.left \subseteq T
         /\ walk'.left = {} => \A l \in walk'.first : Place(f, l)' < shown => l \in ToSet(seen)
         /\ walk'.entered = {} =>
              /\ IsInjective(seen)
              /\ \A l \in ToSet(seen) \cap T : Place(f, l)' < shown
         /\ walk'.pc = "list" /\ ~walk'.raced => Cardinality(T) <= walk'.total
  BY DEF Underway, T, ToSet
<1> QED BY <1>4, <1>5, <1>7, <1>8, <1>9, <1>10, <1>11

LEMMA PostsStepWalk ==
  ASSUME PostsStep
  PROVE  UNCHANGED <<user, listing, walk>> \/ Watched
<1>1. ASSUME NEW l \in Listing,
             \/ \E t \in Terms : CreateListing(l, t) \/ UpdateListing(l, t)
             \/ SetListingStatus(l) \/ ModerateListing(l)
      PROVE  Watched
  BY <1>1 DEF CreateListing, UpdateListing, SetListingStatus, ModerateListing, Write
<1>2. ASSUME NEW u \in User, Suspend(u) \/ Verify(u) PROVE Watched
  BY <1>2 DEF Suspend, Verify, Write
<1>3. ASSUME NEW l \in Listing, CreateOffer(l) \/ WithdrawOffer(l) PROVE UNCHANGED <<user, listing, walk>>
  BY <1>3 DEF CreateOffer, WithdrawOffer
<1>4. ASSUME (\E w \in Wishes : CreateRequest(w)) \/ ChangeRequest PROVE UNCHANGED <<user, listing, walk>>
  BY <1>4 DEF CreateRequest, ChangeRequest
<1> QED BY <1>1, <1>2, <1>3, <1>4 DEF PostsStep

\* A walk under which nothing moves is where it was.
LEMMA WalkStays ==
  ASSUME WalkOK, WalkInv, UNCHANGED <<user, listing, walk>>
  PROVE  WalkOK' /\ WalkInv'
<1>1. ASSUME NEW f, NEW shown, NEW seen
      PROVE  Underway(f, shown, seen)' <=> Underway(f, shown, seen)
  BY SelectedSame DEF Underway, ToSet
<1> QED BY <1>1 DEF WalkOK, WalkInv, Ended, ToSet

LEMMA Walks ==
  ASSUME WalkOK
  PROVE  /\ walk.page \in Nat \ {0} /\ walk.perPage \in Nat \ {0} /\ walk.filter \in Filter
         /\ (walk.page - 1) * walk.perPage \in Nat
         /\ (walk.page + 1 - 1) * walk.perPage = (walk.page - 1) * walk.perPage + walk.perPage
         /\ walk.page * walk.perPage = (walk.page - 1) * walk.perPage + walk.perPage
         /\ walk.seen \in Seq(Listing) /\ walk.total \in Nat
<1>1. /\ walk.page \in Nat \ {0} /\ walk.perPage \in Nat \ {0} /\ walk.filter \in Filter
      /\ walk.seen \in Seq(Listing) /\ walk.total \in Nat
  BY FiltersAre, ReadsAssumption DEF WalkOK, Walk
<1>2. PICK page \in Nat \ {0}, P \in Nat \ {0} : page = walk.page /\ P = walk.perPage
  BY <1>1
<1>3. /\ (page - 1) * P \in Nat /\ (page + 1 - 1) * P = (page - 1) * P + P
      /\ page * P = (page - 1) * P + P
  OBVIOUS
<1> QED BY <1>1, <1>2, <1>3

LEMMA PostsWalk ==
  ASSUME WalkOK, WalkInv, PostsStep
  PROVE  WalkOK' /\ WalkInv'
<1>1. CASE UNCHANGED <<user, listing, walk>>
  BY <1>1, WalkStays
<1>2. CASE Watched /\ walk.pc \notin {"count", "list"}
  <2>1. walk' = walk
    BY <1>2 DEF Watched
  <2> QED BY <1>2, <2>1 DEF WalkOK, WalkInv, Ended, ToSet
<1>3. CASE Watched /\ walk.pc \in {"count", "list"}
  <2>1. PICK f, shown, seen :
          f = walk.filter /\ shown = (walk.page - 1) * walk.perPage /\ seen = walk.seen
    <3>1. \A a, b, c : \E f, shown, seen : f = a /\ shown = b /\ seen = c
      OBVIOUS
    <3> QED BY <3>1, Zenon
  <2> shown \in Nat
    BY <2>1, Walks
  <2>2. Underway(f, shown, seen)
    BY <1>3, <2>1 DEF WalkInv
  <2>3. /\ walk'.pc = walk.pc /\ walk'.filter = f /\ walk'.page = walk.page
        /\ walk'.perPage = walk.perPage /\ walk'.seen = seen
        /\ WalkOK' /\ Underway(f, shown, seen)'
    BY <1>3, <2>1, <2>2, WatchedUnderway
  <2>4. (walk'.page - 1) * walk'.perPage = shown
    BY <2>1, <2>3
  <2> QED BY <1>3, <2>3, <2>4 DEF WalkInv
<1> QED BY <1>1, <1>2, <1>3, PostsStepWalk
-----------------------------------------------------------------------------
(* The walk itself.                                                        *)

\* A page of the list holds the rows whose places it covers, each once.
LEMMA Batch ==
  ASSUME TypeOK, NEW f \in Filter, NEW P \in Nat, NEW shown \in Nat
  PROVE  LET rows == ListListings(f, P, shown) IN
         /\ rows \in Seq(Listing) /\ IsInjective(rows)
         /\ \A l : l \in ToSet(rows) <=>
                   l \in Selected(f) /\ shown <= Place(f, l) /\ Place(f, l) < shown + P
         /\ \A l \in Selected(f) : Place(f, l) \in Nat /\ Place(f, l) < Cardinality(Selected(f))
<1> DEFINE S == Selected(f)
           R == Order(f)
           q == Ranked(f)
           w == ListListings(f, P, shown)
           place(l) == Place(f, l)
<1>1. IsFiniteSet(S) /\ S \subseteq Listing /\ Cardinality(S) \in Nat
  BY SelectedAre
<1>2. Orders(S, R)
  BY BeforeOrders, SelectedAre DEF Order
<1>3. q = InOrder(S, R)
  BY DEF Ranked, Order
<1>4. \A l : place(l) = Rank(S, R, l)
  BY DEF Place
<1>5. w = Window(q, P, shown)
  BY DEF ListListings
<1> HIDE DEF S, R, q, w, place
<1>6. /\ q \in Seq(S) /\ Len(q) \in Nat /\ Len(q) = Cardinality(S)
      /\ \A i \in 1..Len(q) : q[i] \in S /\ place(q[i]) = i - 1
      /\ \A l \in S : place(l) + 1 \in 1..Len(q) /\ q[place(l) + 1] = l
  BY <1>1, <1>2, <1>3, <1>4, Sorted
<1>7. \A l \in S : place(l) \in Nat /\ place(l) < Cardinality(S)
  BY <1>1, <1>2, <1>4, RankBound
<1>8. /\ w \in Seq(S) /\ Len(w) = WindowLen(Len(q), P, shown)
      /\ \A i \in 1..Len(w) : w[i] = q[shown + i] /\ shown + i \in 1..Len(q)
  <2>1. q \in Seq(S)
    BY <1>6
  <2>2. /\ Window(q, P, shown) \in Seq(S)
        /\ Len(Window(q, P, shown)) = WindowLen(Len(q), P, shown)
        /\ \A i \in 1..Len(Window(q, P, shown)) :
             Window(q, P, shown)[i] = q[shown + i] /\ shown + i \in 1..Len(q)
    BY <2>1, Windowed, Zenon
  <2> QED BY <1>5, <2>2, Zenon
<1>9. w \in Seq(Listing) /\ DOMAIN w = 1..Len(w) /\ Len(w) \in Nat
  <2>1. w \in Seq(S)
    BY <1>8
  <2> QED BY <1>1, <2>1, SeqMonotonic, LenProperties
<1>10. \A i \in 1..Len(w) : w[i] \in S /\ place(w[i]) = shown + i - 1
  BY <1>6, <1>8
<1>11. IsInjective(w)
  <2>1. \A i, j \in 1..Len(w) : w[i] = w[j] => i = j
    BY <1>9, <1>10
  <2> QED BY <1>9, <2>1 DEF IsInjective
<1>12. ASSUME NEW l \in ToSet(w) PROVE l \in S /\ shown <= place(l) /\ place(l) < shown + P
  <2>1. PICK i \in 1..Len(w) : w[i] = l
    BY <1>9, <1>12 DEF ToSet
  <2>2. l \in S /\ place(l) = shown + i - 1
    BY <1>10, <2>1
  <2>3. Len(w) <= P
    BY <1>6, <1>8 DEF WindowLen
  <2> QED BY <1>9, <2>1, <2>2, <2>3
<1>13. ASSUME NEW l \in S, shown <= place(l), place(l) < shown + P PROVE l \in ToSet(w)
  <2>1. PICK i \in Nat : i = place(l) + 1 - shown
    BY <1>7, <1>13
  <2>2. i \in 1..Len(w) /\ shown + i = place(l) + 1
    <3>1. /\ Len(q) \in Nat /\ place(l) \in Nat /\ place(l) + 1 <= Len(q)
          /\ Len(w) = WindowLen(Len(q), P, shown)
      BY <1>6, <1>7, <1>8
    <3> QED BY <1>13, <2>1, <3>1 DEF WindowLen
  <2>3. w[i] = l
    BY <1>6, <1>8, <2>2
  <2> QED BY <1>9, <2>2, <2>3 DEF ToSet
<1> QED BY <1>7, <1>9, <1>11, <1>12, <1>13 DEF S, w, place

LEMMA Joined ==
  ASSUME NEW T, NEW s \in Seq(T), NEW r \in Seq(T)
  PROVE  /\ s \o r \in Seq(T) /\ ToSet(s \o r) = ToSet(s) \cup ToSet(r)
         /\ IsInjective(s) /\ IsInjective(r) /\ ToSet(s) \cap ToSet(r) = {} => IsInjective(s \o r)
<1> DEFINE n == Len(s)  m == Len(r)  q == s \o r
<1>1. /\ n \in Nat /\ m \in Nat /\ DOMAIN s = 1..n /\ DOMAIN r = 1..m
      /\ q \in Seq(T) /\ Len(q) = n + m /\ DOMAIN q = 1..(n + m)
      /\ \A i \in 1..(n + m) : q[i] = IF i <= n THEN s[i] ELSE r[i - n]
  BY LenProperties, ConcatProperties
<1> HIDE DEF n, m, q
<1>2. ToSet(q) = ToSet(s) \cup ToSet(r)
  <2>1. ASSUME NEW x \in ToSet(q) PROVE x \in ToSet(s) \cup ToSet(r)
    <3>1. PICK i \in 1..(n + m) : q[i] = x
      BY <1>1, <2>1 DEF ToSet
    <3>2. (i \in DOMAIN s /\ s[i] = x) \/ (i - n \in DOMAIN r /\ r[i - n] = x)
      BY <1>1, <3>1
    <3> QED BY <3>2 DEF ToSet
  <2>2. ASSUME NEW x \in ToSet(s) PROVE x \in ToSet(q)
    <3>1. PICK i \in 1..n : s[i] = x
      BY <1>1, <2>2 DEF ToSet
    <3> QED BY <1>1, <3>1 DEF ToSet
  <2>3. ASSUME NEW x \in ToSet(r) PROVE x \in ToSet(q)
    <3>1. PICK i \in 1..m : r[i] = x
      BY <1>1, <2>3 DEF ToSet
    <3>2. n + i \in 1..(n + m) /\ q[n + i] = x
      BY <1>1, <3>1
    <3> QED BY <1>1, <3>2 DEF ToSet
  <2> QED BY <2>1, <2>2, <2>3
<1>3. ASSUME IsInjective(s), IsInjective(r), ToSet(s) \cap ToSet(r) = {} PROVE IsInjective(q)
  <2>1. \A i, j \in 1..n : s[i] = s[j] => i = j
    BY <1>1, <1>3 DEF IsInjective
  <2>2. \A i, j \in 1..m : r[i] = r[j] => i = j
    BY <1>1, <1>3 DEF IsInjective
  <2>3. \A i \in 1..n, j \in 1..m : s[i] # r[j]
    BY <1>1, <1>3 DEF ToSet
  <2>4. ASSUME NEW i \in 1..(n + m), NEW j \in 1..(n + m), q[i] = q[j] PROVE i = j
    BY <1>1, <2>1, <2>2, <2>3, <2>4
  <2> QED BY <1>1, <2>4 DEF IsInjective
<1> QED BY <1>1, <1>2, <1>3 DEF q

\* The invariant after a step of the walk, which moves no row.
LEMMA UnderwayNext ==
  ASSUME UNCHANGED <<user, listing>>, NEW f, NEW shown, NEW seen
  PROVE  Underway(f, shown, seen)' <=>
           /\ Selected(f) \subseteq walk'.first \cup walk'.entered
           /\ walk'.first \ walk'.left \subseteq Selected(f)
           /\ walk'.left = {} => \A l \in walk'.first : Place(f, l) < shown => l \in ToSet(seen)
           /\ walk'.entered = {} =>
                /\ IsInjective(seen)
                /\ \A l \in ToSet(seen) \cap Selected(f) : Place(f, l) < shown
           /\ walk'.pc = "list" /\ ~walk'.raced => Cardinality(Selected(f)) <= walk'.total
BY SelectedSame DEF Underway, ToSet

\* The next page takes the walk on by the rows it has.
LEMMA UnderwayOn ==
  ASSUME TypeOK, NEW f \in Filter, NEW P \in Nat, NEW shown \in Nat, NEW seen \in Seq(Listing),
         Underway(f, shown, seen), NEW longer, longer = seen \o ListListings(f, P, shown)
  PROVE  /\ longer \in Seq(Listing)
         /\ walk.left = {} => \A l \in walk.first : Place(f, l) < shown + P => l \in ToSet(longer)
         /\ walk.entered = {} =>
              /\ IsInjective(longer)
              /\ \A l \in ToSet(longer) \cap Selected(f) : Place(f, l) < shown + P
<1> DEFINE S == Selected(f)
           rows == ListListings(f, P, shown)
           place(l) == Place(f, l)
<1>1. /\ rows \in Seq(Listing) /\ IsInjective(rows)
      /\ \A l : l \in ToSet(rows) <=> l \in S /\ shown <= place(l) /\ place(l) < shown + P
      /\ \A l \in S : place(l) \in Nat
  BY Batch
<1>2. /\ walk.first \ walk.left \subseteq S
      /\ walk.left = {} => \A l \in walk.first : place(l) < shown => l \in ToSet(seen)
      /\ walk.entered = {} => IsInjective(seen) /\ \A l \in ToSet(seen) \cap S : place(l) < shown
  BY DEF Underway
<1>3. longer = seen \o rows
  OBVIOUS
<1> HIDE DEF S, rows, place
<1>4. /\ longer \in Seq(Listing) /\ ToSet(longer) = ToSet(seen) \cup ToSet(rows)
      /\ IsInjective(seen) /\ ToSet(seen) \cap ToSet(rows) = {} => IsInjective(longer)
  BY <1>1, <1>3, Joined
<1>5. ASSUME walk.left = {}, NEW l \in walk.first, place(l) < shown + P PROVE l \in ToSet(longer)
  <2>1. l \in S /\ place(l) \in Nat
    BY <1>1, <1>2, <1>5
  <2> QED BY <1>1, <1>2, <1>4, <1>5, <2>1
<1>6. ASSUME walk.entered = {}
      PROVE  IsInjective(longer) /\ \A l \in ToSet(longer) \cap S : place(l) < shown + P
  <2>1. \A l \in ToSet(seen) \cap S : place(l) < shown /\ place(l) \in Nat
    BY <1>1, <1>2, <1>6
  <2>2. ToSet(seen) \cap ToSet(rows) = {}
    BY <1>1, <2>1
  <2> QED BY <1>1, <1>2, <1>4, <1>6, <2>1, <2>2
<1> QED BY <1>4, <1>5, <1>6 DEF S, place
LEMMA Ending ==
  ASSUME TypeOK, NEW f \in Filter, NEW P \in Nat, NEW shown \in Nat, NEW seen \in Seq(Listing),
         Underway(f, shown, seen), walk.pc = "list", walk.total <= shown + P,
         NEW longer, longer = seen \o ListListings(f, P, shown)
  PROVE  /\ walk.left = {} /\ ~walk.raced => walk.first \subseteq ToSet(longer)
         /\ walk.entered = {} => IsInjective(longer)
<1>1. ASSUME walk.left = {}, ~walk.raced, NEW l \in walk.first PROVE l \in ToSet(longer)
  <2>1. l \in Selected(f) /\ Cardinality(Selected(f)) <= walk.total
    BY <1>1 DEF Underway
  <2>2. Place(f, l) \in Nat /\ Place(f, l) < Cardinality(Selected(f))
    BY <2>1, Batch
  <2>3. Cardinality(Selected(f)) \in Nat /\ walk.total \in Nat
    BY SelectedAre DEF TypeOK, WalkOK, Walk
  <2>4. Place(f, l) < shown + P
    BY <2>1, <2>2, <2>3
  <2> QED BY <1>1, <2>4, UnderwayOn
<1>2. walk.entered = {} => IsInjective(longer)
  BY UnderwayOn
<1> QED BY <1>1, <1>2

LEMMA WalkedForm ==
  ASSUME NEW w \in Walk, NEW pc \in {"idle", "count", "list", "done"}, NEW page \in Nat \ {0},
         NEW seen \in Seq(Listing)
  PROVE  [w EXCEPT !.pc = pc, !.page = page, !.seen = seen] \in Walk
<1> DEFINE A == {"idle", "count", "list", "done"}  B == Filters \cup {Everything}
           C == 1..maxPerPage  D == Nat \ {0}  E == Seq(Listing)  F == SUBSET Listing
<1>1. Walk = [pc : A, filter : B, perPage : C, page : D, total : Nat, seen : E,
              first : F, entered : F, left : F, raced : BOOLEAN, changes : Nat]
  BY DEF Walk
<1>2. pc \in A /\ page \in D /\ seen \in E
  OBVIOUS
<1> HIDE DEF A, B, C, D, E, F
<1> QED BY <1>1, <1>2

LEMMA WalkListed ==
  ASSUME TypeOK, WalkInv, WalkList
  PROVE  WalkOK' /\ WalkInv'
<1>1. WalkOK
  BY DEF TypeOK
<1>2. PICK f, P, shown, seen :
        f = walk.filter /\ P = walk.perPage /\ shown = (walk.page - 1) * walk.perPage /\ seen = walk.seen
  <2>1. \A a, b, c, d : \E f, P, shown, seen : f = a /\ P = b /\ shown = c /\ seen = d
    OBVIOUS
  <2> QED BY <2>1, Zenon
<1>3. /\ f \in Filter /\ P \in Nat \ {0} /\ shown \in Nat /\ seen \in Seq(Listing)
      /\ walk.page \in Nat \ {0} /\ walk.total \in Nat
      /\ (walk.page + 1 - 1) * P = shown + P /\ walk.page * P = shown + P
      /\ Offset(walk.page, P) = shown
  BY <1>1, <1>2, Walks DEF Offset
<1>4. walk.pc = "list" /\ UNCHANGED <<user, listing>> /\ Underway(f, shown, seen)
  BY <1>2 DEF WalkList, WalkInv, posts
<1>0. PICK longer : longer = seen \o ListListings(f, P, shown)
  OBVIOUS
<1> DEFINE more == walk.page < TotalPages(walk.total, P)
<1>5. walk' = [walk EXCEPT !.pc = IF more THEN "count" ELSE "done",
                           !.page = IF more THEN walk.page + 1 ELSE walk.page, !.seen = longer]
  BY <1>2, <1>3, <1>0 DEF WalkList
<1>6. /\ longer \in Seq(Listing)
      /\ walk.left = {} => \A l \in walk.first : Place(f, l) < shown + P => l \in ToSet(longer)
      /\ walk.entered = {} =>
           /\ IsInjective(longer)
           /\ \A l \in ToSet(longer) \cap Selected(f) : Place(f, l) < shown + P
  BY <1>3, <1>4, <1>0, UnderwayOn
<1>7. walk.total <= TotalPages(walk.total, P) * P /\ TotalPages(walk.total, P) \in Nat
  <2>1. walk.total \in Nat /\ P \in Nat /\ P >= 1
    BY <1>3
  <2> QED BY <2>1, EnoughPages, Zenon
<1>8. ~more => walk.total <= shown + P
  <2>1. PICK a \in Nat, b \in Nat, c \in Nat, d \in Nat :
          a = walk.page /\ b = TotalPages(walk.total, P) /\ c = P /\ d = walk.total
    BY <1>3, <1>7
  <2>2. a >= b /\ d <= b * c => d <= a * c
    <3> SUFFICES ASSUME a >= b, d <= b * c PROVE d <= a * c
      OBVIOUS
    <3>1. a * c = b * c + (a - b) * c /\ (a - b) * c \in Nat
      OBVIOUS
    <3>2. b * c \in Nat
      OBVIOUS
    <3> QED BY <3>1, <3>2
  <2>3. ~more => a >= b
    BY <1>7, <2>1
  <2> HIDE DEF more
  <2> QED BY <1>3, <1>7, <2>1, <2>2, <2>3, Zenon
<1>9. ~more => /\ walk.left = {} /\ ~walk.raced => walk.first \subseteq ToSet(longer)
               /\ walk.entered = {} => IsInjective(longer)
  BY <1>3, <1>4, <1>8, <1>0, Ending
<1>10. UNCHANGED <<user, listing>>
  BY <1>4
<1> HIDE DEF more
<1>11. /\ walk'.pc = (IF more THEN "count" ELSE "done")
       /\ walk'.page = (IF more THEN walk.page + 1 ELSE walk.page)
       /\ walk'.seen = longer /\ walk'.filter = f /\ walk'.perPage = P
       /\ walk'.first = walk.first /\ walk'.entered = walk.entered /\ walk'.left = walk.left
       /\ walk'.raced = walk.raced
  BY <1>1, <1>2, <1>5 DEF WalkOK, Walk
<1>12. WalkOK'
  <2>1. (IF more THEN "count" ELSE "done") \in {"idle", "count", "list", "done"}
    OBVIOUS
  <2>2. (IF more THEN walk.page + 1 ELSE walk.page) \in Nat \ {0}
    BY <1>3
  <2> QED BY <1>1, <1>5, <1>6, <2>1, <2>2, WalkedForm DEF WalkOK
<1>13. CASE more
  <2>1. Underway(f, shown + P, longer)'
    <3>1. Selected(f) \subseteq walk.first \cup walk.entered /\ walk.first \ walk.left \subseteq Selected(f)
      BY <1>4 DEF Underway
    <3>2. walk'.pc = "count"
      BY <1>11, <1>13
    <3> QED BY <1>6, <1>10, <1>11, <3>1, <3>2, UnderwayNext
  <2>2. (walk'.page - 1) * walk'.perPage = shown + P
    BY <1>3, <1>11, <1>13
  <2> QED BY <1>11, <1>12, <1>13, <2>1, <2>2 DEF WalkInv
<1>14. CASE ~more
  <2>1. Ended'
    BY <1>9, <1>11, <1>14 DEF Ended, ToSet
  <2> QED BY <1>11, <1>12, <1>14, <2>1 DEF WalkInv
<1> QED BY <1>13, <1>14
LEMMA WalkCounted ==
  ASSUME TypeOK, WalkInv, WalkCount
  PROVE  WalkOK' /\ WalkInv'
<1>1. WalkOK /\ UNCHANGED <<user, listing>> /\ walk.pc = "count"
  BY DEF TypeOK, WalkCount, posts
<1>2. PICK f, shown, seen :
        f = walk.filter /\ shown = (walk.page - 1) * walk.perPage /\ seen = walk.seen
  <2>1. \A a, b, c : \E f, shown, seen : f = a /\ shown = b /\ seen = c
    OBVIOUS
  <2> QED BY <2>1, Zenon
<1>3. Underway(f, shown, seen)
  BY <1>1, <1>2 DEF WalkInv
<1>4. CountListings(f) = Cardinality(Selected(f)) /\ Cardinality(Selected(f)) \in Nat
  BY SelectedAre DEF CountListings, Selected
<1>5. walk' = [walk EXCEPT !.pc = "list", !.total = Cardinality(Selected(f)), !.raced = FALSE]
  BY <1>2, <1>4 DEF WalkCount
<1>6. /\ walk'.pc = "list" /\ walk'.total = Cardinality(Selected(f)) /\ walk'.raced = FALSE
      /\ walk'.filter = f /\ walk'.page = walk.page /\ walk'.perPage = walk.perPage
      /\ walk'.seen = seen /\ walk'.first = walk.first /\ walk'.entered = walk.entered
      /\ walk'.left = walk.left
  BY <1>1, <1>2, <1>5 DEF WalkOK, Walk
<1>7. WalkOK'
  BY <1>1, <1>4, <1>5 DEF WalkOK, Walk
<1>8. Underway(f, shown, seen)'
  <2>1. /\ Selected(f) \subseteq walk.first \cup walk.entered /\ walk.first \ walk.left \subseteq Selected(f)
        /\ walk.left = {} => \A l \in walk.first : Place(f, l) < shown => l \in ToSet(seen)
        /\ walk.entered = {} =>
             /\ IsInjective(seen)
             /\ \A l \in ToSet(seen) \cap Selected(f) : Place(f, l) < shown
    BY <1>3 DEF Underway
  <2>2. Cardinality(Selected(f)) <= walk'.total
    BY <1>4, <1>6
  <2> QED BY <1>1, <1>6, <2>1, <2>2, UnderwayNext
<1>9. (walk'.page - 1) * walk'.perPage = shown
  BY <1>2, <1>6
<1> QED BY <1>6, <1>7, <1>8, <1>9 DEF WalkInv

LEMMA WalkStarted ==
  ASSUME TypeOK, NEW f \in Walked, NEW size \in Sizes, StartWalk(f, size)
  PROVE  WalkOK' /\ WalkInv'
<1>1. UNCHANGED <<user, listing>> /\ f \in Filters /\ f \in Filter
  BY ReadsAssumption DEF StartWalk, posts
<1>2. PerPage(size) \in 1..maxPerPage
  BY ReadsAssumption, Clamped
<1>3. Selected(f) \subseteq Listing
  BY SelectedAre
<1>4. walk' = [pc |-> "count", filter |-> f, perPage |-> PerPage(size), page |-> 1, total |-> 0,
               seen |-> <<>>, first |-> Selected(f), entered |-> {}, left |-> {}, raced |-> FALSE,
               changes |-> 0]
  BY DEF StartWalk, NoWalk
<1>5. <<>> \in Seq(Listing)
  OBVIOUS
<1>6. WalkOK'
  BY <1>1, <1>2, <1>3, <1>4, <1>5 DEF WalkOK, Walk
<1>7. /\ walk'.pc = "count" /\ walk'.filter = f /\ walk'.page = 1 /\ walk'.perPage = PerPage(size)
      /\ walk'.seen = <<>> /\ walk'.first = Selected(f) /\ walk'.entered = {} /\ walk'.left = {}
  BY <1>4
<1>8. (walk'.page - 1) * walk'.perPage = 0
  BY <1>2, <1>7, ReadsAssumption
<1>9. Underway(f, 0, <<>>)'
  <2>1. ToSet(<<>>) = {} /\ IsInjective(<<>>)
    BY DEF ToSet, IsInjective
  <2>2. \A l \in Selected(f) : ~(Place(f, l) < 0)
    <3>1. \A l \in Selected(f) : Place(f, l) \in Nat
      BY <1>1, Batch
    <3> QED BY <3>1
  <2> QED BY <1>1, <1>7, <2>1, <2>2, UnderwayNext
<1> QED BY <1>6, <1>7, <1>8, <1>9 DEF WalkInv

LEMMA WalkIdle ==
  ASSUME walk' = NoWalk
  PROVE  WalkOK' /\ WalkInv'
<1>1. 1 \in 1..maxPerPage
  BY ReadsAssumption
<1>2. <<>> \in Seq(Listing)
  OBVIOUS
<1>3. NoWalk \in Walk /\ NoWalk.pc = "idle"
  BY <1>1, <1>2 DEF NoWalk, Walk
<1> QED BY <1>3 DEF WalkOK, WalkInv

ReadsInv == TypeOK /\ WalkInv

LEMMA InitShape == Init => ReadsInv
<1> SUFFICES ASSUME Init PROVE ReadsInv
  OBVIOUS
<1>1. PostsOK
  <2>1. user \in [User -> [verified : BOOLEAN, suspended : BOOLEAN]]
    <3>1. \A u \in User : [verified |-> u = Student, suspended |-> FALSE] \in [verified : BOOLEAN, suspended : BOOLEAN]
      OBVIOUS
    <3> QED BY <3>1 DEF Init
  <2> QED BY <2>1 DEF Init, PostsOK
<1>2. TalkOK
  <2>1. NoConv \in [status : {"none", "open", "closed"}, shared : BOOLEAN, read : [User -> Nat]]
    BY DEF NoConv
  <2>2. <<>> \in Seq(User) /\ Len(<<>>) = 0 /\ 0 <= MaxMessages
    BY ReadsAssumption
  <2>3. ~Exists(NoConv) /\ \A u \in User : NoConv.read[u] = 0
    BY DEF Exists, NoConv
  <2> QED BY <2>1, <2>2, <2>3 DEF Init, TalkOK
<1>3. WalkOK /\ WalkInv
  <2>1. 1 \in 1..maxPerPage
    BY ReadsAssumption
  <2>2. <<>> \in Seq(Listing)
    OBVIOUS
  <2>3. NoWalk \in Walk /\ NoWalk.pc = "idle"
    BY <2>1, <2>2 DEF NoWalk, Walk
  <2> QED BY <2>3 DEF Init, WalkOK, WalkInv
<1> QED BY <1>1, <1>2, <1>3 DEF ReadsInv, TypeOK

LEMMA StepShape == ReadsInv /\ [Next]_vars => ReadsInv'
<1> SUFFICES ASSUME ReadsInv, [Next]_vars PROVE ReadsInv'
  OBVIOUS
<1>1. TypeOK /\ PostsOK /\ TalkOK /\ WalkOK /\ WalkInv
  BY DEF ReadsInv, TypeOK
<1>2. CASE PostsStep
  <2>1. PostsOK'
    BY <1>1, <1>2, PostsShape
  <2>2. TalkOK'
    BY <1>1, <1>2, PostsStepTalk
  <2>3. WalkOK' /\ WalkInv'
    BY <1>1, <1>2, PostsWalk
  <2> QED BY <2>1, <2>2, <2>3 DEF ReadsInv, TypeOK
<1>3. CASE TalkStep
  <2>1. TalkOK' /\ UNCHANGED <<user, posts, walk>>
    BY <1>1, <1>3, TalkShape
  <2>2. PostsOK'
    BY <1>1, <2>1 DEF PostsOK, posts
  <2>3. UNCHANGED <<user, listing, walk>>
    BY <2>1 DEF posts
  <2>4. WalkOK' /\ WalkInv'
    BY <1>1, <2>3, WalkStays
  <2> QED BY <2>1, <2>2, <2>4 DEF ReadsInv, TypeOK
<1>4. CASE WalkStep
  <2>1. UNCHANGED <<user, posts, talk>>
    BY <1>4 DEF WalkStep, StartWalk, WalkCount, WalkList, EndWalk
  <2>2. PostsOK' /\ TalkOK'
    BY <1>1, <2>1 DEF PostsOK, TalkOK, posts, talk, Exists
  <2>3. WalkOK' /\ WalkInv'
    <3>1. ASSUME NEW f \in Walked, NEW size \in Sizes, StartWalk(f, size) PROVE WalkOK' /\ WalkInv'
      BY <1>1, <3>1, WalkStarted
    <3>2. CASE WalkCount
      BY <1>1, <3>2, WalkCounted
    <3>3. CASE WalkList
      BY <1>1, <3>3, WalkListed
    <3>4. CASE EndWalk
      <4>1. walk' = NoWalk
        BY <3>4 DEF EndWalk
      <4> QED BY <4>1, WalkIdle
    <3> QED BY <1>4, <3>1, <3>2, <3>3, <3>4 DEF WalkStep
  <2> QED BY <2>2, <2>3 DEF ReadsInv, TypeOK
<1>5. CASE UNCHANGED vars
  <2>1. UNCHANGED <<user, listing, walk>> /\ UNCHANGED <<user, posts, talk>>
    BY <1>5 DEF vars, posts, talk
  <2>2. PostsOK' /\ TalkOK'
    BY <1>1, <2>1 DEF PostsOK, TalkOK, posts, talk, Exists
  <2>3. WalkOK' /\ WalkInv'
    BY <1>1, <2>1, WalkStays
  <2> QED BY <2>2, <2>3 DEF ReadsInv, TypeOK
<1> QED BY <1>2, <1>3, <1>4, <1>5, Steps

\* Whatever is written while a client walks, the rows keep their shape and the
\* walk stays behind what it has not shown and ahead of what it has.
THEOREM Invariance == Spec => []ReadsInv
BY InitShape, StepShape, PTL DEF Spec

\* Rows, markers and walks keep their shape: SetListingStatus to EndWalk.
THEOREM TypeCorrect == Spec => []TypeOK
<1>1. ReadsInv => TypeOK
  BY DEF ReadsInv
<1> QED BY <1>1, Invariance, PTL

LEMMA Distinct ==
  ASSUME NEW T, NEW q \in Seq(T), IsInjective(q)
  PROVE  Cardinality(ToSet(q)) = Len(q)
<1>1. Len(q) \in Nat /\ DOMAIN q = 1..Len(q) /\ q = [i \in 1..Len(q) |-> q[i]]
  BY LenProperties
<1>2. /\ q \in [1..Len(q) -> ToSet(q)] /\ \A i, j \in 1..Len(q) : q[i] = q[j] => i = j
      /\ \A x \in ToSet(q) : \E i \in 1..Len(q) : q[i] = x
  BY <1>1 DEF ToSet, IsInjective
<1>3. IsFiniteSet(1..Len(q)) /\ Cardinality(1..Len(q)) = Len(q)
  BY <1>1, UpToN
<1> QED BY <1>2, <1>3, SameSize

\* A client that follows page_meta to the end misses and repeats listings only
\* for what came and went meanwhile: ListListings, pageMeta.
THEOREM WalkIsFair == Spec => []WalkFair
<1>1. ReadsInv => WalkFair
  <2> SUFFICES ASSUME ReadsInv, walk.pc = "done"
               PROVE  /\ walk.left = {} /\ ~walk.raced => walk.first \subseteq ToSet(walk.seen)
                      /\ walk.entered = {} => Cardinality(ToSet(walk.seen)) = Len(walk.seen)
    BY DEF WalkFair
  <2>1. Ended /\ walk.seen \in Seq(Listing)
    BY DEF ReadsInv, WalkInv, TypeOK, WalkOK, Walk
  <2> QED BY <2>1, Distinct DEF Ended
<1> QED BY <1>1, Invariance, PTL

-----------------------------------------------------------------------------
(* The reads agree with one another.                                       *)

LEMMA RowsFinite ==
  /\ IsFiniteSet(Listing) /\ IsFiniteSet(Listings) /\ IsFiniteSet(Offers)
  /\ IsFiniteSet(Conversations) /\ IsFiniteSet(Requests) /\ IsFiniteSet(User)
<1>1. IsFiniteSet(Listing)
  BY ReadsAssumption, UpToN DEF Listing
<1>2. Listings \subseteq Listing /\ Offers \subseteq Listing /\ Conversations \subseteq Listing
  BY DEF Listings, Offers, Conversations
<1>3. IsFiniteSet({request}) /\ Requests \subseteq {request}
  BY FS_Singleton DEF Requests
<1>4. IsFiniteSet({Host} \cup {Student}) /\ User = {Host} \cup {Student}
  BY FS_Singleton, FS_Union DEF User
<1> QED BY <1>1, <1>2, <1>3, <1>4, Sized

LEMMA PostedAre ==
  ASSUME PostsOK, NEW l \in Listings
  PROVE  /\ listing[l].status \in {"published", "paused"} /\ listing[l].removed \in BOOLEAN
         /\ listing[l].terms \in Terms /\ listing[l].terms \in Term
BY ReadsAssumption DEF PostsOK, Listings, Exists, NoPost

LEMMA Agreeing == TypeOK => ReadsAgree
<1> SUFFICES ASSUME TypeOK PROVE ReadsAgree
  OBVIOUS
<1>1. PostsOK /\ Null \notin BOOLEAN /\ Null \notin Int
  BY ReadsAssumption DEF TypeOK
<1>2. Selected(Everything) = {l \in Listing : GetPublishedListing(l)}
  <2>1. Null # TRUE
    BY <1>1
  <2> QED BY <2>1 DEF Selected, Everything, GetPublishedListing, Listings, Exists
<1>3. ASSUME NEW l \in Listings, NEW month \in {listing[l].terms.start, listing[l].terms.end},
             GetPublishedListing(l)
      PROVE  GetListingAvailability(Everything, month) > 0
  <2> DEFINE S == {k \in Listings :
        LET row == listing[k]  t == row.terms IN
        /\ row.status = "published" /\ ~user[Host].suspended /\ ~row.removed
        /\ t.start <= month /\ t.end >= month}
  <2>1. Null # TRUE
    BY <1>1
  <2>2. GetListingAvailability(Everything, month) = Cardinality(S)
    BY <2>1 DEF GetListingAvailability, ListingAvailabilityByMonth, Everything
  <2>3. listing[l].terms \in Terms /\ listing[l].terms.start \in Int /\ listing[l].terms.end \in Int
    BY <1>1, PostedAre DEF Term
  <2>4. l \in S
    BY <1>3, <2>3, ReadsAssumption DEF GetPublishedListing
  <2>5. S \subseteq Listings
    OBVIOUS
  <2> HIDE DEF S
  <2>6. IsFiniteSet(S) /\ Cardinality(S) \in Nat
    BY <2>5, RowsFinite, Sized
  <2>7. Cardinality(S) # 0
    BY <2>4, <2>6, FS_EmptySet
  <2> QED BY <2>2, <2>6, <2>7
<1>4. ASSUME NEW f \in Filters, NEW month \in {f.start, f.end} \ {Null}, f.start = f.end, ~Refused(f)
      PROVE  CountListings(f) <= GetListingAvailability(f, month)
  <2> DEFINE S == {l \in Listings :
        LET row == listing[l]  t == row.terms IN
        /\ row.status = "published" /\ ~user[Host].suspended /\ ~row.removed
        /\ f.priceMin = Null \/ t.price >= f.priceMin
        /\ f.priceMax = Null \/ t.price <= f.priceMax
        /\ f.distanceMax = Null \/ (t.distance # Null /\ t.distance <= f.distanceMax)
        /\ f.furnished = Null \/ t.furnished = f.furnished
        /\ f.verifiedOnly = TRUE => user[Host].verified
        /\ f.allInMax = Null \/ (t.bills # Null /\ t.price + t.bills <= f.allInMax)
        /\ t.start <= month /\ t.end >= month}
  <2>1. GetListingAvailability(f, month) = Cardinality(S)
    BY <1>4 DEF Refused, GetListingAvailability, ListingAvailabilityByMonth
  <2>2. CountListings(f) = Cardinality(Selected(f))
    BY DEF CountListings, Selected
  <2>3. f.start = month /\ f.end = month /\ month # Null
    BY <1>4
  <2>4. Selected(f) \subseteq S
    BY <2>3 DEF Selected
  <2>5. S \subseteq Listings
    OBVIOUS
  <2> HIDE DEF S
  <2>6. IsFiniteSet(S)
    BY <2>5, RowsFinite, Sized
  <2>7. Cardinality(Selected(f)) <= Cardinality(S)
    BY <2>4, <2>6, Sized
  <2> QED BY <2>1, <2>2, <2>7
<1>5. ListOffersForRequest = {l \in Offers : offer[l] = "live" /\ GetPublishedListing(l)}
  BY DEF ListOffersForRequest, GetPublishedListing, Offers, Exists
<1>6. ASSUME NEW u \in User, NEW l \in Conversations
      PROVE  GetConversationForParticipant(u, l).listingAvailable = GetPublishedListing(l)
  BY DEF GetConversationForParticipant, GetPublishedListing, Exists
<1>7. ListRequests(Everything) = GetPublishedRequest
  <2>1. Null # TRUE
    BY <1>1
  <2> QED BY <2>1 DEF ListRequests, GetPublishedRequest, Everything
<1> QED BY <1>2, <1>3, <1>4, <1>5, <1>6, <1>7 DEF ReadsAgree

\* Every read of its own WHERE clause agrees on what is in public view:
\* ListListings, GetPublishedListing, ListingAvailabilityByMonth, ListOffersForRequest,
\* GetConversationForParticipant.
THEOREM ReadsAlike == Spec => []ReadsAgree
BY TypeCorrect, Agreeing, PTL

\* A takedown moves a post from one of the admin's lists to the other.
LEMMA Parted ==
  ASSUME PostsOK
  PROVE  CountListingsForAdmin(Null, TRUE, Null) + CountListingsForAdmin(Null, FALSE, Null) = Cardinality(Listings)
<1> DEFINE S == {l \in Listings : listing[l].removed = TRUE}
           T == {l \in Listings : listing[l].removed = FALSE}
<1>1. Null # TRUE /\ Null # FALSE
  BY ReadsAssumption
<1>2. CountListingsForAdmin(Null, TRUE, Null) = Cardinality(S)
  BY <1>1 DEF CountListingsForAdmin
<1>3. CountListingsForAdmin(Null, FALSE, Null) = Cardinality(T)
  BY <1>1 DEF CountListingsForAdmin
<1>4. S \cup T = Listings /\ S \cap T = {}
  BY PostedAre
<1>5. S \subseteq Listings /\ T \subseteq Listings
  OBVIOUS
<1> HIDE DEF S, T
<1>6. IsFiniteSet(S) /\ IsFiniteSet(T) /\ Cardinality(S) \in Nat /\ Cardinality(T) \in Nat
  BY <1>5, RowsFinite, Sized
<1>7. Cardinality(Listings) = Cardinality(S) + Cardinality(T) - Cardinality(S \cap T)
  BY <1>4, <1>6, FS_Union
<1>8. Cardinality(S \cap T) = 0
  BY <1>4, FS_EmptySet
<1>9. Cardinality(S) + Cardinality(T) = Cardinality(Listings)
  BY <1>6, <1>7, <1>8
<1> QED BY <1>2, <1>3, <1>9, Zenon

LEMMA Overseen == TypeOK => AdminSeesAll
<1> SUFFICES ASSUME TypeOK PROVE AdminSeesAll
  OBVIOUS
<1> DEFINE o == AdminOverviewCounts
<1>1. PostsOK /\ Null # TRUE /\ Null # FALSE /\ Null # "published" /\ Null \notin User /\ Host # Student
  BY ReadsAssumption DEF TypeOK
<1>2. \A u \in User : user[u].verified \in BOOLEAN /\ user[u].suspended \in BOOLEAN
  BY <1>1 DEF PostsOK
<1>3. o.verified = CountUsersForAdmin(TRUE, Null)
  <2>1. {u \in User : user[u].verified} = {u \in User : user[u].verified = TRUE}
    BY <1>2
  <2> QED BY <1>1, <2>1 DEF AdminOverviewCounts, CountUsersForAdmin
<1>4. o.suspended = CountUsersForAdmin(Null, TRUE)
  <2>1. {u \in User : user[u].suspended} = {u \in User : user[u].suspended = TRUE}
    BY <1>2
  <2> QED BY <1>1, <2>1 DEF AdminOverviewCounts, CountUsersForAdmin
<1>5. o.listings = <<CountListingsForAdmin(Null, Null, Null), CountListingsForAdmin("published", Null, Null)>>
  BY <1>1 DEF AdminOverviewCounts, CountListingsForAdmin
<1>6. o.requests = <<CountRequestsForAdmin(Null, Null, Null), CountRequestsForAdmin("published", Null, Null)>>
  BY <1>1 DEF AdminOverviewCounts, CountRequestsForAdmin
<1>7. CountListingsForAdmin(Null, TRUE, Null) + CountListingsForAdmin(Null, FALSE, Null) = o.listings[1]
  BY <1>1, Parted DEF AdminOverviewCounts
<1>8. ASSUME NEW u \in User
      PROVE  /\ ListListingsForAdmin(Null, Null, u) = ListListingsByOwner(u)
             /\ GetUserForAdmin(u).listings = Cardinality(ListListingsByOwner(u))
             /\ GetUserForAdmin(u).requests = Cardinality(ListRequestsByPoster(u))
             /\ GetUserForAdmin(u).offers = Cardinality(ListOffersByOwner(u))
  <2>1. Cardinality({}) = 0
    BY FS_EmptySet
  <2>2. ListListingsForAdmin(Null, Null, u) = ListListingsByOwner(u)
    BY <1>1 DEF ListListingsForAdmin, ListListingsByOwner
  <2> QED BY <2>1, <2>2 DEF GetUserForAdmin, ListListingsByOwner, ListRequestsByPoster, ListOffersByOwner
<1> QED BY <1>3, <1>4, <1>5, <1>6, <1>7, <1>8 DEF AdminSeesAll

\* Every total is the number of rows of its list, under any filter, and the
\* admin's numbers add up: the Count queries of listings, requests, users and
\* offers.
THEOREM CountsAlike == Spec => []CountsAgree
<1>1. TypeOK => CountsAgree
  <2> SUFFICES ASSUME TypeOK PROVE CountsAgree
    OBVIOUS
  <2>1. \A f \in Filters : /\ CountListings(f) = Cardinality(Selected(f))
                           /\ CountRequests(f) = Cardinality(ListRequests(f))
    BY DEF CountListings, Selected, CountRequests, ListRequests
  <2>2. {BrowseOfferCount, PublishedOfferCount, PosterOfferCount, AdminOfferCount, CountOffersForRequest}
          = {Cardinality(ListOffers(Student))}
    BY DEF BrowseOfferCount, PublishedOfferCount, PosterOfferCount, AdminOfferCount,
           CountOffersForRequest, ListOffers, ListOffersForRequest
  <2>3. \A removed, status, owner :
          /\ CountListingsForAdmin(status, removed, owner)
               = Cardinality(ListListingsForAdmin(status, removed, owner))
          /\ CountRequestsForAdmin(status, removed, owner)
               = Cardinality(ListRequestsForAdmin(status, removed, owner))
    BY DEF CountListingsForAdmin, ListListingsForAdmin, CountRequestsForAdmin, ListRequestsForAdmin
  <2>4. \A verified, suspended :
          CountUsersForAdmin(verified, suspended) = Cardinality(ListUsersForAdmin(verified, suspended))
    BY DEF CountUsersForAdmin, ListUsersForAdmin
  <2> QED BY <2>1, <2>2, <2>3, <2>4, Overseen DEF CountsAgree
<1> QED BY <1>1, TypeCorrect, PTL

-----------------------------------------------------------------------------
(* The exact address.                                                      *)

Unread(u, l) == {m \in DOMAIN messages[l] : messages[l][m] # u /\ m > conv[l].read[u]}
Entry(u, l) ==
  [about |-> l, place |-> conv[l].shared /\ ~listing[l].removed /\ ~user[Host].suspended,
   unread |-> Cardinality(Unread(u, l))]
Asked(u, status, side) ==
  {k \in Conversations : /\ Participant(u)
                         /\ status = Null \/ (status = "open") = (conv[k].status = "open")
                         /\ side = Null \/ (side = "owner") = (u = Host)}

LEMMA InboxRows ==
  /\ \A u, status, side : ListConversationsForUser(u, status, side) = {Entry(u, l) : l \in Asked(u, status, side)}
  /\ \A u, l : Entry(u, l).about = l /\ Entry(u, l).unread = Cardinality(Unread(u, l))
  /\ \A u, l : Entry(u, l).place = (conv[l].shared /\ ~listing[l].removed /\ ~user[Host].suspended)
  /\ \A u \in User : Asked(u, Null, Null) = Conversations
<1>1. ASSUME NEW u, NEW status, NEW side
      PROVE  ListConversationsForUser(u, status, side) = {Entry(u, l) : l \in Asked(u, status, side)}
  BY Zenon DEF ListConversationsForUser, Entry, Asked, Unread
<1>2. \A u, l : Entry(u, l).about = l /\ Entry(u, l).unread = Cardinality(Unread(u, l))
  BY DEF Entry
<1>3. \A u \in User : Asked(u, Null, Null) = Conversations
  BY DEF Asked, Participant, User
<1>4. ASSUME NEW u, NEW l
      PROVE  Entry(u, l).place = (conv[l].shared /\ ~listing[l].removed /\ ~user[Host].suspended)
  <2> DEFINE place == conv[l].shared /\ ~listing[l].removed /\ ~user[Host].suspended
             unread == Cardinality(Unread(u, l))
  <2>1. Entry(u, l) = [about |-> l, place |-> place, unread |-> unread]
    BY DEF Entry
  <2> HIDE DEF place, unread
  <2>2. Entry(u, l).place = place
    BY <2>1
  <2> QED BY <2>2, Zenon DEF place
<1> QED BY <1>1, <1>2, <1>3, <1>4, Zenon

LEMMA InboxForm ==
  ASSUME NEW u \in User
  PROVE  /\ \A l \in Conversations : \E c \in ListConversationsForUser(u, Null, Null) : c.about = l
         /\ \A c \in ListConversationsForUser(u, Null, Null) :
              c.about \in Conversations /\ c = Entry(u, c.about)
<1>1. ListConversationsForUser(u, Null, Null) = {Entry(u, l) : l \in Conversations}
  BY InboxRows
<1> QED BY <1>1, InboxRows

\* Outside the admin surface, only its owner and the student it was shared
\* with see an exact address, the student while no takedown or suspension
\* withholds it; an admin sees every one: toListing, toConversation.
THEOREM AddressPrivate == Spec => []AddressStaysPrivate
<1>1. TypeOK => AddressStaysPrivate
  <2> SUFFICES ASSUME TypeOK PROVE AddressStaysPrivate
    OBVIOUS
  <2> DEFINE Seen == {l \in Conversations : conv[l].shared /\ ~listing[l].removed /\ ~user[Host].suspended}
  <2>1. Conversations \subseteq Listings
    BY DEF TypeOK, TalkOK, Conversations, Listings
  <2>2. ASSUME NEW u \in User PROVE ConversationAddresses(u) = Seen /\ InboxAddresses(u) = Seen
    <3>1. ConversationAddresses(u) = Seen
      BY DEF ConversationAddresses, GetConversationForParticipant, Participant, User
    <3>2. ASSUME NEW l \in InboxAddresses(u) PROVE l \in Seen
      <4>1. PICK c \in ListConversationsForUser(u, Null, Null) : c.place /\ c.about = l
        BY <3>2 DEF InboxAddresses
      <4>2. l \in Conversations /\ c = Entry(u, l)
        BY <4>1, InboxForm
      <4>3. c.place = (conv[l].shared /\ ~listing[l].removed /\ ~user[Host].suspended)
        BY <4>2, InboxRows, Zenon
      <4> QED BY <4>1, <4>2, <4>3, Zenon
    <3>3. ASSUME NEW l \in Seen PROVE l \in InboxAddresses(u)
      <4>1. PICK c \in ListConversationsForUser(u, Null, Null) : c.about = l
        BY InboxForm
      <4>2. c = Entry(u, l)
        BY <4>1, InboxForm
      <4>3. c.place = (conv[l].shared /\ ~listing[l].removed /\ ~user[Host].suspended)
        BY <4>2, InboxRows, Zenon
      <4>4. c.place
        BY <3>3, <4>3, Zenon
      <4> QED BY <4>1, <4>4 DEF InboxAddresses
    <3> QED BY <3>1, <3>2, <3>3
  <2>3. /\ ConversationAddresses(Stranger) = {}
        /\ ListConversationsForUser(Stranger, Null, Null) = {}
    BY ReadsAssumption DEF ConversationAddresses, ListConversationsForUser, Participant, User
  <2>4. InboxAddresses(Stranger) = {}
    BY <2>3 DEF InboxAddresses
  <2>5. ListListingsForAdmin(Null, Null, Null) = Listings
    BY DEF ListListingsForAdmin
  <2>6. /\ AdminListAddresses(TRUE) = Listings /\ AdminListAddresses(FALSE) = {}
        /\ AdminAnswerAddresses(TRUE) = Listings /\ AdminAnswerAddresses(FALSE) = {}
    BY <2>5 DEF AdminListAddresses, AdminAnswerAddresses, toListing
  <2>7. /\ MyListingAddresses(Host) = Listings /\ OwnWriteAddresses(Host) \subseteq Listings
        /\ \A u \in {Student, Stranger} : MyListingAddresses(u) = {} /\ OwnWriteAddresses(u) = {}
    BY ReadsAssumption DEF MyListingAddresses, OwnWriteAddresses, toListing, ListListingsByOwner, User
  <2>8. /\ BrowseAddresses = {} /\ GetAddresses = {}
        /\ \A u : OfferAddresses(u) = {} /\ OfferAnswerAddresses(u) = {}
    BY DEF BrowseAddresses, GetAddresses, OfferAddresses, OfferAnswerAddresses, toListing
  <2>9. ASSUME NEW u, NEW admin
        PROVE  AddressesSeen(u, admin)
                 = UNION {MyListingAddresses(u), OwnWriteAddresses(u), AdminListAddresses(admin),
                          AdminAnswerAddresses(admin), ConversationAddresses(u), InboxAddresses(u)}
    <3> DEFINE Public == {BrowseAddresses, GetAddresses, OfferAddresses(u), OfferAnswerAddresses(u)}
               Private == {MyListingAddresses(u), OwnWriteAddresses(u), AdminListAddresses(admin),
                           AdminAnswerAddresses(admin), ConversationAddresses(u), InboxAddresses(u)}
    <3>1. AddressesSeen(u, admin) = UNION (Public \cup Private)
      BY DEF AddressesSeen
    <3>2. UNION Public = {}
      BY <2>8
    <3> HIDE DEF Public, Private
    <3>3. UNION (Public \cup Private) = UNION Private
      BY <3>2
    <3>4. AddressesSeen(u, admin) = UNION Private
      BY <3>1, <3>3, Zenon
    <3> QED BY <3>4, Zenon DEF Private
  <2>10. \A u \in User \cup {Stranger} : AddressesSeen(u, TRUE) = Listings
    <3> SUFFICES ASSUME NEW u \in User \cup {Stranger} PROVE AddressesSeen(u, TRUE) = Listings
      OBVIOUS
    <3>1. /\ MyListingAddresses(u) \subseteq Listings /\ OwnWriteAddresses(u) \subseteq Listings
          /\ ConversationAddresses(u) \subseteq Listings /\ InboxAddresses(u) \subseteq Listings
      BY <2>1, <2>2, <2>3, <2>4, <2>7 DEF User
    <3> QED BY <3>1, <2>6, <2>9
  <2>11. AddressesSeen(Host, FALSE) = Listings
    BY <2>1, <2>2, <2>6, <2>7, <2>9 DEF User
  <2>12. AddressesSeen(Student, FALSE) = Seen
    BY <2>2, <2>6, <2>7, <2>9 DEF User
  <2>13. AddressesSeen(Stranger, FALSE) = {}
    BY <2>3, <2>4, <2>6, <2>7, <2>9
  <2> QED BY <2>2, <2>10, <2>11, <2>12, <2>13 DEF AddressStaysPrivate
<1> QED BY <1>1, TypeCorrect, PTL

-----------------------------------------------------------------------------
(* The inbox.                                                              *)

Less(rows) == {p \in rows \X rows : p[1] < p[2]}

LEMMA LessOrders ==
  ASSUME NEW rows, rows \subseteq Int
  PROVE  Orders(rows, Less(rows))
<1>1. \A k, l \in rows : <<k, l>> \in Less(rows) <=> k < l
  BY DEF Less
<1> QED BY <1>1 DEF Orders

LEMMA UnreadAre ==
  ASSUME TypeOK, NEW u \in User, NEW l \in Conversations
  PROVE  /\ Unread(u, l) \subseteq 1..MaxMessages /\ Unread(u, l) \subseteq Int
         /\ IsFiniteSet(Unread(u, l)) /\ Cardinality(Unread(u, l)) \in Nat
         /\ Cardinality(Unread(u, l)) <= Len(messages[l])
         /\ Len(messages[l]) \in Nat /\ Len(messages[l]) <= MaxMessages
<1>1. /\ messages[l] \in Seq(User) /\ Len(messages[l]) \in Nat /\ Len(messages[l]) <= MaxMessages
      /\ DOMAIN messages[l] = 1..Len(messages[l])
  BY LenProperties DEF TypeOK, TalkOK, Conversations
<1>2. Unread(u, l) \subseteq 1..Len(messages[l])
  BY <1>1 DEF Unread
<1>3. IsFiniteSet(1..Len(messages[l])) /\ Cardinality(1..Len(messages[l])) = Len(messages[l])
  BY <1>1, UpToN
<1>4. MaxMessages \in Nat
  BY ReadsAssumption
<1>5. IsFiniteSet(Unread(u, l)) /\ Cardinality(Unread(u, l)) \in Nat /\ Cardinality(Unread(u, l)) <= Len(messages[l])
  BY <1>2, <1>3, Sized
<1>6. Unread(u, l) \subseteq 1..MaxMessages /\ Unread(u, l) \subseteq Int
  BY <1>1, <1>2, <1>4
<1> QED BY <1>1, <1>5, <1>6

\* What the badge counts, as pairs of a conversation and a message.
Waiting(u) == {x \in Conversations \X (1..MaxMessages) : x[2] \in Unread(u, x[1])}

LEMMA WaitingAre ==
  ASSUME TypeOK, NEW u \in User
  PROVE  /\ UnreadCountsForUser(u).conversations = Cardinality({x[1] : x \in Waiting(u)})
         /\ UnreadCountsForUser(u).messages = Cardinality(Waiting(u))
         /\ \A l \in Conversations : \A m \in Unread(u, l) : <<l, m>> \in Waiting(u)
         /\ \A x \in Waiting(u) : x = <<x[1], x[2]>> /\ x[1] \in Conversations /\ x[2] \in Unread(u, x[1])
         /\ IsFiniteSet(Waiting(u))
<1>1. Waiting(u) = {x \in Conversations \X (1..MaxMessages) :
                      /\ x[2] \in DOMAIN messages[x[1]]
                      /\ messages[x[1]][x[2]] # u /\ x[2] > conv[x[1]].read[u]}
  BY DEF Waiting, Unread
<1>2. /\ UnreadCountsForUser(u).conversations = Cardinality({x[1] : x \in Waiting(u)})
      /\ UnreadCountsForUser(u).messages = Cardinality(Waiting(u))
  BY <1>1 DEF UnreadCountsForUser
<1>3. \A l \in Conversations : \A m \in Unread(u, l) : m \in 1..MaxMessages
  BY UnreadAre
<1>4. IsFiniteSet(Conversations \X (1..MaxMessages))
  <2>1. IsFiniteSet(1..MaxMessages)
    BY ReadsAssumption, UpToN
  <2> QED BY <2>1, RowsFinite, FS_Product
<1>5. IsFiniteSet(Waiting(u))
  BY <1>4, Sized DEF Waiting
<1>6. \A x \in Waiting(u) : x = <<x[1], x[2]>> /\ x[1] \in Conversations /\ x[2] \in Unread(u, x[1])
  BY DEF Waiting
<1>7. \A l \in Conversations : \A m \in Unread(u, l) : <<l, m>> \in Waiting(u)
  BY <1>3 DEF Waiting
<1> QED BY <1>2, <1>5, <1>6, <1>7

\* As many conversations have unread messages as entries of the inbox show some,
LEMMA BadgeConversations ==
  ASSUME TypeOK, NEW u \in User
  PROVE  UnreadCountsForUser(u).conversations
           = Cardinality({c \in ListConversationsForUser(u, Null, Null) : c.unread > 0})
<1> DEFINE W == {x[1] : x \in Waiting(u)}
           T == {c \in ListConversationsForUser(u, Null, Null) : c.unread > 0}
           f == [l \in W |-> Entry(u, l)]
<1>1. ASSUME NEW l PROVE l \in W <=> l \in Conversations /\ Cardinality(Unread(u, l)) > 0
  <2>1. l \in W <=> l \in Conversations /\ Unread(u, l) # {}
    <3>1. ASSUME NEW x \in Waiting(u), l = x[1] PROVE l \in Conversations /\ Unread(u, l) # {}
      BY <3>1, WaitingAre
    <3>2. ASSUME l \in Conversations, NEW m \in Unread(u, l) PROVE \E x \in Waiting(u) : l = x[1]
      <4>1. <<l, m>> \in Waiting(u) /\ <<l, m>>[1] = l
        BY <3>2, WaitingAre
      <4> QED BY <4>1
    <3> QED BY <3>1, <3>2
  <2>2. ASSUME l \in Conversations PROVE Unread(u, l) # {} <=> Cardinality(Unread(u, l)) > 0
    <3>1. IsFiniteSet(Unread(u, l)) /\ Cardinality(Unread(u, l)) \in Nat
      BY <2>2, UnreadAre
    <3> QED BY <3>1, FS_EmptySet
  <2> QED BY <2>1, <2>2
<1>2. \A c : c \in T <=> \E l \in Conversations : c = Entry(u, l) /\ Cardinality(Unread(u, l)) > 0
  <2>1. ListConversationsForUser(u, Null, Null) = {Entry(u, l) : l \in Conversations}
    BY InboxRows
  <2>2. \A l : Entry(u, l).unread = Cardinality(Unread(u, l))
    BY InboxRows
  <2> QED BY <2>1, <2>2
<1>3. \A k, l : Entry(u, k) = Entry(u, l) => k = l
  BY InboxRows
<1>4. IsFiniteSet(W)
  <2>1. W \subseteq Conversations
    BY WaitingAre
  <2> HIDE DEF W
  <2> QED BY <2>1, RowsFinite, Sized
<1> HIDE DEF W, T
<1>5. /\ f \in [W -> T] /\ \A k, l \in W : f[k] = f[l] => k = l
      /\ \A c \in T : \E l \in W : f[l] = c
  BY <1>1, <1>2, <1>3
<1> HIDE DEF f
<1>6. Cardinality(T) = Cardinality(W)
  BY <1>4, <1>5, SameSize
<1> QED BY <1>6, WaitingAre DEF W, T

\* and as many messages are unread as the entries say together.
LEMMA BadgeMessages ==
  ASSUME TypeOK, NEW u \in User
  PROVE  LET waiting == {c \in ListConversationsForUser(u, Null, Null) : c.unread > 0} IN
         UnreadCountsForUser(u).messages
           = Cardinality({x \in waiting \X (1..MaxMessages) : x[2] <= x[1].unread})
<1> DEFINE waiting == {c \in ListConversationsForUser(u, Null, Null) : c.unread > 0}
           S == Waiting(u)
           T == {x \in waiting \X (1..MaxMessages) : x[2] <= x[1].unread}
           size(l) == Cardinality(Unread(u, l))
           rank(l, m) == Rank(Unread(u, l), Less(Unread(u, l)), m)
           f == [x \in S |-> <<Entry(u, x[1]), rank(x[1], x[2]) + 1>>]
<1>1. \A c : c \in waiting <=> \E l \in Conversations : c = Entry(u, l) /\ size(l) > 0
  <2>1. ListConversationsForUser(u, Null, Null) = {Entry(u, l) : l \in Conversations}
    BY InboxRows
  <2>2. \A l : Entry(u, l).unread = size(l)
    BY InboxRows
  <2> QED BY <2>1, <2>2
<1>2. /\ \A l : Entry(u, l).unread = size(l)
      /\ \A k, l : Entry(u, k) = Entry(u, l) => k = l
  BY InboxRows
<1>3. /\ \A l \in Conversations : \A m \in Unread(u, l) : <<l, m>> \in S
      /\ \A x \in S : x = <<x[1], x[2]>> /\ x[1] \in Conversations /\ x[2] \in Unread(u, x[1])
      /\ IsFiniteSet(S)
  BY WaitingAre
<1>4. ASSUME NEW l \in Conversations
      PROVE  /\ size(l) \in Nat /\ size(l) <= MaxMessages
             /\ \A m \in Unread(u, l) : rank(l, m) \in Nat /\ rank(l, m) < size(l)
             /\ \A m, n \in Unread(u, l) : rank(l, m) = rank(l, n) => m = n
             /\ \A i \in 1..size(l) : \E m \in Unread(u, l) : rank(l, m) = i - 1
  <2>1. /\ IsFiniteSet(Unread(u, l)) /\ Orders(Unread(u, l), Less(Unread(u, l)))
        /\ size(l) \in Nat /\ size(l) <= MaxMessages
    <3>1. /\ IsFiniteSet(Unread(u, l)) /\ Unread(u, l) \subseteq Int /\ size(l) \in Nat
          /\ size(l) <= Len(messages[l]) /\ Len(messages[l]) <= MaxMessages /\ Len(messages[l]) \in Nat
      BY UnreadAre
    <3>2. MaxMessages \in Nat
      BY ReadsAssumption
    <3> QED BY <3>1, <3>2, LessOrders
  <2> QED BY <2>1, RankBound, Ranks
<1> HIDE DEF S, waiting, rank, size
<1>5. f \in [S -> T]
  <2>1. ASSUME NEW x \in S PROVE <<Entry(u, x[1]), rank(x[1], x[2]) + 1>> \in T
    <3>1. x[1] \in Conversations /\ x[2] \in Unread(u, x[1])
      BY <1>3
    <3>2. /\ rank(x[1], x[2]) \in Nat /\ rank(x[1], x[2]) < size(x[1])
          /\ size(x[1]) \in Nat /\ size(x[1]) <= MaxMessages /\ MaxMessages \in Nat
      BY <1>4, <3>1, ReadsAssumption
    <3>3. Entry(u, x[1]) \in waiting /\ Entry(u, x[1]).unread = size(x[1])
      BY <1>1, <1>2, <3>1, <3>2
    <3> QED BY <3>2, <3>3
  <2> HIDE DEF T
  <2> QED BY <2>1
<1>6. ASSUME NEW x \in S, NEW y \in S, f[x] = f[y] PROVE x = y
  <2>1. Entry(u, x[1]) = Entry(u, y[1]) /\ rank(x[1], x[2]) + 1 = rank(y[1], y[2]) + 1
    BY <1>6
  <2>2. x[1] = y[1] /\ x[1] \in Conversations /\ x[2] \in Unread(u, x[1]) /\ y[2] \in Unread(u, x[1])
    BY <1>2, <1>3, <2>1
  <2>3. rank(x[1], x[2]) = rank(x[1], y[2])
    BY <1>4, <2>1, <2>2
  <2>4. x[2] = y[2]
    BY <1>4, <2>2, <2>3
  <2> QED BY <1>3, <2>2, <2>4
<1>7. ASSUME NEW t \in T PROVE \E x \in S : f[x] = t
  <2>1. t = <<t[1], t[2]>> /\ t[1] \in waiting /\ t[2] \in 1..MaxMessages /\ t[2] <= t[1].unread
    OBVIOUS
  <2>2. PICK l \in Conversations : t[1] = Entry(u, l) /\ t[1].unread = size(l)
    BY <1>1, <1>2, <2>1
  <2>3. t[2] \in 1..size(l)
    BY <1>4, <2>1, <2>2
  <2>4. PICK m \in Unread(u, l) : rank(l, m) = t[2] - 1
    BY <1>4, <2>3
  <2>5. <<l, m>> \in S /\ <<l, m>>[1] = l /\ <<l, m>>[2] = m
    BY <1>3, <2>2, <2>4
  <2>6. f[<<l, m>>] = <<Entry(u, l), rank(l, m) + 1>>
    BY <2>5
  <2>7. rank(l, m) + 1 = t[2]
    BY <2>3, <2>4
  <2> QED BY <2>1, <2>2, <2>5, <2>6, <2>7
<1> HIDE DEF f, T
<1>8. Cardinality(T) = Cardinality(S)
  BY <1>3, <1>5, <1>6, <1>7, SameSize
<1> QED BY <1>8, WaitingAre DEF S, T, waiting

LEMMA InboxCounted ==
  ASSUME NEW u, NEW status, NEW side
  PROVE  /\ IsFiniteSet(ListConversationsForUser(u, status, side))
         /\ CountConversationsForUser(u, status, side) = Cardinality(ListConversationsForUser(u, status, side))
<1> DEFINE S == Asked(u, status, side)
           T == ListConversationsForUser(u, status, side)
           f == [l \in S |-> Entry(u, l)]
<1>1. T = {Entry(u, l) : l \in S}
  BY InboxRows
<1>2. \A k, l : Entry(u, k) = Entry(u, l) => k = l
  BY InboxRows
<1>3. IsFiniteSet(S)
  <2>1. S \subseteq Conversations
    BY DEF Asked
  <2> HIDE DEF S
  <2> QED BY <2>1, RowsFinite, Sized
<1>4. CountConversationsForUser(u, status, side) = Cardinality(S)
  BY Zenon DEF CountConversationsForUser, Asked
<1> HIDE DEF S, T
<1>5. /\ f \in [S -> T] /\ \A k, l \in S : f[k] = f[l] => k = l
      /\ \A c \in T : \E l \in S : f[l] = c
  BY <1>1, <1>2
<1> HIDE DEF f
<1>6. IsFiniteSet(T) /\ Cardinality(T) = Cardinality(S)
  BY <1>3, <1>5, SameSize
<1> QED BY <1>4, <1>6 DEF T

\* The badge, the inbox, a conversation and its messages tell the same, and its
\* filters part the inbox: UnreadCountsForUser, ListConversationsForUser,
\* CountConversationsForUser.
THEOREM InboxAlike == Spec => []InboxAgrees
<1>1. TypeOK => InboxAgrees
  <2> SUFFICES ASSUME TypeOK PROVE InboxAgrees
    OBVIOUS
  <2>1. Null \notin {"open", "closed", "owner", "enquirer"}
    BY ReadsAssumption
  <2>2. ASSUME NEW u \in User, NEW c \in ListConversationsForUser(u, Null, Null)
        PROVE  /\ GetConversationForParticipant(u, c.about).unread = c.unread
               /\ c.unread <= CountMessages(c.about)
               /\ Len(ListMessages(c.about, MaxMessages, 0)) = CountMessages(c.about)
    <3>1. PICK l \in Conversations : c.about = l /\ c.unread = Cardinality(Unread(u, l))
      BY InboxForm, InboxRows
    <3>2. /\ Cardinality(Unread(u, l)) <= Len(messages[l]) /\ Len(messages[l]) \in Nat
          /\ Len(messages[l]) <= MaxMessages
      BY UnreadAre
    <3>3. messages[l] \in Seq(User) /\ MaxMessages \in Nat
      BY ReadsAssumption DEF TypeOK, TalkOK, Conversations
    <3>4. Reverse(messages[l]) \in Seq(User) /\ Len(Reverse(messages[l])) = Len(messages[l])
      BY <3>2, <3>3 DEF Reverse
    <3>5. Len(ListMessages(l, MaxMessages, 0)) = WindowLen(Len(messages[l]), MaxMessages, 0)
      BY <3>3, <3>4, Windowed DEF ListMessages
    <3>6. WindowLen(Len(messages[l]), MaxMessages, 0) = Len(messages[l])
      BY <3>2, <3>3 DEF WindowLen
    <3>7. GetConversationForParticipant(u, l).unread = Cardinality(Unread(u, l))
      BY DEF GetConversationForParticipant, Unread
    <3> QED BY <3>1, <3>2, <3>5, <3>6, <3>7 DEF CountMessages
  <2>3. ASSUME NEW u \in User
        PROVE  /\ Asked(u, Null, Null) = Asked(u, "open", Null) \cup Asked(u, "closed", Null)
               /\ Asked(u, Null, Null) = Asked(u, Null, "owner") \cup Asked(u, Null, "enquirer")
    <3>1. \A k \in Conversations : conv[k].status \in {"open", "closed"}
      BY DEF TypeOK, TalkOK, Conversations, Exists
    <3>2. Asked(u, Null, Null) = Asked(u, "open", Null) \cup Asked(u, "closed", Null)
      BY <2>1, <3>1 DEF Asked
    <3>3. Asked(u, Null, Null) = Asked(u, Null, "owner") \cup Asked(u, Null, "enquirer")
      BY <2>1 DEF Asked
    <3> QED BY <3>2, <3>3
  <2>4. ASSUME NEW u \in User
        PROVE  LET inbox == ListConversationsForUser(u, Null, Null) IN
               /\ inbox = ListConversationsForUser(u, "open", Null) \cup ListConversationsForUser(u, "closed", Null)
               /\ inbox = ListConversationsForUser(u, Null, "owner") \cup ListConversationsForUser(u, Null, "enquirer")
    <3>1. \A status, side : ListConversationsForUser(u, status, side) = {Entry(u, l) : l \in Asked(u, status, side)}
      BY InboxRows
    <3> QED BY <2>3, <3>1
  <2> QED BY <2>2, <2>4, InboxCounted, BadgeConversations, BadgeMessages DEF InboxAgrees
<1> QED BY <1>1, TypeCorrect, PTL

-----------------------------------------------------------------------------
(* The paged answers.                                                      *)

LEMMA TiledInOrder ==
  ASSUME NEW S, IsFiniteSet(S), NEW R, Orders(S, R), NEW size \in Maybe(Int), NEW answer,
         answer = [page \in Page |-> Answer(InOrder(S, R), Cardinality(S), page, size)]
  PROVE  Tiles(answer, S)
<1> DEFINE q == InOrder(S, R)
<1>1. /\ q \in Seq(S) /\ Len(q) = Cardinality(S)
      /\ \A l \in S : Rank(S, R, l) + 1 \in 1..Len(q) /\ q[Rank(S, R, l) + 1] = l
  BY Sorted
<1>2. answer = [page \in Page |-> Answer(q, Len(q), page, size)]
  BY <1>1
<1> HIDE DEF q
<1>3. \A l \in S : \E i \in 1..Len(q) : q[i] = l
  BY <1>1
<1> QED BY <1>1, <1>2, <1>3, Tiled

LEMMA TiledAnyhow ==
  ASSUME NEW S, IsFiniteSet(S), NEW size \in Maybe(Int), NEW answer,
         answer = [page \in Page |-> Answer(SetToSeq(S), Cardinality(S), page, size)]
  PROVE  Tiles(answer, S)
<1> DEFINE q == SetToSeq(S)
<1>1. /\ q \in Seq(S) /\ Len(q) = Cardinality(S)
      /\ \A x \in S : \E i \in 1..Len(q) : q[i] = x
  BY Listed
<1>2. answer = [page \in Page |-> Answer(q, Len(q), page, size)]
  BY <1>1
<1> HIDE DEF q
<1> QED BY <1>1, <1>2, Tiled

\* While nothing changes, the pages of every answer show each row of the list
\* once, and as many as page_meta says: Answer, PerPage, Offset, TotalPages.
THEOREM PagesAddUp == Spec => []PagesTile
<1>1. TypeOK => PagesTile
  <2> SUFFICES ASSUME TypeOK, NEW size \in Sizes
               PROVE  /\ \A f \in Filters :
                           /\ Tiles([page \in Page |-> ListListingsResponse(f, page, size)],
                                    IF Refused(f) THEN {} ELSE Selected(f))
                           /\ Tiles([page \in Page |-> ListRequestsResponse(f, page, size)],
                                    IF RefusedOfRequests(f) THEN {} ELSE ListRequests(f))
                      /\ \A removed \in {Null, TRUE} :
                           /\ Tiles([page \in Page |-> ListAdminListings(Null, removed, Null, page, size)],
                                    ListListingsForAdmin(Null, removed, Null))
                           /\ Tiles([page \in Page |-> ListAdminRequests(Null, removed, Null, page, size)],
                                    ListRequestsForAdmin(Null, removed, Null))
                      /\ Tiles([page \in Page |-> ListAdminUsers(Null, Null, page, size)], User)
                      /\ \A u \in User :
                           Tiles([page \in Page |-> ListMyConversations(u, Null, Null, page, size)],
                                 ListConversationsForUser(u, Null, Null))
                      /\ \A l \in Conversations :
                           Spells([page \in Page |-> ListMessagesResponse(l, page, size)], Reverse(messages[l]))
    BY DEF PagesTile
  <2>1. size \in Maybe(Int)
    BY ReadsAssumption
  <2>2. ASSUME NEW f \in Filters
        PROVE  Tiles([page \in Page |-> ListListingsResponse(f, page, size)],
                     IF Refused(f) THEN {} ELSE Selected(f))
    <3> DEFINE answer == [page \in Page |-> ListListingsResponse(f, page, size)]
    <3>1. CASE Refused(f)
      <4>1. answer = [page \in Page |-> NoAnswer]
        BY <3>1 DEF ListListingsResponse
      <4> HIDE DEF answer
      <4>2. Tiles(answer, {})
        BY <4>1, Untiled
      <4> QED BY <3>1, <4>2 DEF answer
    <3>2. CASE ~Refused(f)
      <4> DEFINE S == Selected(f)
                 R == Order(f)
      <4>1. answer = [page \in Page |-> Answer(InOrder(S, R), Cardinality(S), page, size)]
        <5>1. CountListings(f) = Cardinality(Selected(f))
          BY DEF CountListings, Selected
        <5>2. Ranked(f) = InOrder(S, R)
          BY DEF Ranked, Order
        <5> HIDE DEF S, R
        <5> QED BY <3>2, <5>1, <5>2 DEF ListListingsResponse, S
      <4>2. IsFiniteSet(S) /\ Orders(S, R)
        BY FiltersAre, SelectedAre, BeforeOrders DEF Order
      <4> HIDE DEF S, R, answer
      <4>3. Tiles(answer, S)
        BY <2>1, <4>1, <4>2, TiledInOrder
      <4> QED BY <3>2, <4>3 DEF answer, S
    <3> QED BY <3>1, <3>2
  <2>3. ASSUME NEW f \in Filters
        PROVE  Tiles([page \in Page |-> ListRequestsResponse(f, page, size)],
                     IF RefusedOfRequests(f) THEN {} ELSE ListRequests(f))
    <3> DEFINE answer == [page \in Page |-> ListRequestsResponse(f, page, size)]
               S == ListRequests(f)
    <3>1. CASE RefusedOfRequests(f)
      <4>1. answer = [page \in Page |-> NoAnswer]
        BY <3>1 DEF ListRequestsResponse
      <4> HIDE DEF answer
      <4>2. Tiles(answer, {})
        BY <4>1, Untiled
      <4> QED BY <3>1, <4>2 DEF answer
    <3>2. CASE ~RefusedOfRequests(f)
      <4>1. CountRequests(f) = Cardinality(S)
        BY DEF CountRequests, ListRequests
      <4>2. S \subseteq Requests
        BY DEF ListRequests
      <4> HIDE DEF S
      <4>3. IsFiniteSet(S)
        BY <4>2, RowsFinite, Sized
      <4>4. answer = [page \in Page |-> Answer(SetToSeq(S), Cardinality(S), page, size)]
        BY <3>2, <4>1 DEF ListRequestsResponse, S
      <4> HIDE DEF answer
      <4>5. Tiles(answer, S)
        BY <2>1, <4>3, <4>4, TiledAnyhow
      <4> QED BY <3>2, <4>5 DEF answer, S
    <3> QED BY <3>1, <3>2
  <2>4. ASSUME NEW removed
        PROVE  Tiles([page \in Page |-> ListAdminListings(Null, removed, Null, page, size)],
                     ListListingsForAdmin(Null, removed, Null))
    <3> DEFINE S == ListListingsForAdmin(Null, removed, Null)
               R == {p \in S \X S : p[1] > p[2]}
               answer == [page \in Page |-> ListAdminListings(Null, removed, Null, page, size)]
    <3>1. CountListingsForAdmin(Null, removed, Null) = Cardinality(S)
      BY DEF CountListingsForAdmin, ListListingsForAdmin
    <3>2. S \subseteq Listing
      BY DEF ListListingsForAdmin, Listings
    <3>3. answer = [page \in Page |-> Answer(InOrder(S, R), Cardinality(S), page, size)]
      BY <3>1, Zenon DEF ListAdminListings, Newest
    <3> HIDE DEF S, answer
    <3>4. IsFiniteSet(S)
      BY <3>2, RowsFinite, Sized
    <3>5. S \subseteq Int
      BY <3>2, ReadsAssumption DEF Listing
    <3>6. \A k, l \in S : <<k, l>> \in R <=> k > l
      OBVIOUS
    <3> HIDE DEF R
    <3>7. Orders(S, R)
      BY <3>5, <3>6 DEF Orders
    <3>8. Tiles(answer, S)
      BY <2>1, <3>3, <3>4, <3>7, TiledInOrder
    <3> QED BY <3>8 DEF answer, S
  <2>5. ASSUME NEW removed
        PROVE  Tiles([page \in Page |-> ListAdminRequests(Null, removed, Null, page, size)],
                     ListRequestsForAdmin(Null, removed, Null))
    <3> DEFINE S == ListRequestsForAdmin(Null, removed, Null)
               answer == [page \in Page |-> ListAdminRequests(Null, removed, Null, page, size)]
    <3>1. CountRequestsForAdmin(Null, removed, Null) = Cardinality(S)
      BY DEF CountRequestsForAdmin, ListRequestsForAdmin
    <3>2. S \subseteq Requests
      BY DEF ListRequestsForAdmin
    <3>3. answer = [page \in Page |-> Answer(SetToSeq(S), Cardinality(S), page, size)]
      BY <3>1, Zenon DEF ListAdminRequests
    <3> HIDE DEF S, answer
    <3>4. IsFiniteSet(S)
      BY <3>2, RowsFinite, Sized
    <3>5. Tiles(answer, S)
      BY <2>1, <3>3, <3>4, TiledAnyhow
    <3> QED BY <3>5 DEF answer, S
  <2>6. Tiles([page \in Page |-> ListAdminUsers(Null, Null, page, size)], User)
    <3> DEFINE answer == [page \in Page |-> ListAdminUsers(Null, Null, page, size)]
    <3>1. ListUsersForAdmin(Null, Null) = User /\ CountUsersForAdmin(Null, Null) = Cardinality(User)
      BY DEF ListUsersForAdmin, CountUsersForAdmin
    <3>2. answer = [page \in Page |-> Answer(SetToSeq(User), Cardinality(User), page, size)]
      BY <3>1, Zenon DEF ListAdminUsers
    <3> HIDE DEF answer
    <3>3. Tiles(answer, User)
      BY <2>1, <3>2, RowsFinite, TiledAnyhow
    <3> QED BY <3>3 DEF answer
  <2>7. ASSUME NEW u \in User
        PROVE  Tiles([page \in Page |-> ListMyConversations(u, Null, Null, page, size)],
                     ListConversationsForUser(u, Null, Null))
    <3> DEFINE S == ListConversationsForUser(u, Null, Null)
               answer == [page \in Page |-> ListMyConversations(u, Null, Null, page, size)]
    <3>1. IsFiniteSet(S) /\ CountConversationsForUser(u, Null, Null) = Cardinality(S)
      BY InboxCounted
    <3>2. answer = [page \in Page |-> Answer(SetToSeq(S), Cardinality(S), page, size)]
      BY <3>1, Zenon DEF ListMyConversations
    <3> HIDE DEF S, answer
    <3>3. Tiles(answer, S)
      BY <2>1, <3>1, <3>2, TiledAnyhow
    <3> QED BY <3>3 DEF answer, S
  <2>8. ASSUME NEW l \in Conversations
        PROVE  Spells([page \in Page |-> ListMessagesResponse(l, page, size)], Reverse(messages[l]))
    <3> DEFINE q == Reverse(messages[l])
               answer == [page \in Page |-> ListMessagesResponse(l, page, size)]
    <3>1. messages[l] \in Seq(User) /\ Len(messages[l]) \in Nat
      BY LenProperties DEF TypeOK, TalkOK, Conversations
    <3>2. q \in Seq(User) /\ Len(q) = Len(messages[l])
      BY <3>1 DEF Reverse
    <3>3. answer = [page \in Page |-> Answer(q, Len(q), page, size)]
      BY <3>2, Zenon DEF ListMessagesResponse, CountMessages
    <3> HIDE DEF q, answer
    <3>4. Spells(answer, q)
      BY <2>1, <3>2, <3>3, Spelled
    <3> QED BY <3>4 DEF answer, q
  <2> QED BY <2>2, <2>3, <2>4, <2>5, <2>6, <2>7, <2>8
<1> QED BY <1>1, TypeCorrect, PTL

===============================================================================
