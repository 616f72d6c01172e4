--------------------------- MODULE RateLimiterProofs --------------------------
(***************************************************************************)
(* Proofs, for any keys, rules, ceiling and requests, of what the rate     *)
(* limiter lets through.  They follow what the buckets hold and leave the  *)
(* recency list out: whatever evictLocked forgets, it can only be full     *)
(* again.                                                                  *)
(***************************************************************************)
EXTENDS RateLimiterProperties, FiniteSetTheorems, TLAPS

-----------------------------------------------------------------------------
(* The invariant.                                                          *)

Watches == [key : Key \cup {NoKey}, ticks : Nat, charges : Nat]

Typed ==
  /\ tokens \in [Key -> Int] /\ age \in [Key -> Nat]
  /\ req \in [Handler -> Request] /\ watch \in Watches

\* The keys a request is to consult: its backstop is no login's, and only a
\* login is let through to pay later.
Fits(q) ==
  /\ q.pc \in {"global", "notify", "cap"} => q.global \in Key \ LoginKey
  /\ q.pc \in {"key", "recipient"} => q.key \in Key
  /\ q.pc = "recipient" => q.key \notin LoginKey
  /\ q.pc \in {"notify", "recipient"} => q.global \in Key \ LoginKey /\ q.key \in Key \ LoginKey
  /\ q.pc = "global" => q.key \in Key \cup {NoKey}
  /\ q.pc = "login" => q.key \in LoginKey

\* Nobody but a login is served on credit.
Solvent ==
  \A k \in Key :
    IF k \in LoginKey
    THEN Refilled(k) - Cardinality(Owing(k)) * Token(k) >= (1 - Cardinality(Handler)) * Token(k)
    ELSE Refilled(k) >= 0

\* What the watched key's bucket holds and what was taken since came from one
\* full bucket and the refill of the ticks since.
Conserved ==
  \A w \in Key : watch.key = w =>
    /\ watch.ticks <= Window[w]
    /\ Refilled(w) + watch.charges * Token(w) <= Full(w) + watch.ticks * Burst[w]

LimiterInv == Typed /\ (\A h \in Handler : Fits(req[h])) /\ Solvent /\ Conserved

-----------------------------------------------------------------------------
(* Lemmas on the numbers.                                                  *)

LEMMA Rules ==
  ASSUME NEW k \in Key
  PROVE  /\ Burst[k] \in Nat /\ Burst[k] >= 1 /\ Token(k) \in Nat /\ Token(k) >= 1
         /\ Window[k] = Token(k)
         /\ Full(k) \in Nat /\ Full(k) >= Token(k) /\ Full(k) = Burst[k] * Token(k)
<1>1. Burst[k] \in Nat /\ Burst[k] >= 1 /\ Window[k] \in Nat /\ Window[k] >= 1
  BY RateLimiterAssumption
<1>2. Burst[k] * Window[k] >= Window[k]
  BY <1>1
<1> QED BY <1>1, <1>2 DEF Token, Full

LEMMA Levels ==
  ASSUME Typed, NEW k \in Key
  PROVE  /\ Refilled(k) \in Int /\ Refilled(k) <= Full(k)
         /\ Refilled(k) = Full(k) \/ Refilled(k) = tokens[k] + age[k] * Burst[k]
<1>1. tokens[k] \in Int /\ age[k] * Burst[k] \in Int /\ Full(k) \in Int
  BY Rules DEF Typed
<1> QED BY <1>1 DEF Refilled, AtMost

\* A bucket counted anew holds what it is set to, up to full.
LEMMA LevelNow ==
  ASSUME NEW k \in Key, NEW n \in Int, n <= Full(k), tokens'[k] = n, age'[k] = 0
  PROVE  Refilled(k)' = n
<1>1. age'[k] * Burst[k] = 0 /\ Full(k) \in Int
  BY Rules
<1>2. Refilled(k)' = IF tokens'[k] + age'[k] * Burst[k] <= Full(k)
                     THEN tokens'[k] + age'[k] * Burst[k] ELSE Full(k)
  BY DEF Refilled, AtMost, Full
<1> QED BY <1>1, <1>2

LEMMA Handlers == Cardinality(Handler) \in Nat /\ Cardinality(Handler) >= 1
<1>1. Cardinality(Handler) \in Nat /\ Cardinality(Handler) # 0
  BY RateLimiterAssumption, FS_CardinalityType, FS_EmptySet
<1> QED BY <1>1

LEMMA Owers ==
  ASSUME NEW k
  PROVE  /\ IsFiniteSet(Owing(k)) /\ Cardinality(Owing(k)) \in Nat
         /\ Cardinality(Owing(k)) <= Cardinality(Handler)
<1>1. Owing(k) \subseteq Handler
  BY DEF Owing
<1> QED BY <1>1, RateLimiterAssumption, FS_Subset, FS_CardinalityType

-----------------------------------------------------------------------------
(* What a consultation does to the buckets: paid is taken from that of k,  *)
(* and those that are forgotten, k's among them or not, are full again.    *)

Taken(j, k, paid) == IF j = k THEN paid ELSE 0

Consulted(k, paid) ==
  /\ tokens' \in [Key -> Int] /\ age' \in [Key -> Nat] /\ watch' \in Watches
  /\ \A j \in Key : Refilled(j)' = Refilled(j) - Taken(j, k, paid) \/ Refilled(j)' = Full(j)
  /\ \A w \in Key : watch'.key = w =>
       /\ watch.key = w /\ watch'.ticks = watch.ticks
       /\ Refilled(w)' = Refilled(w) - Taken(w, k, paid)
       /\ watch'.charges = watch.charges + IF w = k /\ paid # 0 THEN 1 ELSE 0

\* evicted and dropped are the keys forgotten at the ceiling and the one
\* forgotten because it is full.
Bookkeeping(k, paid, evicted, dropped) ==
  /\ tokens' = [j \in Key |-> IF j \in evicted \cup dropped THEN Full(j)
                              ELSE IF j = k THEN Refilled(k) - paid ELSE tokens[j]]
  /\ age' = [j \in Key |-> IF j \in evicted \cup dropped \cup {k} THEN 0 ELSE age[j]]
  /\ watch' = IF watch.key \in evicted THEN [watch EXCEPT !.key = NoKey]
              ELSE IF paid # 0 /\ watch.key = k THEN [watch EXCEPT !.charges = @ + 1]
              ELSE watch
  /\ dropped \subseteq {k} /\ (dropped # {} => paid = 0 /\ Refilled(k) = Full(k))

LEMMA BookkeepingConsulted ==
  ASSUME Typed, NEW k \in Key, NEW paid \in Nat, NEW evicted, NEW dropped,
         Bookkeeping(k, paid, evicted, dropped)
  PROVE  Consulted(k, paid)
<1>1. tokens' \in [Key -> Int] /\ age' \in [Key -> Nat]
  <2>1. Refilled(k) - paid \in Int /\ \A j \in Key : Full(j) \in Int
    BY Levels, Rules
  <2> QED BY <2>1 DEF Bookkeeping, Typed
<1>2. watch' \in Watches
  BY DEF Bookkeeping, Typed, Watches
<1>3. ASSUME NEW j \in Key, j \in evicted \cup dropped PROVE Refilled(j)' = Full(j)
  <2>1. tokens'[j] = Full(j) /\ age'[j] = 0
    BY <1>3 DEF Bookkeeping
  <2> QED BY <2>1, LevelNow, Rules
<1>4. ASSUME NEW j \in Key, j \notin evicted \cup dropped
      PROVE  Refilled(j)' = Refilled(j) - Taken(j, k, paid)
  <2>1. CASE j = k
    <3>1. tokens'[k] = Refilled(k) - paid /\ age'[k] = 0
      BY <1>4, <2>1 DEF Bookkeeping
    <3>2. Refilled(k) - paid \in Int /\ Refilled(k) - paid <= Full(k)
      BY Levels, Rules
    <3> QED BY <2>1, <3>1, <3>2, LevelNow DEF Taken
  <2>2. CASE j # k
    <3>1. tokens'[j] = tokens[j] /\ age'[j] = age[j]
      BY <1>4, <2>2 DEF Bookkeeping
    <3>2. Refilled(j)' = Refilled(j)
      BY <3>1 DEF Refilled, Full
    <3> QED BY <2>2, <3>2, Levels DEF Taken
  <2> QED BY <2>1, <2>2
<1>5. ASSUME NEW w \in Key, watch'.key = w
      PROVE  /\ watch.key = w /\ watch'.ticks = watch.ticks
             /\ Refilled(w)' = Refilled(w) - Taken(w, k, paid)
             /\ watch'.charges = watch.charges + IF w = k /\ paid # 0 THEN 1 ELSE 0
  <2>1. watch.key \notin evicted
    BY <1>5, RateLimiterAssumption DEF Bookkeeping, Typed, Watches
  <2>2. /\ watch.key = w /\ watch'.ticks = watch.ticks
        /\ watch'.charges = watch.charges + IF w = k /\ paid # 0 THEN 1 ELSE 0
    BY <1>5, <2>1 DEF Bookkeeping, Typed, Watches
  <2>3. CASE w \in dropped
    <3>1. w = k /\ paid = 0 /\ Refilled(k) = Full(k)
      BY <2>3 DEF Bookkeeping
    <3>2. Refilled(w)' = Full(w)
      BY <1>3, <2>3
    <3> QED BY <2>2, <3>1, <3>2, Rules DEF Taken
  <2>4. CASE w \notin dropped
    BY <1>4, <2>1, <2>2, <2>4
  <2> QED BY <2>3, <2>4
<1>6. \A j \in Key : Refilled(j)' = Refilled(j) - Taken(j, k, paid) \/ Refilled(j)' = Full(j)
  BY <1>3, <1>4
<1> QED BY <1>1, <1>2, <1>5, <1>6 DEF Consulted

LEMMA AllowConsults ==
  ASSUME Typed, NEW k \in Key, Allow(k)
  PROVE  \/ Consulted(k, 0)
         \/ Refilled(k) >= Token(k) /\ Consulted(k, Token(k))
<1> DEFINE paid == IF Available(k) THEN Token(k) ELSE 0
<1>1. paid \in Nat /\ (paid # 0 <=> Available(k))
  BY Rules
<1>2. Refilled(k) \in Int /\ Refilled(k) - 0 = Refilled(k)
  BY Levels
<1>3. Bookkeeping(k, paid, Evicted(k), {})
  BY <1>1, <1>2 DEF Allow, consult, Charges, Bookkeeping, Typed
<1>4. Consulted(k, paid)
  <2> HIDE DEF paid
  <2> QED BY <1>1, <1>3, BookkeepingConsulted
<1> QED BY <1>4 DEF Available

LEMMA PeekConsults ==
  ASSUME Typed, NEW k \in Key, Peek(k)
  PROVE  Consulted(k, 0)
<1> DEFINE dropped == IF Droppable(k) THEN {k} ELSE {}
<1>1. Refilled(k) \in Int /\ Refilled(k) - 0 = Refilled(k)
  BY Levels
<1>2. Bookkeeping(k, 0, Evicted(k), dropped)
  BY <1>1 DEF Peek, consult, Charges, Bookkeeping, Typed, Droppable
<1> QED BY <1>2, BookkeepingConsulted

LEMMA SpendConsults ==
  ASSUME Typed, NEW k \in Key, Spend(k)
  PROVE  Consulted(k, Token(k))
<1>1. Token(k) \in Nat /\ Token(k) # 0
  BY Rules
<1>2. Bookkeeping(k, Token(k), Evicted(k), {})
  BY <1>1 DEF Spend, consult, Charges, Bookkeeping, Typed
<1> QED BY <1>1, <1>2, BookkeepingConsulted

-----------------------------------------------------------------------------
(* Requests.                                                               *)

LEMMA IdleFits == Idle \in Request /\ Fits(Idle) /\ Idle.pc # "login"
BY DEF Idle, Request, Fits

\* A request that goes on, or ends, without a login to pay for.
LEMMA PlainOwing ==
  ASSUME Typed, NEW h \in Handler, NEW q, q.pc # "login", req' = [req EXCEPT ![h] = q], NEW k
  PROVE  Owing(k)' = Owing(k) \ {h}
BY DEF Owing, Typed

LEMMA RequestsKept ==
  ASSUME Typed, \A g \in Handler : Fits(req[g]), NEW h \in Handler, NEW q \in Request, Fits(q),
         req' = [req EXCEPT ![h] = q]
  PROVE  req' \in [Handler -> Request] /\ \A g \in Handler : Fits(req'[g])
BY DEF Typed

\* Going on to another step of the same request.
LEMMA GotoKeeps ==
  ASSUME Typed, NEW h \in Handler, NEW pc \in {"key", "login", "recipient", "cap"}, Goto(h, pc)
  PROVE  \E q \in Request : /\ req' = [req EXCEPT ![h] = q] /\ q.pc = pc
                            /\ q.key = req[h].key /\ q.global = req[h].global
<1> DEFINE q == [req[h] EXCEPT !.pc = pc]
<1>1. q \in Request /\ q.pc = pc /\ q.key = req[h].key /\ q.global = req[h].global
  BY DEF Typed, Request
<1>2. req' = [req EXCEPT ![h] = q]
  BY DEF Goto, Typed
<1> HIDE DEF q
<1> QED BY <1>1, <1>2

-----------------------------------------------------------------------------
(* The debt.                                                               *)

\* What the bucket of k holds is worth its debt, or at least nothing.
Worth(k, level, owing) ==
  IF k \in LoginKey
  THEN level - owing * Token(k) >= (1 - Cardinality(Handler)) * Token(k)
  ELSE level >= 0

\* A full bucket can stand any debt; a fuller one or a smaller debt is no worse;
\* paying what is owed leaves a bucket as good as before.
LEMMA WorthFull ==
  ASSUME NEW k \in Key, NEW owing \in Nat, owing <= Cardinality(Handler)
  PROVE  Worth(k, Full(k), owing)
<1> DEFINE n == Cardinality(Handler)
<1>1. n \in Nat /\ Token(k) \in Nat /\ Full(k) \in Nat /\ Full(k) >= Token(k)
  BY Handlers, Rules
<1>2. owing * Token(k) <= n * Token(k)
  BY <1>1
<1>3. (1 - n) * Token(k) = Token(k) - n * Token(k)
  BY <1>1
<1> QED BY <1>1, <1>2, <1>3 DEF Worth

LEMMA WorthKept ==
  ASSUME NEW k \in Key, NEW level \in Int, NEW owing \in Nat, Worth(k, level, owing),
         NEW more \in Int, more >= level, NEW fewer \in Nat, fewer <= owing
  PROVE  Worth(k, more, fewer)
<1>1. Token(k) \in Nat /\ Cardinality(Handler) \in Nat
  BY Handlers, Rules
<1>2. fewer * Token(k) <= owing * Token(k)
  BY <1>1
<1> QED BY <1>1, <1>2 DEF Worth

LEMMA WorthPaid ==
  ASSUME NEW k \in LoginKey, NEW level \in Int, NEW owing \in Nat, owing >= 1,
         Worth(k, level, owing)
  PROVE  Worth(k, level - Token(k), owing - 1)
<1>1. Token(k) \in Nat /\ Cardinality(Handler) \in Nat
  BY Handlers, Rules, RateLimiterAssumption
<1>2. (owing - 1) * Token(k) = owing * Token(k) - Token(k)
  BY <1>1
<1> QED BY <1>1, <1>2 DEF Worth

\* A login let through on a token owes no more than that.
LEMMA WorthOwed ==
  ASSUME NEW k \in Key, NEW level \in Int, level >= Token(k),
         NEW owing \in Nat, owing <= Cardinality(Handler)
  PROVE  Worth(k, level, owing)
<1> DEFINE n == Cardinality(Handler)
<1>1. n \in Nat /\ Token(k) \in Nat
  BY Handlers, Rules
<1>2. owing * Token(k) <= n * Token(k)
  BY <1>1
<1>3. (1 - n) * Token(k) = Token(k) - n * Token(k)
  BY <1>1
<1> QED BY <1>1, <1>2, <1>3 DEF Worth

LEMMA SolventForm ==
  Solvent <=> \A k \in Key : Worth(k, Refilled(k), Cardinality(Owing(k)))
BY DEF Solvent, Worth

LEMMA SolventFormNext ==
  Solvent' <=> \A k \in Key : Worth(k, Refilled(k)', Cardinality(Owing(k)'))
BY DEF Solvent, Worth, Token

\* The sizes of the debts after a step.
LEMMA OwersNext ==
  ASSUME NEW k
  PROVE  /\ IsFiniteSet(Owing(k)') /\ Cardinality(Owing(k)') \in Nat
         /\ Cardinality(Owing(k)') <= Cardinality(Handler)
<1>1. Owing(k)' \subseteq Handler
  BY DEF Owing
<1> QED BY <1>1, RateLimiterAssumption, FS_Subset, FS_CardinalityType

\* Fewer owe.
LEMMA FewerOwe ==
  ASSUME NEW k, Owing(k)' \subseteq Owing(k)
  PROVE  Cardinality(Owing(k)') <= Cardinality(Owing(k))
BY Owers, FS_Subset

\* A consultation that pays nothing, or a token by one that was let through on
\* credit, or a token that was there.
LEMMA ConsultedSolvent ==
  ASSUME Typed, Solvent, NEW k \in Key, NEW paid \in {0, Token(k)}, Consulted(k, paid),
         \A j \in Key : Owing(j)' \subseteq Owing(j),
         paid # 0 => IF k \in LoginKey THEN Cardinality(Owing(k)') <= Cardinality(Owing(k)) - 1
                     ELSE Refilled(k) >= Token(k)
  PROVE  Solvent'
<1>1. ASSUME NEW j \in Key PROVE Worth(j, Refilled(j)', Cardinality(Owing(j)'))
  <2>1. /\ Worth(j, Refilled(j), Cardinality(Owing(j)))
        /\ Refilled(j) \in Int /\ Token(k) \in Nat
        /\ Cardinality(Owing(j)) \in Nat /\ Cardinality(Owing(j)') \in Nat
        /\ Cardinality(Owing(j)') <= Cardinality(Owing(j))
    BY SolventForm, Levels, Owers, OwersNext, FewerOwe, Rules
  <2>2. CASE Refilled(j)' = Full(j)
    BY <2>2, OwersNext, WorthFull
  <2>3. CASE Refilled(j)' = Refilled(j) - Taken(j, k, paid)
    <3>1. CASE Taken(j, k, paid) = 0
      <4>1. Refilled(j)' = Refilled(j)
        BY <2>1, <2>3, <3>1
      <4> QED BY <2>1, <4>1, WorthKept
    <3>2. CASE Taken(j, k, paid) # 0 /\ k \in LoginKey
      <4>1. j = k /\ paid = Token(k) /\ Refilled(j)' = Refilled(k) - Token(k)
        BY <2>3, <3>2 DEF Taken
      <4>2. Cardinality(Owing(k)') <= Cardinality(Owing(k)) - 1 /\ paid # 0
        BY <3>2, <4>1 DEF Taken
      <4>3. Cardinality(Owing(k)) >= 1 /\ Cardinality(Owing(k)) - 1 \in Nat
        BY <2>1, <4>1, <4>2
      <4>4. Worth(k, Refilled(k) - Token(k), Cardinality(Owing(k)) - 1)
        BY <2>1, <3>2, <4>1, <4>3, WorthPaid
      <4> QED BY <2>1, <4>1, <4>2, <4>3, <4>4, WorthKept
    <3>3. CASE Taken(j, k, paid) # 0 /\ k \notin LoginKey
      <4>1. j = k /\ Refilled(j)' = Refilled(k) - Token(k) /\ Refilled(k) >= Token(k)
        BY <2>3, <3>3 DEF Taken
      <4> QED BY <2>1, <3>3, <4>1 DEF Worth
    <3> QED BY <3>1, <3>2, <3>3
  <2> QED BY <2>2, <2>3 DEF Consulted
<1> QED BY <1>1, SolventFormNext

\* What is taken from the watched bucket is counted.
LEMMA ConsultedConserved ==
  ASSUME Typed, Conserved, NEW k \in Key, NEW paid \in {0, Token(k)}, Consulted(k, paid)
  PROVE  Conserved'
<1> SUFFICES ASSUME NEW w \in Key, watch'.key = w
             PROVE  /\ watch'.ticks <= Window[w]
                    /\ Refilled(w)' + watch'.charges * Token(w) <= Full(w) + watch'.ticks * Burst[w]
  BY DEF Conserved, Token, Full
<1> DEFINE counted == IF w = k /\ paid # 0 THEN 1 ELSE 0
<1>1. /\ watch.key = w /\ watch'.ticks = watch.ticks /\ watch'.charges = watch.charges + counted
      /\ Refilled(w)' = Refilled(w) - Taken(w, k, paid)
  BY DEF Consulted
<1>2. watch.charges \in Nat /\ watch.ticks \in Nat
  BY DEF Typed, Watches
<1>3. /\ Refilled(w) \in Int /\ Token(w) \in Nat
      /\ watch.charges * Token(w) \in Nat /\ counted \in Nat
      /\ Full(w) \in Nat /\ watch.ticks * Burst[w] \in Nat
  BY <1>2, Levels, Rules
<1>4. /\ watch.ticks <= Window[w]
      /\ Refilled(w) + watch.charges * Token(w) <= Full(w) + watch.ticks * Burst[w]
  BY <1>1 DEF Conserved
<1>5. Taken(w, k, paid) = counted * Token(w)
  BY <1>3 DEF Taken
<1>6. (watch.charges + counted) * Token(w) = watch.charges * Token(w) + counted * Token(w)
  BY <1>2, <1>3
<1>7. Refilled(w)' + watch'.charges * Token(w) = Refilled(w) + watch.charges * Token(w)
  BY <1>1, <1>3, <1>5, <1>6
<1> QED BY <1>1, <1>4, <1>7

-----------------------------------------------------------------------------
(* Every step.                                                             *)

\* A request that ends.
LEMMA FinishKept ==
  ASSUME Typed, \A g \in Handler : Fits(req[g]), NEW h \in Handler, Finish(h)
  PROVE  /\ req' \in [Handler -> Request] /\ \A g \in Handler : Fits(req'[g])
         /\ \A k : Owing(k)' = Owing(k) \ {h}
BY IdleFits, RequestsKept, PlainOwing DEF Finish

\* Consulting the bucket of a key that is no login's, and ending or going on.
LEMMA PlainConsult ==
  ASSUME LimiterInv, NEW h \in Handler, NEW k \in Key \ LoginKey, Allow(k) \/ Peek(k),
         NEW q \in Request, Fits(q), q.pc # "login", req' = [req EXCEPT ![h] = q]
  PROVE  LimiterInv'
<1>1. Typed /\ Solvent /\ Conserved /\ \A g \in Handler : Fits(req[g])
  BY DEF LimiterInv
<1>2. /\ req' \in [Handler -> Request] /\ \A g \in Handler : Fits(req'[g])
      /\ \A j : Owing(j)' \subseteq Owing(j)
  BY <1>1, RequestsKept, PlainOwing
<1>3. PICK paid \in {0, Token(k)} : Consulted(k, paid) /\ (paid # 0 => Refilled(k) >= Token(k))
  <2>1. CASE Allow(k)
    BY <1>1, <2>1, AllowConsults
  <2>2. CASE Peek(k)
    BY <1>1, <2>2, PeekConsults
  <2> QED BY <2>1, <2>2
<1>4. Solvent' /\ Conserved'
  BY <1>1, <1>2, <1>3, ConsultedSolvent, ConsultedConserved
<1> QED BY <1>2, <1>3, <1>4 DEF LimiterInv, Typed, Consulted

\* A login that finds a token, or does not.
LEMMA LoginConsult ==
  ASSUME LimiterInv, NEW h \in Handler, LoginPeeked(h)
  PROVE  LimiterInv'
<1>1. Typed /\ Solvent /\ Conserved /\ \A g \in Handler : Fits(req[g])
  BY DEF LimiterInv
<1>0. PICK k \in LoginKey : k \in Key /\ k = req[h].key
  BY <1>1 DEF LoginPeeked, Fits
<1>2. Consulted(k, 0) /\ req[h].pc = "key" /\ req[h].key = k
  BY <1>0, <1>1, PeekConsults DEF LoginPeeked
<1>3. CASE Finish(h)
  <2>1. Solvent' /\ Conserved'
    BY <1>0, <1>1, <1>2, <1>3, FinishKept, ConsultedSolvent, ConsultedConserved
  <2> QED BY <1>1, <1>2, <1>3, <2>1, FinishKept DEF LimiterInv, Typed, Consulted
<1>4. CASE Available(k) /\ Goto(h, "login")
  <2> DEFINE q == [req[h] EXCEPT !.pc = "login"]
  <2>1. q \in Request /\ Fits(q) /\ q.key = k /\ q.pc = "login"
    BY <1>1, <1>2 DEF Typed, Request, Fits
  <2>2. req' = [req EXCEPT ![h] = q]
    BY <1>1, <1>4 DEF Goto, Typed
  <2> HIDE DEF q
  <2>3. req' \in [Handler -> Request] /\ \A g \in Handler : Fits(req'[g])
    BY <1>1, <2>1, <2>2, RequestsKept
  <2>4. \A j \in Key \ {k} : Owing(j)' \subseteq Owing(j)
    BY <1>1, <2>1, <2>2 DEF Owing, Typed
  <2>5. ASSUME NEW j \in Key PROVE Worth(j, Refilled(j)', Cardinality(Owing(j)'))
    <3>1. /\ Worth(j, Refilled(j), Cardinality(Owing(j)))
          /\ Refilled(j) \in Int /\ Cardinality(Owing(j)) \in Nat
          /\ Cardinality(Owing(j)') \in Nat /\ Cardinality(Owing(j)') <= Cardinality(Handler)
      BY <1>1, SolventForm, Levels, Owers, OwersNext
    <3>2. Refilled(j)' = Refilled(j) \/ Refilled(j)' = Full(j)
      BY <1>2, <3>1 DEF Consulted, Taken
    <3>3. CASE Refilled(j)' = Full(j)
      BY <3>1, <3>3, WorthFull
    <3>4. CASE Refilled(j)' = Refilled(j) /\ j # k
      BY <2>4, <3>1, <3>4, FewerOwe, WorthKept
    <3>5. CASE Refilled(j)' = Refilled(j) /\ j = k
      BY <1>4, <3>1, <3>5, WorthOwed DEF Available
    <3> QED BY <3>2, <3>3, <3>4, <3>5
  <2>6. Solvent'
    BY <2>5, SolventFormNext
  <2>7. Conserved'
    BY <1>0, <1>1, <1>2, ConsultedConserved
  <2> QED BY <1>2, <2>3, <2>6, <2>7 DEF LimiterInv, Typed, Consulted
<1> QED BY <1>3, <1>0, <1>4 DEF LoginPeeked, Onward

\* A login that pays for having failed.
LEMMA FailedConsult ==
  ASSUME LimiterInv, NEW h \in Handler, LoginFailed(h)
  PROVE  LimiterInv'
<1>1. Typed /\ Solvent /\ Conserved /\ \A g \in Handler : Fits(req[g])
  BY DEF LimiterInv
<1>0. PICK k \in LoginKey : k = req[h].key
  BY <1>1 DEF LoginFailed, Fits
<1>2. k \in Key /\ h \in Owing(k)
  BY <1>0, RateLimiterAssumption DEF LoginFailed, Owing
<1>3. Consulted(k, Token(k))
  BY <1>0, <1>1, <1>2, SpendConsults DEF LoginFailed
<1>4. /\ req' \in [Handler -> Request] /\ \A g \in Handler : Fits(req'[g])
      /\ \A j : Owing(j)' = Owing(j) \ {h}
  BY <1>1, FinishKept DEF LoginFailed
<1>5. Cardinality(Owing(k)') <= Cardinality(Owing(k)) - 1
  <2>1. PICK S : S = Owing(k) /\ IsFiniteSet(S) /\ Cardinality(S) \in Nat
    BY Owers
  <2>2. Owing(k)' = S \ {h} /\ h \in S
    BY <1>2, <1>4, <2>1
  <2>3. Cardinality(S \ {h}) = Cardinality(S) - 1
    BY <2>1, <2>2, FS_RemoveElement
  <2> QED BY <2>1, <2>2, <2>3
<1>6. Solvent' /\ Conserved'
  BY <1>1, <1>2, <1>3, <1>4, <1>5, ConsultedSolvent, ConsultedConserved
<1> QED BY <1>3, <1>4, <1>6 DEF LimiterInv, Typed, Consulted

\* Nothing is consulted.
LEMMA IdleBuckets ==
  ASSUME LimiterInv, UNCHANGED <<limiter, watch>>,
         req' \in [Handler -> Request], \A g \in Handler : Fits(req'[g]),
         \A j : Owing(j)' \subseteq Owing(j)
  PROVE  LimiterInv'
<1>1. Typed /\ Solvent /\ Conserved
  BY DEF LimiterInv
<1>2. UNCHANGED <<tokens, age, watch>>
  BY DEF limiter
<1>3. \A j : Refilled(j)' = Refilled(j)
  BY <1>2 DEF Refilled, Full
<1>4. ASSUME NEW j \in Key PROVE Worth(j, Refilled(j)', Cardinality(Owing(j)'))
  <2>1. /\ Worth(j, Refilled(j), Cardinality(Owing(j)))
        /\ Refilled(j) \in Int /\ Cardinality(Owing(j)) \in Nat
        /\ Cardinality(Owing(j)') \in Nat /\ Cardinality(Owing(j)') <= Cardinality(Owing(j))
    BY <1>1, SolventForm, Levels, Owers, OwersNext, FewerOwe
  <2> QED BY <1>3, <2>1, WorthKept
<1>5. Solvent'
  BY <1>4, SolventFormNext
<1>6. Conserved'
  BY <1>1, <1>2, <1>3 DEF Conserved, Token, Full
<1> QED BY <1>1, <1>2, <1>5, <1>6 DEF LimiterInv, Typed

\* Time refills, a tick's worth at most.
LEMMA TickKeeps ==
  ASSUME LimiterInv, Tick
  PROVE  LimiterInv'
<1>1. Typed /\ Solvent /\ Conserved /\ tokens' = tokens /\ req' = req
  BY DEF LimiterInv, Tick
<1>2. age' \in [Key -> Nat] /\ \A k \in Key : age'[k] = age[k] \/ age'[k] = age[k] + 1
  BY <1>1 DEF Tick, Typed
<1>3. ASSUME NEW k \in Key
      PROVE  Refilled(k)' \in Int /\ Refilled(k) <= Refilled(k)' /\ Refilled(k)' <= Refilled(k) + Burst[k]
  <2> DEFINE n == tokens[k] + age[k] * Burst[k]
             m == tokens[k] + age'[k] * Burst[k]
  <2>1. tokens[k] \in Int /\ age[k] \in Nat /\ age'[k] \in Nat /\ Burst[k] \in Nat /\ Full(k) \in Int
    BY <1>1, <1>2, Rules DEF Typed
  <2>2. (age[k] + 1) * Burst[k] = age[k] * Burst[k] + Burst[k]
    BY <2>1
  <2>3. n \in Int /\ m \in Int /\ n <= m /\ m <= n + Burst[k]
    <3>1. CASE age'[k] = age[k]
      BY <2>1, <3>1
    <3>2. CASE age'[k] = age[k] + 1
      BY <2>1, <2>2, <3>2
    <3> QED BY <1>2, <3>1, <3>2
  <2>4. /\ Refilled(k) = IF n <= Full(k) THEN n ELSE Full(k)
        /\ Refilled(k)' = IF m <= Full(k) THEN m ELSE Full(k)
    BY <1>1 DEF Refilled, AtMost, Full
  <2> HIDE DEF n, m
  <2> QED BY <2>1, <2>3, <2>4
<1>4. ASSUME NEW k \in Key PROVE Worth(k, Refilled(k)', Cardinality(Owing(k)'))
  <2>1. Owing(k)' = Owing(k)
    BY <1>1 DEF Owing
  <2>2. Worth(k, Refilled(k), Cardinality(Owing(k))) /\ Refilled(k) \in Int
    BY <1>1, SolventForm, Levels
  <2> QED BY <1>3, <2>1, <2>2, Owers, WorthKept
<1>5. Solvent'
  BY <1>4, SolventFormNext
<1>6. watch' \in Watches
  BY <1>1 DEF Tick, Typed, Watches
<1>7. Conserved'
  <2> SUFFICES ASSUME NEW w \in Key, watch'.key = w
               PROVE  /\ watch'.ticks <= Window[w]
                      /\ Refilled(w)' + watch'.charges * Token(w)
                           <= Full(w) + watch'.ticks * Burst[w]
    BY DEF Conserved, Token, Full
  <2>1. /\ watch.key = w /\ watch.ticks < Window[w]
        /\ watch'.ticks = watch.ticks + 1 /\ watch'.charges = watch.charges
    BY <1>1, RateLimiterAssumption DEF Tick, Typed, Watches
  <2>2. /\ watch.ticks \in Nat /\ watch.charges \in Nat /\ Burst[w] \in Nat /\ Token(w) \in Nat
        /\ Window[w] \in Nat /\ Full(w) \in Nat /\ Refilled(w) \in Int
    BY <1>1, Levels, Rules DEF Typed, Watches
  <2>3. Refilled(w) + watch.charges * Token(w) <= Full(w) + watch.ticks * Burst[w]
    BY <1>1, <2>1 DEF Conserved
  <2>4. (watch.ticks + 1) * Burst[w] = watch.ticks * Burst[w] + Burst[w]
    BY <2>2
  <2>5. watch.charges * Token(w) \in Nat /\ watch.ticks * Burst[w] \in Nat
    BY <2>2
  <2>6. Refilled(w)' \in Int /\ Refilled(w)' <= Refilled(w) + Burst[w]
    BY <1>3
  <2>7. Refilled(w)' + watch.charges * Token(w) <= Full(w) + (watch.ticks + 1) * Burst[w]
    BY <2>2, <2>3, <2>4, <2>5, <2>6
  <2>8. watch'.ticks <= Window[w]
    BY <2>1, <2>2
  <2> QED BY <2>1, <2>7, <2>8
<1> QED BY <1>1, <1>2, <1>5, <1>6, <1>7 DEF LimiterInv, Typed

\* The steps of a request.
LEMMA ConsultKeeps ==
  ASSUME LimiterInv, NEW h \in Handler, Consult(h)
  PROVE  LimiterInv'
<1>1. Typed /\ Solvent /\ Conserved /\ (\A g \in Handler : Fits(req[g])) /\ Fits(req[h])
  BY DEF LimiterInv
<1>2. ASSUME NEW k \in Key \ LoginKey, Allow(k) \/ Peek(k), Finish(h) PROVE LimiterInv'
  BY <1>2, PlainConsult, IdleFits DEF Finish
<1>3. ASSUME NEW k \in Key \ LoginKey, Allow(k) \/ Peek(k), NEW pc \in {"key", "recipient", "cap"},
             Goto(h, pc), pc = "key" => req[h].key \in Key,
             pc = "recipient" => req[h].key \in Key \ LoginKey,
             pc # "key" => req[h].global \in Key \ LoginKey
      PROVE  LimiterInv'
  <2>1. PICK q \in Request : /\ req' = [req EXCEPT ![h] = q] /\ q.pc = pc
                             /\ q.key = req[h].key /\ q.global = req[h].global
    BY <1>1, <1>3, GotoKeeps
  <2>2. Fits(q)
    BY <1>3, <2>1 DEF Fits
  <2> QED BY <1>3, <2>1, <2>2, PlainConsult
<1>4. req[h].pc = "global" => req[h].key \in Key \cup {NoKey}
  BY <1>1 DEF Fits
<1>5. CASE GlobalAllowed(h)
  <2>1. PICK g \in Key \ LoginKey : g = req[h].global /\ Allow(g)
    BY <1>1, <1>5 DEF GlobalAllowed, Fits
  <2>2. Finish(h) \/ (Goto(h, "key") /\ req[h].key \in Key)
    BY <1>4, <1>5 DEF GlobalAllowed, Onward
  <2> QED BY <1>2, <1>3, <2>1, <2>2
<1>6. CASE KeyAllowed(h)
  <2>1. PICK k \in Key \ LoginKey : k = req[h].key /\ Allow(k)
    BY <1>1, <1>6 DEF KeyAllowed, Fits
  <2> QED BY <1>2, <1>6, <2>1 DEF KeyAllowed
<1>7. CASE NotifyPeeked(h)
  <2>1. PICK g \in Key \ LoginKey : g = req[h].global /\ Peek(g)
    BY <1>1, <1>7 DEF NotifyPeeked, Fits
  <2>2. req[h].key \in Key \ LoginKey /\ req[h].global \in Key \ LoginKey
    BY <1>1, <1>7 DEF NotifyPeeked, Fits
  <2>3. Finish(h) \/ Goto(h, "recipient")
    BY <1>7 DEF NotifyPeeked, Onward
  <2> QED BY <1>2, <1>3, <2>1, <2>2, <2>3
<1>8. CASE RecipientAllowed(h)
  <2>1. PICK k \in Key \ LoginKey : k = req[h].key /\ Allow(k)
    BY <1>1, <1>8 DEF RecipientAllowed, Fits
  <2>2. req[h].global \in Key \ LoginKey
    BY <1>1, <1>8 DEF RecipientAllowed, Fits
  <2>3. Finish(h) \/ Goto(h, "cap")
    BY <1>8 DEF RecipientAllowed, Onward
  <2> QED BY <1>2, <1>3, <2>1, <2>2, <2>3
<1>9. CASE CapAllowed(h)
  <2>1. PICK g \in Key \ LoginKey : g = req[h].global /\ Allow(g)
    BY <1>1, <1>9 DEF CapAllowed, Fits
  <2> QED BY <1>2, <1>9, <2>1 DEF CapAllowed
<1>10. CASE LoginAccepted(h)
  <2>1. UNCHANGED <<limiter, watch>> /\ Finish(h)
    BY <1>10 DEF LoginAccepted
  <2> QED BY <1>1, <2>1, FinishKept, IdleBuckets
<1> QED BY <1>5, <1>6, <1>7, <1>8, <1>9, <1>10, LoginConsult, FailedConsult DEF Consult

\* A request begins.
LEMMA BeginKeeps ==
  ASSUME LimiterInv, NEW h \in Handler,
         \/ \E k \in RouteKey \cup LoginKey : RateLimit(h, k)
         \/ \E k \in RecipientKey : Notify(h, k)
  PROVE  LimiterInv'
<1>1. Typed /\ \A g \in Handler : Fits(req[g])
  BY DEF LimiterInv
<1>2. ASSUME NEW q \in Request, Fits(q), q.pc # "login", req' = [req EXCEPT ![h] = q],
             UNCHANGED <<limiter, watch>>
      PROVE  LimiterInv'
  BY <1>1, <1>2, RequestsKept, PlainOwing, IdleBuckets
<1>3. ASSUME NEW k \in RouteKey \cup LoginKey, RateLimit(h, k) PROVE LimiterInv'
  <2>1. PICK key \in {k, NoKey}, g \in Key \cup {NoKey} :
          /\ g = GlobalOf[k] /\ (g # NoKey \/ key # NoKey)
          /\ req' = [req EXCEPT ![h] = [pc |-> IF g = NoKey THEN "key" ELSE "global",
                                        global |-> g, key |-> key]]
          /\ UNCHANGED <<limiter, watch>>
    BY <1>3, RateLimiterAssumption DEF RateLimit
  <2>2. k \in Key /\ g \notin LoginKey
    BY <2>1, RateLimiterAssumption
  <2> DEFINE q == [pc |-> IF g = NoKey THEN "key" ELSE "global", global |-> g, key |-> key]
  <2>3. q \in Request /\ Fits(q) /\ q.pc # "login"
    BY <2>1, <2>2, RateLimiterAssumption DEF Request, Fits
  <2>4. req' = [req EXCEPT ![h] = q]
    BY <2>1
  <2> HIDE DEF q
  <2> QED BY <1>2, <2>1, <2>3, <2>4
<1>4. ASSUME NEW k \in RecipientKey, Notify(h, k) PROVE LimiterInv'
  <2> DEFINE q == [pc |-> "notify", global |-> NotifyGlobal, key |-> k]
  <2>1. k \in Key \ LoginKey /\ NotifyGlobal \in Key \ LoginKey
    BY RateLimiterAssumption
  <2>2. q \in Request /\ Fits(q) /\ q.pc # "login"
    BY <2>1 DEF Request, Fits
  <2>3. req' = [req EXCEPT ![h] = q] /\ UNCHANGED <<limiter, watch>>
    BY <1>4 DEF Notify
  <2> HIDE DEF q
  <2> QED BY <1>2, <2>2, <2>3
<1> QED BY <1>3, <1>4

\* A new process has full buckets and nobody at work.
LEMMA FreshKeeps ==
  ASSUME Fresh, watch = NoWatch
  PROVE  LimiterInv
<1>1. Typed
  <2>1. \A k \in Key : Full(k) \in Int
    BY Rules
  <2> QED BY <2>1, IdleFits DEF Fresh, Typed, Watches, NoWatch
<1>2. \A h \in Handler : Fits(req[h])
  BY IdleFits DEF Fresh
<1>3. ASSUME NEW k \in Key PROVE Worth(k, Refilled(k), Cardinality(Owing(k)))
  <2>1. tokens[k] = Full(k) /\ age[k] = 0
    BY DEF Fresh
  <2>2. Refilled(k) = Full(k)
    BY <2>1, Rules DEF Refilled, AtMost
  <2> QED BY <2>2, Owers, WorthFull
<1>4. Solvent
  BY <1>3, SolventForm
<1>5. Conserved
  BY RateLimiterAssumption DEF Conserved, NoWatch
<1> QED BY <1>1, <1>2, <1>4, <1>5 DEF LimiterInv

LEMMA InitInv == Init => LimiterInv
BY FreshKeeps DEF Init

LEMMA RestartKeeps == Restart => LimiterInv'
<1>1. Restart => (Fresh /\ watch = NoWatch)'
  BY DEF Restart, Fresh, Idle, Full, NoWatch
<1>2. Fresh /\ watch = NoWatch => LimiterInv
  BY FreshKeeps
<1> QED BY <1>1, <1>2, PTL

\* Counting begins with what the bucket holds, full at most.
LEMMA WatchKeeps ==
  ASSUME LimiterInv, NEW k \in Watched, StartWatch(k)
  PROVE  LimiterInv'
<1>1. Typed /\ Solvent /\ UNCHANGED <<tokens, age, req>> /\ k \in Key
  BY RateLimiterAssumption DEF LimiterInv, StartWatch, limiter
<1>2. watch' = [key |-> k, ticks |-> 0, charges |-> 0]
  BY DEF StartWatch, NoWatch
<1>3. watch' \in Watches
  BY <1>1, <1>2 DEF Watches
<1>4. \A j : Refilled(j)' = Refilled(j)
  BY <1>1 DEF Refilled, Full
<1>5. Solvent'
  BY <1>1, <1>4 DEF Solvent, Owing, Token
<1>6. Conserved'
  <2> SUFFICES ASSUME NEW w \in Key, watch'.key = w
               PROVE  /\ watch'.ticks <= Window[w]
                      /\ Refilled(w)' + watch'.charges * Token(w)
                           <= Full(w) + watch'.ticks * Burst[w]
    BY DEF Conserved, Token, Full
  <2>1. watch'.ticks = 0 /\ watch'.charges = 0 /\ 0 * Token(w) = 0 /\ 0 * Burst[w] = 0
    BY <1>2, Rules
  <2> QED BY <1>1, <1>4, <2>1, Levels, Rules
<1> QED BY <1>1, <1>3, <1>5, <1>6 DEF LimiterInv, Typed

LEMMA NextInv == LimiterInv /\ [Next]_vars => LimiterInv'
<1> SUFFICES ASSUME LimiterInv, [Next]_vars PROVE LimiterInv'
  OBVIOUS
<1>1. CASE UNCHANGED vars
  <2>1. UNCHANGED <<limiter, watch>> /\ req' = req
    BY <1>1 DEF vars, limiter
  <2>2. \A j : Owing(j)' \subseteq Owing(j)
    BY <2>1 DEF Owing
  <2> QED BY <2>1, <2>2, IdleBuckets DEF LimiterInv, Typed
<1>2. CASE Next
  BY <1>2, BeginKeeps, ConsultKeeps, WatchKeeps, TickKeeps, RestartKeeps DEF Next
<1> QED BY <1>1, <1>2

\* Every reachable state satisfies the invariant.
THEOREM Invariance == Spec => []LimiterInv
BY InitInv, NextInv, PTL DEF Spec

\* Checking a login's bucket and paying for its failure are two steps (Peek and
\* Spend): the debt never exceeds the others let through with the first.
THEOREM DebtIsBounded == Spec => []DebtBounded
<1>1. LimiterInv => DebtBounded
  <2> SUFFICES ASSUME LimiterInv, NEW k \in Key
               PROVE  Refilled(k) - Cardinality(Owing(k)) * Token(k)
                        >= (1 - Cardinality(Handler)) * Token(k)
    BY DEF DebtBounded
  <2>1. CASE k \in LoginKey
    BY <2>1 DEF LimiterInv, Solvent
  <2>2. CASE k \notin LoginKey
    <3>1. Owing(k) = {} /\ Refilled(k) >= 0 /\ Refilled(k) \in Int
      BY <2>2, Levels DEF LimiterInv, Solvent, Fits, Owing
    <3>2. Cardinality(Owing(k)) = 0 /\ Token(k) \in Nat
      BY <3>1, FS_EmptySet, Rules
    <3>3. (1 - Cardinality(Handler)) * Token(k) <= 0
      <4>1. PICK n \in Nat : n = Cardinality(Handler) /\ n >= 1
        BY Handlers
      <4>2. PICK t \in Nat : t = Token(k)
        BY <3>2
      <4>3. (1 - n) * t <= 0
        <5>1. (n - 1) * t \in Nat /\ (1 - n) * t = 0 - (n - 1) * t
          BY <4>1
        <5> QED BY <5>1
      <4> QED BY <4>1, <4>2, <4>3
    <3>4. Cardinality(Owing(k)) * Token(k) = 0
      BY <3>2
    <3>5. (1 - Cardinality(Handler)) * Token(k) \in Int
      BY <3>2, Handlers
    <3> QED BY <3>1, <3>3, <3>4, <3>5
  <2> QED BY <2>1, <2>2
<1> QED BY <1>1, Invariance, PTL

\* "A bucket of Burst B refilling over 24 hours can let through at most 2B in any
\* 24 hours" (policy.go), and a login's as many more as were let through at once.
THEOREM AtMostTwice == Spec => []TwiceTheBurst
<1>1. LimiterInv => TwiceTheBurst
  <2> SUFFICES ASSUME LimiterInv, watch.key # NoKey
               PROVE  watch.charges <= 2 * Burst[watch.key]
                        + IF watch.key \in LoginKey THEN Cardinality(Handler) - 1 ELSE 0
    BY DEF TwiceTheBurst
  <2>1. PICK w \in Key : w = watch.key
    BY DEF LimiterInv, Typed, Watches
  <2> DEFINE t == Token(w)
             b == Burst[w]
             n == Cardinality(Handler)
             more == IF w \in LoginKey THEN n - 1 ELSE 0
             c == watch.charges
  <2>2. /\ t \in Nat /\ t >= 1 /\ b \in Nat /\ n \in Nat /\ n >= 1 /\ c \in Nat
        /\ watch.ticks \in Nat /\ Refilled(w) \in Int /\ more \in Nat
    BY Rules, Handlers, Levels DEF LimiterInv, Typed, Watches
  <2>3. watch.ticks <= t /\ Refilled(w) + c * t <= b * t + watch.ticks * b
    BY <2>1, Rules DEF LimiterInv, Conserved
  <2>4. Refilled(w) >= 0 - more * t
    <3>1. CASE w \in LoginKey
      <4>1. /\ Refilled(w) - Cardinality(Owing(w)) * t >= (1 - n) * t
            /\ Cardinality(Owing(w)) \in Nat
        BY <3>1, Owers DEF LimiterInv, Solvent
      <4>2. Cardinality(Owing(w)) * t >= 0 /\ (1 - n) * t = 0 - (n - 1) * t
        BY <2>2, <4>1
      <4> QED BY <2>2, <3>1, <4>1, <4>2
    <3>2. CASE w \notin LoginKey
      BY <2>2, <3>2 DEF LimiterInv, Solvent
    <3> QED BY <3>1, <3>2
  <2> HIDE DEF t, b, n, more, c
  <2>5. watch.ticks * b <= t * b
    BY <2>2, <2>3
  <2>6. c * t <= (2 * b + more) * t
    <3>1. (2 * b + more) * t = b * t + t * b + more * t
      BY <2>2
    <3>2. /\ c * t \in Int /\ b * t \in Int /\ t * b \in Int /\ more * t \in Int
          /\ watch.ticks * b \in Int
      BY <2>2
    <3> QED BY <2>2, <2>3, <2>4, <2>5, <3>1, <3>2
  <2>7. c <= 2 * b + more
    BY <2>2, <2>6
  <2> QED BY <2>1, <2>7 DEF b, n, more, c
<1> QED BY <1>1, Invariance, PTL

===============================================================================
