------------------------- MODULE PaperSelectionProof -------------------------
(***************************************************************************)
(* Proofs about the operators of PaperSelection: for every rule a pattern  *)
(* may hold, whatever its weights, every bank and every choice among its   *)
(* questions.                                                              *)
(***************************************************************************)
EXTENDS PaperSelection, FiniteMaximum

-----------------------------------------------------------------------------
(* Numbers and finite sets.                                                *)

\* The lesser of two, and the greater of two.
Lesser(a, b) == IF a <= b THEN a ELSE b

LEMMA MinOfTwo ==
  ASSUME NEW a \in Nat, NEW b \in Nat
  PROVE  Min({a, b}) = Lesser(a, b)
BY DEF Min, Lesser

LEMMA MaxWithZero ==
  ASSUME NEW a \in Int
  PROVE  Max({0, a}) = IF a > 0 THEN a ELSE 0
BY DEF Max

\* Disjoint sets, and what is taken from a set.
LEMMA DisjointCount ==
  ASSUME NEW S, IsFiniteSet(S), NEW T, IsFiniteSet(T), S \cap T = {}
  PROVE  IsFiniteSet(S \cup T) /\ Cardinality(S \cup T) = Cardinality(S) + Cardinality(T)
<1>1. Cardinality(S) \in Nat /\ Cardinality(T) \in Nat
  BY FS_CardinalityType
<1> QED
  BY <1>1, FS_Union, FS_EmptySet

LEMMA RestCount ==
  ASSUME NEW S, IsFiniteSet(S), NEW T \in SUBSET S
  PROVE  /\ IsFiniteSet(T) /\ IsFiniteSet(S \ T)
         /\ Cardinality(S) \in Nat /\ Cardinality(T) \in Nat /\ Cardinality(S \ T) \in Nat
         /\ Cardinality(T) <= Cardinality(S)
         /\ Cardinality(S \ T) = Cardinality(S) - Cardinality(T)
<1>1. IsFiniteSet(T) /\ Cardinality(T) <= Cardinality(S)
  BY FS_Subset
<1>2. S \cap T = T
  OBVIOUS
<1>3. IsFiniteSet(S \ T) /\ Cardinality(S \ T) = Cardinality(S) - Cardinality(T)
  BY <1>2, FS_Difference
<1> QED
  BY <1>1, <1>3, FS_CardinalityType

LEMMA SubsetsOfSize ==
  ASSUME NEW S, IsFiniteSet(S), NEW k, NEW T \in kSubset(k, S)
  PROVE  T \subseteq S /\ IsFiniteSet(T) /\ Cardinality(T) = k
BY FS_Subset DEF kSubset

\* SetToSeq numbers the members of a finite set: each has a position of its own.
LEMMA SetToSeqCounts ==
  ASSUME NEW S, IsFiniteSet(S)
  PROVE  /\ SetToSeq(S) \in [1..Cardinality(S) -> S]
         /\ \A x \in S : \E n \in 1..Cardinality(S) : SetToSeq(S)[n] = x
<1> DEFINE D == 1..Cardinality(S)
           seq == SetToSeq(S)
<1>1. Cardinality(S) \in Nat /\ ExistsBijection(D, S)
  BY FS_CardinalityType
<1>2. \E f \in [D -> S] : IsInjective(f)
  BY <1>1 DEF ExistsBijection, Bijection, Injection
<1>3. seq \in [D -> S] /\ IsInjective(seq)
  BY <1>2 DEF SetToSeq
<1>4. seq \in Injection(D, S)
  BY <1>3 DEF Injection
<1>5. Cardinality(D) = Cardinality(S)
  BY <1>1, FS_Interval
<1>6. seq \in Surjection(D, S)
  BY <1>4, <1>5, FS_Injection
<1> QED
  BY <1>3, <1>6 DEF Surjection
-----------------------------------------------------------------------------
(* One bucket, all buckets, and what is left of the slots.                 *)

OfLevelIn(qs, level, d) == {q \in qs : level[q] = d}

FirstIsShort(short, pool, level, a) ==
  \E d \in short : d \in Levels /\ (\A e \in short : d <= e) /\ Cardinality(OfLevelIn(pool, level, d)) < a[d]

\* The state of a selection once n slots have been asked for and the buckets in done filled:
\* it has picked as many questions as there are for these slots; while nothing is short, each
\* bucket has its questions and no other level has any; and once something is, the pool had
\* too few questions of the first level reported, which it found untouched.
Selection(state, pool, level, a, done, n) ==
  /\ state = [pool |-> state.pool, picked |-> state.picked, short |-> state.short]
  /\ state.picked \subseteq pool /\ state.pool = pool \ state.picked
  /\ state.short \subseteq done
  /\ Cardinality(state.picked) = Lesser(n, Cardinality(pool))
  /\ state.short = {} =>
       \A d \in Levels : Cardinality(OfLevelIn(state.picked, level, d)) = IF d \in done THEN a[d] ELSE 0
  /\ state.short # {} => FirstIsShort(state.short, pool, level, a)

LEMMA FillBucketCounts ==
  ASSUME NEW pool, IsFiniteSet(pool), NEW level, NEW a, NEW done \in SUBSET Levels, NEW n \in Nat,
         NEW state, Selection(state, pool, level, a, done, n),
         NEW d \in Levels \ done, \A e \in done : e < d, a[d] \in Nat,
         NEW next \in FillBucket(state, level, d, a[d])
  PROVE  Selection(next, pool, level, a, done \cup {d}, n + a[d])
<1> DEFINE limit == a[d]
           own == {q \in state.pool : level[q] = d}
           k == Min({limit, Cardinality(own)})
<1> DEFINE Others(mine) == kSubset(Min({limit - k, Cardinality(state.pool \ mine)}), state.pool \ mine)
<1>0. PICK mine \in kSubset(k, own) : \E other \in Others(mine) :
        next = [pool |-> state.pool \ (mine \cup other), picked |-> state.picked \cup mine \cup other,
                short |-> IF k < limit THEN state.short \cup {d} ELSE state.short]
  BY DEF FillBucket
<1>1. PICK other \in Others(mine) :
        next = [pool |-> state.pool \ (mine \cup other), picked |-> state.picked \cup mine \cup other,
                short |-> IF k < limit THEN state.short \cup {d} ELSE state.short]
  BY <1>0
<1>2. /\ IsFiniteSet(state.picked) /\ IsFiniteSet(state.pool)
      /\ Cardinality(pool) \in Nat /\ Cardinality(state.picked) \in Nat /\ Cardinality(state.pool) \in Nat
      /\ Cardinality(state.pool) = Cardinality(pool) - Cardinality(state.picked)
  BY RestCount DEF Selection
<1>3. IsFiniteSet(own) /\ Cardinality(own) \in Nat /\ Cardinality(own) <= Cardinality(state.pool)
  BY <1>2, RestCount
<1>4. k \in Nat /\ k = Lesser(limit, Cardinality(own))
  BY <1>3, MinOfTwo DEF Lesser
<1>5. mine \subseteq own /\ mine \subseteq state.pool /\ IsFiniteSet(mine) /\ Cardinality(mine) = k
  BY <1>1, <1>3, SubsetsOfSize
<1>a. next = [pool |-> next.pool, picked |-> next.picked, short |-> next.short]
  BY <1>1
<1> HIDE DEF own, k, limit, Others
<1>6. /\ IsFiniteSet(state.pool \ mine) /\ Cardinality(state.pool \ mine) \in Nat
      /\ Cardinality(state.pool \ mine) = Cardinality(state.pool) - k
  <2>1. mine \in SUBSET state.pool
    BY <1>5
  <2> QED
    BY <2>1, <1>2, <1>5, RestCount
<1>7. limit - k \in Nat
  BY <1>3, <1>4 DEF Lesser
<1>8. /\ other \subseteq state.pool \ mine /\ IsFiniteSet(other)
      /\ Cardinality(other) = Lesser(limit - k, Cardinality(state.pool) - k)
  <2>1. other \in kSubset(Lesser(limit - k, Cardinality(state.pool) - k), state.pool \ mine)
    <3>1. Min({limit - k, Cardinality(state.pool \ mine)}) = Lesser(limit - k, Cardinality(state.pool) - k)
      BY <1>6, <1>7, MinOfTwo
    <3> QED
      BY <1>1, <3>1 DEF Others
  <2> QED
    BY <2>1, <1>6, SubsetsOfSize
<1>9. /\ next.picked = (state.picked \cup mine) \cup other
      /\ next.pool = state.pool \ (mine \cup other)
      /\ next.short = IF k < limit THEN state.short \cup {d} ELSE state.short
  BY <1>1
<1>10. state.picked \cap mine = {} /\ (state.picked \cup mine) \cap other = {}
  BY <1>5, <1>8 DEF Selection
<1>11. Cardinality(next.picked) = Cardinality(state.picked) + k + Cardinality(other)
  <2>1. /\ IsFiniteSet(state.picked \cup mine)
        /\ Cardinality(state.picked \cup mine) = Cardinality(state.picked) + k
    BY <1>2, <1>5, <1>10, DisjointCount
  <2> QED
    BY <2>1, <1>8, <1>9, <1>10, DisjointCount
<1>12. Cardinality(next.picked) = Lesser(n + limit, Cardinality(pool))
  <2>1. Cardinality(state.picked) = Lesser(n, Cardinality(pool)) /\ limit \in Nat
    BY DEF Selection, limit
  <2> QED
    BY <2>1, <1>2, <1>3, <1>4, <1>7, <1>8, <1>11 DEF Lesser
<1>13. /\ next.picked \subseteq pool /\ next.pool = pool \ next.picked
       /\ next.short \subseteq done \cup {d}
  BY <1>5, <1>8, <1>9 DEF Selection
<1>14. ASSUME next.short = {}, NEW e \in Levels
       PROVE  Cardinality(OfLevelIn(next.picked, level, e)) = IF e \in done \cup {d} THEN a[e] ELSE 0
  <2>1. state.short = {} /\ k = limit
    BY <1>3, <1>4, <1>9, <1>14 DEF Lesser, limit
  <2>2. other = {}
    <3>1. Cardinality(other) = 0
      <4>1. limit - k = 0
        <5>1. k \in Nat /\ limit = k
          BY <2>1, <1>4
        <5> QED
          BY <5>1
      <4>2. Cardinality(state.pool) - k \in Nat
        BY <1>6
      <4>3. Cardinality(other) = Lesser(0, Cardinality(state.pool) - k)
        BY <4>1, <1>8
      <4> QED
        BY <4>2, <4>3 DEF Lesser
    <3> QED
      BY <3>1, <1>8, FS_EmptySet
  <2>3. CASE e = d
    <3>1. OfLevelIn(state.picked, level, d) = {}
      <4>1. Cardinality(OfLevelIn(state.picked, level, d)) = 0
        BY <2>1 DEF Selection
      <4>2. IsFiniteSet(OfLevelIn(state.picked, level, d))
        BY <1>2, RestCount DEF OfLevelIn
      <4> QED
        BY <4>1, <4>2, FS_EmptySet
    <3>2. OfLevelIn(next.picked, level, d) = mine
      BY <3>1, <2>2, <1>5, <1>9 DEF OfLevelIn, own
    <3> QED
      BY <2>1, <2>3, <3>2, <1>5 DEF limit
  <2>4. CASE e # d
    <3>1. OfLevelIn(next.picked, level, e) = OfLevelIn(state.picked, level, e)
      BY <2>2, <2>4, <1>5, <1>9 DEF OfLevelIn, own
    <3> QED
      BY <2>1, <2>4, <3>1 DEF Selection
  <2> QED
    BY <2>3, <2>4
<1>15. ASSUME next.short # {}
       PROVE  FirstIsShort(next.short, pool, level, a)
  <2>1. CASE state.short # {}
    <3>1. PICK e \in state.short : /\ e \in Levels /\ \A f \in state.short : e <= f
                                   /\ Cardinality(OfLevelIn(pool, level, e)) < a[e]
      BY <2>1 DEF Selection, FirstIsShort
    <3>2. e <= d /\ d \in Int
      BY <3>1 DEF Selection, Levels
    <3>3. e \in next.short /\ \A f \in next.short : e <= f
      BY <1>9, <3>1, <3>2
    <3> QED
      BY <3>1, <3>3 DEF FirstIsShort
  <2>2. CASE state.short = {}
    <3>1. next.short = {d} /\ k < limit /\ k = Cardinality(own)
      BY <2>2, <1>3, <1>4, <1>9, <1>15 DEF Lesser, limit
    <3>2. OfLevelIn(state.picked, level, d) = {}
      <4>1. Cardinality(OfLevelIn(state.picked, level, d)) = 0
        BY <2>2 DEF Selection
      <4>2. IsFiniteSet(OfLevelIn(state.picked, level, d))
        BY <1>2, RestCount DEF OfLevelIn
      <4> QED
        BY <4>1, <4>2, FS_EmptySet
    <3>3. own = OfLevelIn(pool, level, d)
      BY <3>2 DEF Selection, OfLevelIn, own
    <3>4. d <= d
      BY DEF Levels
    <3> QED
      BY <3>1, <3>3, <3>4 DEF limit, FirstIsShort
  <2> QED
    BY <2>1, <2>2
<1> QED
  BY <1>a, <1>12, <1>13, <1>14, <1>15 DEF Selection, limit

-----------------------------------------------------------------------------
(* The largest remainders.                                                 *)

\* The cardinality of a set of levels counts its members.
LEMMA LevelsCount ==
  ASSUME NEW up \in SUBSET Levels
  PROVE  Cardinality(up) = Sum3([d \in Levels |-> IF d \in up THEN 1 ELSE 0])
<1>1. IsFiniteSet({}) /\ Cardinality({}) = 0
  BY FS_EmptySet
<1>2. ASSUME NEW S, IsFiniteSet(S), NEW x, x \notin S
      PROVE  IsFiniteSet(S \cup {x}) /\ Cardinality(S \cup {x}) = Cardinality(S) + 1
  BY <1>2, FS_AddElement
<1>0. Levels = {1, 2, 3}
  BY DEF Levels
<1> DEFINE a == up \cap {1}
           b == up \cap {1, 2}
<1>3. IsFiniteSet(a) /\ Cardinality(a) = IF 1 \in up THEN 1 ELSE 0
  <2>1. CASE 1 \in up
    <3>1. a = {} \cup {1}
      BY <2>1
    <3> QED
      BY <1>1, <1>2, <2>1, <3>1
  <2>2. CASE 1 \notin up
    <3>1. a = {}
      BY <2>2
    <3> QED
      BY <1>1, <2>2, <3>1
  <2> QED
    BY <2>1, <2>2
<1>4. IsFiniteSet(b) /\ Cardinality(b) = Cardinality(a) + IF 2 \in up THEN 1 ELSE 0
  <2>1. CASE 2 \in up
    <3>1. b = a \cup {2} /\ 2 \notin a
      BY <2>1
    <3> QED
      BY <1>2, <1>3, <2>1, <3>1
  <2>2. CASE 2 \notin up
    <3>1. b = a
      BY <2>2
    <3> QED
      BY <1>3, <2>2, <3>1
  <2> QED
    BY <2>1, <2>2
<1>5. Cardinality(up) = Cardinality(b) + IF 3 \in up THEN 1 ELSE 0
  <2>1. CASE 3 \in up
    <3>1. \A x \in up : x = 1 \/ x = 2 \/ x = 3
      BY <1>0
    <3>2. up = b \cup {3}
      BY <2>1, <3>1
    <3>3. 3 \notin b
      OBVIOUS
    <3> QED
      BY <1>2, <1>4, <2>1, <3>2, <3>3
  <2>2. CASE 3 \notin up
    <3>1. up = b
      BY <1>0, <2>2
    <3> QED
      BY <1>3, <1>4, <2>2, <3>1
  <2> QED
    BY <2>1, <2>2
<1> QED
  BY <1>3, <1>4, <1>5 DEF Sum3, Levels

LEMMA Product ==
  ASSUME NEW k \in Nat, NEW x \in Nat, NEW y \in Nat, NEW z \in Nat
  PROVE  k * x \in Nat /\ k * x + k * y + k * z = k * (x + y + z)
OBVIOUS

LEMMA Division ==
  ASSUME NEW n \in Nat, NEW t \in Nat \ {0}
  PROVE  n \div t \in Nat /\ n % t \in 0..(t - 1) /\ n = t * (n \div t) + (n % t)
OBVIOUS

\* Largest remainders in numbers: c is split among three levels in proportion to weights that
\* add up to t.  Of c times its weight, n, each level gets the whole part, w, and perhaps a
\* slot, x, of what the fractions f add up to; a slot passes by no larger a fraction.
Split(t, c, n1, n2, n3, w1, w2, w3, f1, f2, f3, x1, x2, x3) ==
  /\ t \in Nat \ {0}
  /\ c \in Nat /\ n1 \in Nat /\ n2 \in Nat /\ n3 \in Nat /\ w1 \in Nat /\ w2 \in Nat /\ w3 \in Nat
  /\ f1 \in 0..(t - 1) /\ f2 \in 0..(t - 1) /\ f3 \in 0..(t - 1) /\ x1 \in {0, 1} /\ x2 \in {0, 1} /\ x3 \in {0, 1}
  /\ n1 + n2 + n3 = t * c
  /\ n1 = t * w1 + f1 /\ n2 = t * w2 + f2 /\ n3 = t * w3 + f3
  /\ x1 + x2 + x3 = c - (w1 + w2 + w3)
  /\ x1 = 1 => (x2 = 1 \/ f1 >= f2) /\ (x3 = 1 \/ f1 >= f3)
  /\ x2 = 1 => (x1 = 1 \/ f2 >= f1) /\ (x3 = 1 \/ f2 >= f3)
  /\ x3 = 1 => (x1 = 1 \/ f3 >= f1) /\ (x2 = 1 \/ f3 >= f2)

\* The slots are fewer than the levels with a fraction, so that no slot goes to one without.
LEMMA SlotsNeedFractions ==
  ASSUME NEW t, NEW c, NEW n1, NEW n2, NEW n3, NEW w1, NEW w2, NEW w3, NEW f1, NEW f2, NEW f3,
         NEW x1, NEW x2, NEW x3, Split(t, c, n1, n2, n3, w1, w2, w3, f1, f2, f3, x1, x2, x3)
  PROVE  /\ (w1 + x1) + (w2 + x2) + (w3 + x3) = c
         /\ x1 = 1 => f1 > 0
         /\ x2 = 1 => f2 > 0
         /\ x3 = 1 => f3 > 0
<1> DEFINE w == w1 + w2 + w3
           x == x1 + x2 + x3
<1>1. t \in Nat /\ c \in Nat /\ w \in Nat /\ x \in Nat /\ c = w + x
  BY DEF Split
<1>2. t * w1 + t * w2 + t * w3 = t * w
  BY Product DEF Split
<1>3. t * c = t * w + t * x
  <2>1. \A i, j, k \in Nat : i * (j + k) = i * j + i * k
    OBVIOUS
  <2> QED
    BY <1>1, <2>1
<1>4. f1 + f2 + f3 = t * x
  <2>1. t * w \in Nat /\ t * x \in Nat /\ t * w1 \in Nat /\ t * w2 \in Nat /\ t * w3 \in Nat
    BY <1>1, Product DEF Split
  <2> HIDE DEF w, x
  <2>2. (t * w1 + f1) + (t * w2 + f2) + (t * w3 + f3) = t * w + t * x
    BY <1>3 DEF Split
  <2> QED
    BY <2>1, <2>2, <1>2 DEF Split
<1>5. t * 0 = 0 /\ t * 1 = t /\ t * 2 = t + t /\ t * 3 = t + t + t
  BY <1>1
<1>6. x1 + x2 + x3 = c - w /\ (w1 + x1) + (w2 + x2) + (w3 + x3) = c
  BY DEF Split
<1>7. f1 + f2 + f3 = IF x = 0 THEN 0 ELSE IF x = 1 THEN t ELSE IF x = 2 THEN t + t ELSE t + t + t
  <2>1. x \in {0, 1, 2, 3}
    BY DEF Split
  <2> HIDE DEF x
  <2> QED
    BY <2>1, <1>4, <1>5
<1>8. /\ x1 = 1 => f1 > 0
      /\ x2 = 1 => f2 > 0
      /\ x3 = 1 => f3 > 0
  <2> DEFINE fx == IF x = 0 THEN 0 ELSE IF x = 1 THEN t ELSE IF x = 2 THEN t + t ELSE t + t + t
  <2>1. CASE x1 = 0
    BY <2>1, <1>7 DEF Split
  <2>2. CASE x1 = 1
    BY <2>2, <1>7 DEF Split
  <2> QED
    BY <2>1, <2>2 DEF Split
<1> QED
  BY <1>6, <1>8

LEMMA WeightsAreNumbers ==
  ASSUME NEW rule, IsRule(rule)
  PROVE  /\ rule.count \in Nat
         /\ \A d \in Levels : Weights(rule)[d] \in Nat
         /\ TotalWeight(rule) \in Nat
         /\ TotalWeight(rule) = Weights(rule)[1] + Weights(rule)[2] + Weights(rule)[3]
<1>1. \A d \in Levels : Weights(rule)[d] \in Nat
  <2>1. CASE rule.weights = Null
    BY <2>1 DEF Weights, Levels
  <2>2. CASE rule.weights # Null
    <3>1. rule.weights \in [Levels -> 0..100]
      BY <2>2 DEF IsRule
    <3> QED
      BY <2>2, <3>1 DEF Weights
  <2> QED
    BY <2>1, <2>2
<1>2. TotalWeight(rule) = Weights(rule)[1] + Weights(rule)[2] + Weights(rule)[3]
  BY DEF TotalWeight, Sum3
<1>3. rule.count \in Nat
  BY DEF IsRule
<1> QED
  BY <1>1, <1>2, <1>3 DEF Levels

\* Whatever the count of a rule, and whatever its weights as long as they are not all zero,
\* the largest remainders make a fair share of it: whole numbers that add up to the count,
\* each less than one question away from its proportion of the weights (pickForSection).
THEOREM AllocationsAreFair ==
  ASSUME NEW rule, IsRule(rule), TotalWeight(rule) > 0, NEW a \in Allocations(rule)
  PROVE  FairShare(rule, a)
<1> DEFINE w == Weights(rule)
           c == rule.count
           t == TotalWeight(rule)
<1>1. /\ c \in Nat /\ w = Weights(rule) /\ t \in Nat \ {0}
      /\ w[1] \in Nat /\ w[2] \in Nat /\ w[3] \in Nat /\ w[1] + w[2] + w[3] = t
  BY WeightsAreNumbers DEF Levels
<1>2. PICK up \in SUBSET Levels :
        /\ Cardinality(up) = Leftover(rule)
        /\ a = [d \in Levels |-> Whole(rule, d) + IF d \in up THEN 1 ELSE 0]
        /\ \A d \in up, e \in Levels \ up : Precedes(rule, d, e)
  BY <1>1 DEF Allocations, Favoured
<1> DEFINE n == [d \in Levels |-> c * w[d]]
           whole == [d \in Levels |-> Whole(rule, d)]
           rest == [d \in Levels |-> Fraction(rule, d)]
<1>3. n[1] \in Nat /\ n[2] \in Nat /\ n[3] \in Nat /\ n[1] + n[2] + n[3] = t * c
  <2>1. c * t = t * c
    BY <1>1
  <2> QED
    BY <1>1, <2>1, Product DEF Levels
<1>4. \A d \in Levels : whole[d] = n[d] \div t /\ rest[d] = n[d] % t
  BY DEF Whole, Fraction
<1>5. c = rule.count /\ t = TotalWeight(rule) /\ \A d \in Levels : n[d] = rule.count * Weights(rule)[d]
  OBVIOUS
<1> DEFINE x == [d \in Levels |-> IF d \in up THEN 1 ELSE 0]
<1>6. /\ \A d \in Levels : a[d] = whole[d] + x[d] /\ x[d] \in {0, 1} /\ (d \in up <=> x[d] = 1)
      /\ x[1] + x[2] + x[3] = c - (whole[1] + whole[2] + whole[3])
  BY <1>2, LevelsCount DEF Leftover, Sum3, Levels
<1>7. \A d \in up, e \in Levels \ up : rest[d] > rest[e] \/ rest[d] = rest[e]
  BY <1>2 DEF Precedes
<1> HIDE DEF n, w, c, t, whole, rest, x
<1>8. \A d \in Levels : whole[d] \in Nat /\ rest[d] \in 0..(t - 1) /\ n[d] = t * whole[d] + rest[d]
  <2> SUFFICES ASSUME NEW d \in Levels
               PROVE  whole[d] \in Nat /\ rest[d] \in 0..(t - 1) /\ n[d] = t * whole[d] + rest[d]
    OBVIOUS
  <2>1. n[d] \in Nat /\ t \in Nat \ {0}
    BY <1>1, <1>3 DEF Levels
  <2>2. n[d] \div t \in Nat /\ n[d] % t \in 0..(t - 1) /\ n[d] = t * (n[d] \div t) + (n[d] % t)
    BY <2>1, Division
  <2> QED
    BY <2>2, <1>4
<1>9. 1 \in Levels /\ 2 \in Levels /\ 3 \in Levels /\ \A d \in Levels : d = 1 \/ d = 2 \/ d = 3
  BY DEF Levels
<1>10. \A d, e \in Levels : x[d] = 1 => x[e] = 1 \/ rest[d] >= rest[e]
  <2> SUFFICES ASSUME NEW d \in Levels, NEW e \in Levels, x[d] = 1, x[e] # 1
               PROVE  rest[d] >= rest[e]
    OBVIOUS
  <2>1. rest[d] \in Int /\ rest[e] \in Int
    BY <1>1, <1>8
  <2>2. rest[d] > rest[e] \/ rest[d] = rest[e]
    BY <1>6, <1>7
  <2> QED
    BY <2>1, <2>2
<1>11. Split(t, c, n[1], n[2], n[3], whole[1], whole[2], whole[3], rest[1], rest[2], rest[3], x[1], x[2], x[3])
  BY <1>1, <1>3, <1>6, <1>8, <1>9, <1>10 DEF Split
<1>12. /\ (whole[1] + x[1]) + (whole[2] + x[2]) + (whole[3] + x[3]) = c
       /\ \A d \in Levels : x[d] = 1 => rest[d] > 0
  BY <1>9, <1>11, SlotsNeedFractions
<1>13. Sum3(a) = c
  BY <1>6, <1>9, <1>12 DEF Sum3
<1>14. \A d \in Levels : t * a[d] - n[d] \in (1 - t)..(t - 1)
  <2> SUFFICES ASSUME NEW d \in Levels PROVE t * a[d] - n[d] \in (1 - t)..(t - 1)
    OBVIOUS
  <2>1. /\ t \in Nat \ {0} /\ whole[d] \in Nat /\ rest[d] \in 0..(t - 1) /\ n[d] = t * whole[d] + rest[d]
        /\ a[d] = whole[d] + x[d] /\ x[d] \in {0, 1} /\ (x[d] = 1 => rest[d] > 0)
    BY <1>1, <1>6, <1>8, <1>12
  <2>2. t * (whole[d] + 1) = t * whole[d] + t /\ t * whole[d] \in Int /\ t * (whole[d] + 0) = t * whole[d]
    BY <2>1
  <2> QED
    BY <2>1, <2>2
<1> QED
  BY <1>5, <1>13, <1>14 DEF FairShare

-----------------------------------------------------------------------------
(* What a section gets.                                                    *)

\* The allocation fills the buckets as far as the pool goes, so that no slot is left over.
LEMMA BucketsCount ==
  ASSUME NEW pool, IsFiniteSet(pool), NEW level, NEW a,
         a[1] \in Nat, a[2] \in Nat, a[3] \in Nat,
         NEW state \in Buckets(pool, level, a)
  PROVE  Selection(state, pool, level, a, Levels, Sum3(a))
<1> DEFINE start == [pool |-> pool, picked |-> {}, short |-> {}]
<1>0. PICK two : state \in FillBucket(two, level, 3, a[3])
                 /\ \E one \in FillBucket(start, level, 1, a[1]) : two \in FillBucket(one, level, 2, a[2])
  BY DEF Buckets
<1>1. PICK one \in FillBucket(start, level, 1, a[1]) : two \in FillBucket(one, level, 2, a[2])
  BY <1>0
<1>2. Selection(start, pool, level, a, {}, 0)
  <2>1. \A d \in Levels : OfLevelIn({}, level, d) = {}
    BY DEF OfLevelIn
  <2>2. Cardinality(pool) \in Nat /\ Cardinality({}) = 0
    BY FS_CardinalityType, FS_EmptySet
  <2> QED
    BY <2>1, <2>2 DEF Selection, Lesser
<1>3. /\ 1 \in Levels \ {} /\ 2 \in Levels \ {1} /\ 3 \in Levels \ {1, 2} /\ Levels = {1, 2, 3}
      /\ (\A e \in {} : e < 1) /\ (\A e \in {1} : e < 2) /\ \A e \in {1, 2} : e < 3
  BY DEF Levels
<1> HIDE DEF start
<1>4. Selection(one, pool, level, a, {} \cup {1}, 0 + a[1])
  BY <1>1, <1>2, <1>3, FillBucketCounts
<1>5. Selection(two, pool, level, a, {1} \cup {2}, a[1] + a[2])
  <2>1. Selection(one, pool, level, a, {1}, a[1])
    BY <1>4
  <2> QED
    BY <2>1, <1>1, <1>3, FillBucketCounts
<1>6. Selection(state, pool, level, a, {1, 2} \cup {3}, a[1] + a[2] + a[3])
  <2>1. Selection(two, pool, level, a, {1, 2}, a[1] + a[2]) /\ {1, 2} \in SUBSET Levels /\ a[1] + a[2] \in Nat
    BY <1>3, <1>5
  <2> QED
    BY <2>1, <1>0, <1>3, FillBucketCounts
<1> QED
  BY <1>3, <1>6 DEF Sum3

\* The slots no bucket accounts for: none are left.
LEMMA NoRest ==
  ASSUME NEW pool, IsFiniteSet(pool), NEW needed \in Nat, NEW state,
         state = [pool |-> state.pool, picked |-> state.picked, short |-> state.short],
         state.picked \subseteq pool, state.pool = pool \ state.picked,
         Cardinality(state.picked) = Lesser(needed, Cardinality(pool)),
         NEW next \in FillRest(state, needed)
  PROVE  next.picked = state.picked /\ next.short = state.short
<1> DEFINE limit == Max({0, needed - Cardinality(state.picked)})
<1>1. PICK rest \in kSubset(Min({limit, Cardinality(state.pool)}), state.pool) :
        next = [pool |-> state.pool \ rest, picked |-> state.picked \cup rest,
                short |-> IF rest = {} THEN state.short ELSE state.short \cup {Unmatched}]
  BY DEF FillRest
<1>2. /\ IsFiniteSet(state.pool) /\ Cardinality(state.pool) \in Nat
      /\ Cardinality(state.picked) \in Nat /\ Cardinality(pool) \in Nat
      /\ Cardinality(state.pool) = Cardinality(pool) - Cardinality(state.picked)
  BY RestCount
<1>3. limit = IF needed > Cardinality(state.picked) THEN needed - Cardinality(state.picked) ELSE 0
  <2>1. needed - Cardinality(state.picked) \in Int
    BY <1>2
  <2> QED
    BY <2>1, <1>2, MaxWithZero
<1> HIDE DEF limit
<1>4. limit \in Nat /\ (limit = 0 \/ Cardinality(state.pool) = 0)
  BY <1>2, <1>3 DEF Lesser
<1>5. Min({limit, Cardinality(state.pool)}) = 0
  <2> DEFINE c == Cardinality(state.pool)
  <2>1. c \in Nat /\ Min({limit, c}) = Lesser(limit, c)
    BY <1>2, <1>4, MinOfTwo
  <2> HIDE DEF c
  <2> QED
    BY <2>1, <1>4 DEF Lesser, c
<1>6. rest = {}
  BY <1>1, <1>2, <1>5, SubsetsOfSize, FS_EmptySet
<1> QED
  BY <1>1, <1>6

\* When no bucket has asked for any, the rest is all of it, and each question is reported.
LEMMA AllRest ==
  ASSUME NEW pool, IsFiniteSet(pool), NEW needed \in Nat,
         NEW next \in FillRest([pool |-> pool, picked |-> {}, short |-> {}], needed)
  PROVE  /\ next.picked \subseteq pool /\ Cardinality(next.picked) = Lesser(needed, Cardinality(pool))
         /\ next.short = IF next.picked = {} THEN {} ELSE {Unmatched}
<1>2. PICK rest \in kSubset(Min({Max({0, needed - Cardinality({})}), Cardinality(pool)}), pool) :
        next = [pool |-> pool \ rest, picked |-> {} \cup rest,
                short |-> IF rest = {} THEN {} ELSE {} \cup {Unmatched}]
  BY DEF FillRest
<1>3. Cardinality(pool) \in Nat /\ Cardinality({}) = 0
  BY FS_CardinalityType, FS_EmptySet
<1>4. Max({0, needed - Cardinality({})}) = needed
  <2>1. needed - Cardinality({}) = needed /\ needed \in Int
    BY <1>3
  <2>2. Max({0, needed}) = IF needed > 0 THEN needed ELSE 0
    BY <2>1, MaxWithZero
  <2> QED
    BY <2>1, <2>2
<1>5. Min({needed, Cardinality(pool)}) = Lesser(needed, Cardinality(pool))
  BY <1>3, MinOfTwo
<1>6. rest \subseteq pool /\ Cardinality(rest) = Lesser(needed, Cardinality(pool))
  BY <1>2, <1>4, <1>5, SubsetsOfSize
<1> QED
  BY <1>2, <1>6

\* What pickForSection may return.
Pick(rule, pool, level, entry) ==
  /\ entry.picked \subseteq pool /\ entry.short \subseteq Reports
  /\ Cardinality(entry.picked) = Lesser(rule.count, Cardinality(pool))
  /\ TotalWeight(rule) = 0 => entry.short = IF entry.picked = {} THEN {} ELSE {Unmatched}
  /\ TotalWeight(rule) > 0 =>
       \E a \in Allocations(rule) :
         /\ entry.short = {} => \A d \in Levels : Cardinality(OfLevelIn(entry.picked, level, d)) = a[d]
         /\ entry.short # {} => FirstIsShort(entry.short, pool, level, a)

LEMMA AllocationsAreNumbers ==
  ASSUME NEW rule, IsRule(rule), TotalWeight(rule) > 0, NEW a \in Allocations(rule)
  PROVE  /\ a = [d \in Levels |-> a[d]]
         /\ \A d \in Levels : a[d] \in 0..rule.count
         /\ Sum3(a) = rule.count
<1>1. FairShare(rule, a)
  BY AllocationsAreFair
<1>2. PICK up : a = [d \in Levels |-> Whole(rule, d) + IF d \in up THEN 1 ELSE 0]
  BY DEF Allocations
<1>3. /\ rule.count \in Nat /\ \A d \in Levels : Weights(rule)[d] \in Nat
      /\ TotalWeight(rule) \in Nat \ {0}
  BY WeightsAreNumbers
<1>4. \A d \in Levels : a[d] \in Nat
  <2> SUFFICES ASSUME NEW d \in Levels PROVE a[d] \in Nat
    OBVIOUS
  <2> DEFINE n == rule.count * Weights(rule)[d]
  <2>1. n \in Nat
    BY <1>3, Product
  <2>2. Whole(rule, d) \in Nat
    BY <1>3, <2>1, Division DEF Whole
  <2> QED
    BY <1>2, <2>2
<1>5. Sum3(a) = rule.count
  BY <1>1 DEF FairShare
<1>6. \A d \in Levels : a[d] <= rule.count
  BY <1>3, <1>4, <1>5 DEF Sum3, Levels
<1> QED
  BY <1>2, <1>3, <1>4, <1>5, <1>6

\* Weights that are all zero leave the buckets empty.
LEMMA NoWeightNoBucket ==
  ASSUME NEW rule, TotalWeight(rule) = 0, NEW pool, IsFiniteSet(pool), NEW level,
         NEW a \in Allocations(rule), NEW state \in Buckets(pool, level, a)
  PROVE  state = [pool |-> pool, picked |-> {}, short |-> {}]
<1>1. a = [d \in Levels |-> 0] /\ a[1] = 0 /\ a[2] = 0 /\ a[3] = 0
  BY DEF Allocations, Levels
<1>2. Sum3(a) = 0
  BY <1>1 DEF Sum3
<1>3. Selection(state, pool, level, a, Levels, 0)
  BY <1>1, <1>2, BucketsCount
<1>4. Cardinality(pool) \in Nat /\ IsFiniteSet(state.picked) /\ Cardinality(state.picked) = 0
  BY <1>3, FS_CardinalityType, FS_Subset DEF Selection, Lesser
<1>5. state.picked = {}
  BY <1>4, FS_EmptySet
<1>6. state.short = {}
  <2>1. \A d \in Levels : IsFiniteSet(OfLevelIn(pool, level, d))
    BY FS_Subset DEF OfLevelIn
  <2>2. \A d \in Levels : Cardinality(OfLevelIn(pool, level, d)) \in Nat
    BY <2>1, FS_CardinalityType
  <2> QED
    BY <1>1, <1>3, <2>2 DEF Selection, FirstIsShort
<1> QED
  BY <1>3, <1>5, <1>6 DEF Selection

LEMMA PickForSectionPicks ==
  ASSUME NEW rule, IsRule(rule), NEW pool, IsFiniteSet(pool), NEW level,
         NEW entry \in PickForSection(rule, pool, level)
  PROVE  Pick(rule, pool, level, entry)
<1>0. PICK a \in Allocations(rule) : \E state \in Buckets(pool, level, a) : entry \in FillRest(state, rule.count)
  BY DEF PickForSection
<1>1. PICK state \in Buckets(pool, level, a) : entry \in FillRest(state, rule.count)
  BY <1>0
<1>2. rule.count \in Nat /\ TotalWeight(rule) \in Nat
  BY WeightsAreNumbers
<1>3. CASE TotalWeight(rule) > 0
  <2>1. a[1] \in Nat /\ a[2] \in Nat /\ a[3] \in Nat /\ Sum3(a) = rule.count
    BY <1>2, <1>3, AllocationsAreNumbers DEF Levels
  <2>2. Selection(state, pool, level, a, Levels, rule.count)
    BY <1>1, <2>1, BucketsCount
  <2>3. entry.picked = state.picked /\ entry.short = state.short
    BY <1>1, <1>2, <2>2, NoRest DEF Selection
  <2> QED
    BY <1>3, <2>2, <2>3 DEF Pick, Selection, Reports
<1>4. CASE TotalWeight(rule) = 0
  <2>1. state = [pool |-> pool, picked |-> {}, short |-> {}]
    BY <1>1, <1>4, NoWeightNoBucket
  <2>2. /\ entry.picked \subseteq pool /\ Cardinality(entry.picked) = Lesser(rule.count, Cardinality(pool))
        /\ entry.short = IF entry.picked = {} THEN {} ELSE {Unmatched}
    <3>1. rule.count \in Nat /\ entry \in FillRest([pool |-> pool, picked |-> {}, short |-> {}], rule.count)
      BY <1>1, <1>2, <2>1
    <3> QED
      BY <3>1, AllRest
  <2> QED
    BY <1>4, <2>2 DEF Pick, Reports
<1> QED
  BY <1>2, <1>3, <1>4

\* An entry of a plan.
LEMMA EntriesFill ==
  ASSUME NEW rule, IsRule(rule), NEW pool, IsFiniteSet(pool), NEW type, NEW level,
         NEW entry \in Entries(rule, pool, type, level)
  PROVE  /\ entry \in [picked : SUBSET pool, short : SUBSET Reports]
         /\ IF Selectable(rule)
            THEN Pick(rule, {q \in pool : type[q] = rule.type}, level, entry)
            ELSE entry.picked = {}
<1>1. CASE Selectable(rule)
  <2> DEFINE matches == {q \in pool : type[q] = rule.type}
  <2>1. PICK state \in PickForSection(rule, matches, level) : entry = [picked |-> state.picked, short |-> state.short]
    BY <1>1 DEF Entries
  <2>2. IsFiniteSet(matches)
    BY FS_Subset
  <2>3. Pick(rule, matches, level, state)
    BY <2>1, <2>2, PickForSectionPicks
  <2>4. Pick(rule, matches, level, entry) /\ entry.picked \subseteq pool /\ entry.short \subseteq Reports
    BY <2>1, <2>3 DEF Pick
  <2> QED
    BY <1>1, <2>1, <2>4
<1>2. CASE ~Selectable(rule)
  BY <1>2 DEF Entries
<1> QED
  BY <1>1, <1>2

-----------------------------------------------------------------------------
(* The links a plan becomes.                                               *)

\* A plan whose entries share no question.
Apart(plan, n) ==
  /\ n \in Nat /\ DOMAIN plan = 1..n
  /\ \A i \in 1..n : IsFiniteSet(plan[i].picked)
  /\ \A i, k \in 1..n : i # k => plan[i].picked \cap plan[k].picked = {}

PlacesBefore(plan, i) == Cardinality(PickedBy(plan, 1..(i - 1)))
PositionIn(S, q) == CHOOSE n \in 1..Cardinality(S) : SetToSeq(S)[n] = q

LEMMA PickedFinite ==
  ASSUME NEW plan, NEW n, Apart(plan, n), NEW i \in 0..n
  PROVE  IsFiniteSet(PickedBy(plan, 1..i)) /\ Cardinality(PickedBy(plan, 1..i)) \in Nat
<1> DEFINE parts == {plan[k].picked : k \in 1..i}
           f == [k \in 1..i |-> plan[k].picked]
<1>1. IsFiniteSet(1..i)
  BY FS_Interval
<1>2. f \in Surjection(1..i, parts)
  BY DEF Surjection
<1>3. IsFiniteSet(parts)
  BY <1>1, <1>2, FS_Surjection
<1>4. \A S \in parts : IsFiniteSet(S)
  BY DEF Apart
<1> HIDE DEF parts
<1>5. IsFiniteSet(UNION parts)
  BY <1>3, <1>4, FS_UNION
<1> QED
  BY <1>5, FS_CardinalityType DEF PickedBy, parts

\* The places of a rule come after those of the rules before it.
LEMMA PlacesFollow ==
  ASSUME NEW plan, NEW n, Apart(plan, n), NEW i \in 1..n
  PROVE  /\ PlacesBefore(plan, i) \in Nat /\ Cardinality(plan[i].picked) \in Nat
         /\ \A k \in 1..n : i < k => PlacesBefore(plan, i) + Cardinality(plan[i].picked) <= PlacesBefore(plan, k)
<1> DEFINE before == PickedBy(plan, 1..(i - 1))
           mine == plan[i].picked
<1>1. n \in Nat /\ IsFiniteSet(mine) /\ i - 1 \in 0..n
  BY DEF Apart
<1>2. IsFiniteSet(before) /\ Cardinality(before) \in Nat
  BY <1>1, PickedFinite
<1>3. before \cap mine = {}
  <2>1. \A k \in 1..(i - 1) : plan[k].picked \cap mine = {}
    BY <1>1 DEF Apart
  <2> QED
    BY <2>1 DEF PickedBy
<1>4. Cardinality(mine) \in Nat
  BY <1>1, FS_CardinalityType
<1>5. Cardinality(before \cup mine) = Cardinality(before) + Cardinality(mine)
  BY <1>1, <1>2, <1>3, DisjointCount
<1>6. ASSUME NEW k \in 1..n, i < k
      PROVE  Cardinality(before \cup mine) <= Cardinality(PickedBy(plan, 1..(k - 1)))
  <2>1. k - 1 \in 0..n /\ 1..(i - 1) \subseteq 1..(k - 1) /\ i \in 1..(k - 1)
    BY <1>1, <1>6
  <2>2. before \cup mine \subseteq PickedBy(plan, 1..(k - 1))
    BY <2>1 DEF PickedBy
  <2>3. IsFiniteSet(PickedBy(plan, 1..(k - 1)))
    BY <2>1, PickedFinite
  <2> QED
    BY <2>2, <2>3, FS_Subset
<1> QED
  BY <1>2, <1>4, <1>5, <1>6 DEF PlacesBefore

LEMMA PositionsDiffer ==
  ASSUME NEW S, IsFiniteSet(S), NEW q \in S
  PROVE  PositionIn(S, q) \in 1..Cardinality(S) /\ SetToSeq(S)[PositionIn(S, q)] = q
BY SetToSeqCounts DEF PositionIn

\* Each question is linked under its rule's label, and no two have the same number.
LEMMA LayoutPlaces ==
  ASSUME NEW rules, NEW plan, NEW n, Apart(plan, n)
  PROVE  LET links == Layout(rules, plan) IN
         /\ links = [q \in PickedBy(plan, 1..n) |-> links[q]]
         /\ \A i \in 1..n : \A q \in plan[i].picked :
              /\ links[q].sort = PlacesBefore(plan, i) + PositionIn(plan[i].picked, q)
              /\ links[q].sort \in Nat \ {0}
              /\ links[q].section = Label(rules[i])
              /\ links[q].marks = SectionMarks(rules[i])
         /\ \A p, q \in PickedBy(plan, 1..n) : links[p].sort = links[q].sort => p = q
<1> DEFINE links == Layout(rules, plan)
           RuleOf(q) == CHOOSE i \in DOMAIN plan : q \in plan[i].picked
<1>1. n \in Nat /\ DOMAIN plan = 1..n
  BY DEF Apart
<1>2. links = [q \in PickedBy(plan, 1..n) |->
                [sort |-> PlacesBefore(plan, RuleOf(q)) + PositionIn(plan[RuleOf(q)].picked, q),
                 marks |-> SectionMarks(rules[RuleOf(q)]), section |-> Label(rules[RuleOf(q)])]]
  BY <1>1 DEF Layout, PlacesBefore, PositionIn
<1>3. ASSUME NEW i \in 1..n, NEW q \in plan[i].picked
      PROVE  RuleOf(q) = i /\ q \in PickedBy(plan, 1..n)
  <2>1. \A k \in 1..n : q \in plan[k].picked => k = i
    BY DEF Apart
  <2> QED
    BY <1>1, <2>1 DEF PickedBy
<1> HIDE DEF links, RuleOf
<1>4. ASSUME NEW i \in 1..n, NEW q \in plan[i].picked
      PROVE  /\ links[q].sort = PlacesBefore(plan, i) + PositionIn(plan[i].picked, q)
             /\ PositionIn(plan[i].picked, q) \in 1..Cardinality(plan[i].picked)
             /\ links[q].sort \in Nat \ {0}
             /\ links[q].section = Label(rules[i])
             /\ links[q].marks = SectionMarks(rules[i])
  <2>1. RuleOf(q) = i /\ q \in PickedBy(plan, 1..n)
    BY <1>3
  <2>2. PositionIn(plan[i].picked, q) \in 1..Cardinality(plan[i].picked)
    BY PositionsDiffer DEF Apart
  <2>3. PlacesBefore(plan, i) \in Nat /\ Cardinality(plan[i].picked) \in Nat
    BY PlacesFollow
  <2>4. links[q] = [sort |-> PlacesBefore(plan, i) + PositionIn(plan[i].picked, q),
                    marks |-> SectionMarks(rules[i]), section |-> Label(rules[i])]
    BY <1>2, <2>1
  <2> QED
    BY <2>2, <2>3, <2>4
<1>5. ASSUME NEW i \in 1..n, NEW p \in plan[i].picked, NEW k \in 1..n, NEW q \in plan[k].picked,
             links[p].sort = links[q].sort
      PROVE  p = q
  <2> DEFINE x == PositionIn(plan[i].picked, p)
             y == PositionIn(plan[k].picked, q)
  <2>1. /\ x \in 1..Cardinality(plan[i].picked) /\ y \in 1..Cardinality(plan[k].picked)
        /\ PlacesBefore(plan, i) + x = PlacesBefore(plan, k) + y
    BY <1>4, <1>5
  <2>2. /\ PlacesBefore(plan, i) \in Nat /\ Cardinality(plan[i].picked) \in Nat
        /\ PlacesBefore(plan, k) \in Nat /\ Cardinality(plan[k].picked) \in Nat
        /\ i < k => PlacesBefore(plan, i) + Cardinality(plan[i].picked) <= PlacesBefore(plan, k)
        /\ k < i => PlacesBefore(plan, k) + Cardinality(plan[k].picked) <= PlacesBefore(plan, i)
    BY PlacesFollow
  <2>3. SetToSeq(plan[i].picked)[x] = p /\ SetToSeq(plan[k].picked)[y] = q
    BY PositionsDiffer DEF Apart
  <2> HIDE DEF x, y
  <2>4. i = k
    BY <1>1, <2>1, <2>2
  <2>5. x = y
    BY <2>1, <2>2, <2>4
  <2> QED
    BY <2>3, <2>4, <2>5
<1>6. \A p, q \in PickedBy(plan, 1..n) : links[p].sort = links[q].sort => p = q
  BY <1>5 DEF PickedBy
<1>7. links = [q \in PickedBy(plan, 1..n) |-> links[q]]
  BY <1>2
<1> QED
  BY <1>4, <1>6, <1>7 DEF links

\* The marks of a rule are never none.
LEMMA QuotientPositive ==
  ASSUME NEW n \in Nat, NEW k \in Nat \ {0}, k <= n
  PROVE  n \div k \in Nat \ {0}
OBVIOUS

LEMMA SectionMarksPositive ==
  ASSUME NEW rule, IsRule(rule)
  PROVE  SectionMarks(rule) \in Nat \ {0}
<1>1. rule.marks \in Nat /\ rule.total \in Nat /\ Attempted(rule) \in Nat
  BY DEF IsRule, Attempted
<1>2. ASSUME rule.total > 0, Attempted(rule) > 0
      PROVE  CeilDiv(rule.total, Attempted(rule)) \in Nat \ {0}
  <2>1. rule.total + Attempted(rule) - 1 \in Nat /\ Attempted(rule) <= rule.total + Attempted(rule) - 1
    BY <1>1, <1>2
  <2> QED
    BY <2>1, <1>1, <1>2, QuotientPositive DEF CeilDiv
<1> QED
  BY <1>1, <1>2 DEF SectionMarks
==============================================================================
