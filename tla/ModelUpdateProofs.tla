------------------------- MODULE ModelUpdateProofs -------------------------
(***************************************************************************)
(* What is proved of ModelUpdate, for every traffic, every configuration   *)
(* of updates and any number of values in a family: first the arithmetic   *)
(* of CtrMath (the logistic table and its inverse, the root, rounding,     *)
(* posteriors and intervals), then the seed dataset, the evidence, what a  *)
(* family learns and how centring moves it, and last the invariant.        *)
(***************************************************************************)
EXTENDS ModelUpdate, SumProofs

-----------------------------------------------------------------------------
(* Extremes                                                                *)

(* A finite set of integers that is not empty has a largest member.        *)
LEMMA MaxOf ==
    ASSUME NEW S, \A x \in S : x \in Int, IsFiniteSet(S), S # {}
    PROVE  Max(S) \in S /\ \A y \in S : y <= Max(S)
<1>. DEFINE W == {T \in SUBSET S : T # {} /\ ~\E x \in T : \A y \in T : x >= y}
<1>1. W = {}
  <2>1. SUFFICES ASSUME W # {} PROVE FALSE
    OBVIOUS
  <2>2. PICK T \in W : IsFiniteSet(T) /\ \A U \in W : U \subseteq T => U = T
    <3>1. W \subseteq SUBSET S /\ IsFiniteSet(S) /\ W # {}
      BY <2>1
    <3>. HIDE DEF W
    <3>2. \E T \in W : IsFiniteSet(T) /\ \A U \in W : U \subseteq T => U = T
      BY <3>1, SmallestSet
    <3>. QED
      BY <3>2
  <2>3. PICK e \in T : TRUE
    OBVIOUS
  <2>4. e \in Int /\ T \in SUBSET S
    OBVIOUS
  <2>5. T \ {e} # {}
    <3>1. SUFFICES ASSUME T = {e} PROVE FALSE
      BY <2>3
    <3>2. \A y \in T : e >= y
      BY <2>4, <3>1
    <3>. QED
      BY <2>3, <3>2
  <2>6. T \ {e} \notin W
    BY <2>2, <2>3
  <2>7. PICK x \in T \ {e} : \A y \in T \ {e} : x >= y
    BY <2>4, <2>5, <2>6
  <2>8. x \in Int /\ \A y \in T : y \in Int
    BY <2>4
  <2>9. \A y \in T : (IF x >= e THEN x ELSE e) >= y
    BY <2>4, <2>7, <2>8
  <2>10. (IF x >= e THEN x ELSE e) \in T
    BY <2>3
  <2>. QED
    BY <2>9, <2>10
<1>2. \E x \in S : \A y \in S : x >= y
  BY <1>1
<1>3. Max(S) \in S /\ \A y \in S : Max(S) >= y
  BY <1>2, Zenon DEF Max
<1>4. \A y \in S : y \in Int
  OBVIOUS
<1>. QED
  BY <1>3, <1>4

LEMMA FiniteImage ==
    ASSUME NEW S, IsFiniteSet(S), NEW f
    PROVE  IsFiniteSet({f[x] : x \in S})
<1>. DEFINE T == {f[x] : x \in S}
            g == [x \in S |-> f[x]]
<1>1. g \in Surjection(S, T)
  BY DEF Surjection
<1>2. IsFiniteSet(T)
  <2>. HIDE DEF T, g
  <2>. QED
    BY <1>1, FS_Surjection
<1>. QED
  BY <1>2

LEMMA MinOf ==
    ASSUME NEW S, \A x \in S : x \in Int, IsFiniteSet(S), S # {}
    PROVE  Min(S) \in S /\ \A y \in S : Min(S) <= y
<1>. DEFINE N == {-x : x \in S}
<1>1. (\A x \in N : x \in Int) /\ N # {}
  <2>1. \A x \in S : -x \in Int
    OBVIOUS
  <2>2. PICK x \in S : TRUE
    OBVIOUS
  <2>. QED
    BY <2>1, <2>2
<1>2. IsFiniteSet(N)
  <2>. DEFINE f == [x \in S |-> -x]
  <2>1. \A x \in S : f[x] = -x
    OBVIOUS
  <2>2. N = {f[x] : x \in S}
    BY <2>1
  <2>. HIDE DEF N, f
  <2>. QED
    BY <2>2, FiniteImage
<1>3. Max(N) \in N /\ \A y \in N : y <= Max(N)
  <2>. HIDE DEF N
  <2>. QED
    BY <1>1, <1>2, MaxOf
<1>4. PICK x \in S : Max(N) = -x
  BY <1>3
<1>5. \A y \in S : x <= y
  <2>1. TAKE y \in S
  <2>2. -y \in N
    OBVIOUS
  <2>3. -y <= -x
    BY <1>3, <1>4, <2>2
  <2>. QED
    BY <2>3
<1>6. Min(S) \in S /\ \A y \in S : Min(S) <= y
  BY <1>5, Zenon DEF Min
<1>. QED
  BY <1>6

LEMMA IntervalsFinite ==
    IsFiniteSet(1 .. 56) /\ IsFiniteSet(0 .. 9) /\ IsFiniteSet(0 .. 31)
<1>1. 1 \in Int /\ 56 \in Int /\ 0 \in Int /\ 9 \in Int /\ 31 \in Int
  OBVIOUS
<1>. QED
  BY <1>1, FS_Interval, Zenon

LEMMA TwoExtremes ==
    ASSUME NEW a \in Int, NEW b \in Int
    PROVE  /\ Max({a, b}) = IF a >= b THEN a ELSE b
           /\ Min({a, b}) = IF a <= b THEN a ELSE b
<1>1. (\A x \in {a, b} : x \in Int) /\ IsFiniteSet({a, b}) /\ {a, b} # {}
  <2>1. IsFiniteSet({a} \cup {b})
    BY FS_Singleton, FS_AddElement
  <2>2. {a, b} = {a} \cup {b}
    OBVIOUS
  <2>. QED
    BY <2>1, <2>2
<1>2. Max({a, b}) \in {a, b} /\ \A y \in {a, b} : y <= Max({a, b})
  BY <1>1, MaxOf
<1>3. Min({a, b}) \in {a, b} /\ \A y \in {a, b} : Min({a, b}) <= y
  BY <1>1, MinOf
<1>4. Max({a, b}) = IF a >= b THEN a ELSE b
  BY <1>2
<1>5. Min({a, b}) = IF a <= b THEN a ELSE b
  BY <1>3
<1>. QED BY <1>4, <1>5

(* clip_value.                                                             *)
LEMMA Clipped ==
    ASSUME NEW v \in Int, NEW lo \in Int, NEW hi \in Int, lo <= hi
    PROVE  ClipValue(v, lo, hi) = IF v < lo THEN lo ELSE IF v > hi THEN hi ELSE v
<1>1. Min({hi, v}) = IF hi <= v THEN hi ELSE v
  BY TwoExtremes
<1>2. ClipValue(v, lo, hi) = IF lo >= Min({hi, v}) THEN lo ELSE Min({hi, v})
  BY <1>1, TwoExtremes DEF ClipValue
<1>. QED BY <1>1, <1>2

-----------------------------------------------------------------------------
(* The logistic curve                                                      *)

LEMMA Table ==
    /\ SigmoidTable \in [1 .. 56 -> Int]
    /\ Len(SigmoidTable) = 56 /\ DOMAIN SigmoidTable = 1 .. 56
    /\ SigmoidTable[1] = 163 /\ Last(SigmoidTable) = 20000
    /\ SigmoidTable[56] = 20000
    /\ LowestWeight = -550 /\ HighestWeight = 0 /\ TableStep = 10
<1>1. Len(SigmoidTable) = 56 /\ DOMAIN SigmoidTable = 1 .. 56
  BY DEF SigmoidTable
<1>2. \A i \in 1 .. 56 : SigmoidTable[i] \in Int
  BY DEF SigmoidTable
<1>3. SigmoidTable[1] = 163 /\ SigmoidTable[56] = 20000
  BY DEF SigmoidTable
<1>4. SigmoidTable = [i \in 1 .. 56 |-> SigmoidTable[i]]
  BY DEF SigmoidTable
<1>. QED BY <1>1, <1>2, <1>3, <1>4 DEF Last, LowestWeight, HighestWeight, TableStep

LEMMA TableSteps ==
    \A i \in 1 .. 55 : SigmoidTable[i + 1] - SigmoidTable[i] >= 10
BY DEF SigmoidTable

(* The weights and the probabilities of the table's range.                 *)
Weights == {w \in Int : -550 <= w /\ w <= 0}
Probabilities == {p \in Int : 163 <= p /\ p <= 20000}

(* Between two points of the table the curve climbs at each unit.          *)
LEMMA Interpolated ==
    ASSUME NEW i \in 1 .. 55, NEW r \in 0 .. 9
    PROVE  /\ Interpolate(i, r) \in Int
           /\ r < 9 => Interpolate(i, r) < Interpolate(i, r + 1)
           /\ r = 9 => Interpolate(i, r) < Interpolate(i + 1, 0)
<1>. DEFINE low == SigmoidTable[i]
            d == SigmoidTable[i + 1] - SigmoidTable[i]
<1>1. low \in Int /\ d \in Int /\ d >= 10 /\ SigmoidTable[i + 1] = low + d
  BY Table, TableSteps
<1>2. \A k \in 0 .. 9 : Interpolate(i, k) = low + (d * k) \div 10
  <2>1. TAKE k \in 0 .. 9
  <2>2. CASE k = 0
    BY <1>1, <2>2 DEF Interpolate
  <2>3. CASE k # 0
    BY <1>1, <2>3, Table DEF Interpolate
  <2>. QED
    BY <2>2, <2>3
<1>3. Interpolate(i + 1, 0) = low + d
  BY <1>1 DEF Interpolate
<1>. HIDE DEF low, d
<1>4. \A k \in 0 .. 9 : d * k \in Int
  BY <1>1
<1>5. d * r \in Int /\ d * (r + 1) = d * r + d
  BY <1>1
<1>6. (d * r) \div 10 < (d * r + d) \div 10
  BY <1>1, <1>5
<1>7. r = 9 => (d * r) \div 10 < d
  BY <1>1
<1>8. Interpolate(i, r) = low + (d * r) \div 10
  BY <1>2
<1>9. r < 9 => Interpolate(i, r + 1) = low + (d * r + d) \div 10
  BY <1>2, <1>5
<1>. QED
  BY <1>1, <1>3, <1>5, <1>6, <1>7, <1>8, <1>9

(* Where a weight in the table's range lies in it.                         *)
LEMMA Offset ==
    ASSUME NEW w \in Weights
    PROVE  Sigmoid(w) = Interpolate(1 + (w + 550) \div 10, (w + 550) % 10)
<1>1. ClipValue(w, -550, 0) = w
  BY Clipped DEF Weights
<1>2. w + 550 = w - (-550)
  BY DEF Weights
<1>. QED
  BY <1>1, <1>2, Table DEF Sigmoid

LEMMA At ==
    ASSUME NEW w \in Weights, NEW i \in 1 .. 56, NEW r \in 0 .. 9,
           w = -550 + (i - 1) * 10 + r
    PROVE  Sigmoid(w) = Interpolate(i, r)
<1>1. 1 + (w + 550) \div 10 = i
  OBVIOUS
<1>2. (w + 550) % 10 = r
  OBVIOUS
<1>3. Sigmoid(w) = Interpolate(1 + (w + 550) \div 10, (w + 550) % 10)
  BY Offset
<1>. DEFINE j == 1 + (w + 550) \div 10
            k == (w + 550) % 10
<1>4. j = i /\ k = r /\ Sigmoid(w) = Interpolate(j, k)
  BY <1>1, <1>2, <1>3
<1>. HIDE DEF j, k
<1>. QED
  BY <1>4

LEMMA SigmoidOutside ==
    ASSUME NEW w \in Int
    PROVE  \E v \in Weights : Sigmoid(w) = Sigmoid(v)
<1>. DEFINE v == ClipValue(w, -550, 0)
<1>1. v = IF w < -550 THEN -550 ELSE IF w > 0 THEN 0 ELSE w
  BY Clipped
<1>2. v \in Weights
  BY <1>1 DEF Weights
<1>3. ClipValue(v, -550, 0) = v
  <2>. HIDE DEF v
  <2>. QED
    BY <1>2, Clipped DEF Weights
<1>4. Sigmoid(w) = Sigmoid(v)
  BY <1>3, Table DEF Sigmoid
<1>. QED
  BY <1>2, <1>4

LEMMA SigmoidStep ==
    ASSUME NEW w \in Weights
    PROVE  /\ Sigmoid(w) \in Int
           /\ w < 0 => Sigmoid(w) < Sigmoid(w + 1)
<1>1. CASE w = 0
  <2>1. Sigmoid(w) = Interpolate(56, 0)
    BY <1>1, Offset
  <2>. QED
    BY <1>1, <2>1, Table DEF Interpolate
<1>2. CASE w < 0
  <2>. DEFINE i == 1 + (w + 550) \div 10
              r == (w + 550) % 10
  <2>1. i \in 1 .. 55 /\ r \in 0 .. 9
    BY <1>2 DEF Weights
  <2>2. r < 9 => (w + 1 + 550) \div 10 = (w + 550) \div 10 /\ (w + 1 + 550) % 10 = r + 1
    BY <1>2 DEF Weights
  <2>3. r = 9 => 1 + (w + 1 + 550) \div 10 = i + 1 /\ (w + 1 + 550) % 10 = 0
    BY <1>2 DEF Weights
  <2>4. w + 1 \in Weights
    BY <1>2 DEF Weights
  <2>5. Sigmoid(w) = Interpolate(i, r)
    BY Offset
  <2>6. Sigmoid(w + 1) = Interpolate(1 + (w + 1 + 550) \div 10, (w + 1 + 550) % 10)
    BY <2>4, Offset
  <2>. HIDE DEF i, r
  <2>7. r < 9 => Sigmoid(w + 1) = Interpolate(i, r + 1)
    BY <2>2, <2>6 DEF i
  <2>8. r = 9 => Sigmoid(w + 1) = Interpolate(i + 1, 0)
    BY <2>3, <2>6
  <2>. QED
    BY <2>1, <2>5, <2>7, <2>8, Interpolated
<1>. QED
  BY <1>1, <1>2 DEF Weights

(* sigmoid is strictly increasing, as far as the table reaches.            *)
LEMMA SigmoidRises ==
    ASSUME NEW v \in Weights, NEW w \in Weights, v < w
    PROVE  Sigmoid(v) < Sigmoid(w)
<1>. DEFINE Bad == {T \in SUBSET Weights :
                       \E n \in Weights : /\ T = v .. n /\ v < n
                                          /\ ~(Sigmoid(v) < Sigmoid(n))}
<1>1. IsFiniteSet(Weights) /\ Bad \subseteq SUBSET Weights
  <2>1. IsFiniteSet(Weights)
    <3>1. -550 \in Int /\ 0 \in Int
      OBVIOUS
    <3>2. IsFiniteSet(-550 .. 0)
      BY <3>1, FS_Interval, Zenon
    <3>3. Weights \subseteq -550 .. 0
      BY DEF Weights
    <3>. QED
      BY <3>2, <3>3, FS_Subset
  <2>. QED
    BY <2>1
<1>2. SUFFICES ASSUME Bad # {} PROVE FALSE
  <2>1. v .. w \in SUBSET Weights
    BY DEF Weights
  <2>. QED
    BY <2>1
<1>3. PICK T \in Bad : \A U \in Bad : U \subseteq T => U = T
  <2>. HIDE DEF Bad
  <2>. QED
    BY <1>1, <1>2, SmallestSet
<1>4. PICK n \in Weights : T = v .. n /\ v < n /\ ~(Sigmoid(v) < Sigmoid(n))
  OBVIOUS
<1>5. n - 1 \in Weights /\ (n - 1) + 1 = n /\ n - 1 < 0
  BY <1>4 DEF Weights
<1>6. Sigmoid(n - 1) < Sigmoid(n) /\ Sigmoid(n - 1) \in Int
  BY <1>5, SigmoidStep
<1>7. Sigmoid(v) \in Int /\ Sigmoid(n) \in Int
  BY SigmoidStep
<1>8. v # n - 1
  BY <1>4, <1>6
<1>9. v < n - 1
  BY <1>4, <1>8 DEF Weights
<1>10. ~(Sigmoid(v) < Sigmoid(n - 1))
  BY <1>4, <1>6, <1>7
<1>11. v .. (n - 1) \in Bad
  BY <1>5, <1>9, <1>10 DEF Weights
<1>12. v .. (n - 1) \subseteq T /\ n \in T /\ n \notin v .. (n - 1)
  BY <1>4 DEF Weights
<1>. QED
  BY <1>3, <1>11, <1>12

LEMMA SigmoidRange ==
    ASSUME NEW w \in Int
    PROVE  Sigmoid(w) \in Probabilities
<1>1. PICK v \in Weights : Sigmoid(w) = Sigmoid(v)
  BY SigmoidOutside
<1>2. PICK low \in Weights : low = -550
  BY DEF Weights
<1>3. PICK high \in Weights : high = 0
  BY DEF Weights
<1>4. Sigmoid(low) = 163 /\ Sigmoid(high) = 20000
  <2>1. Sigmoid(low) = Interpolate(1, 0)
    BY <1>2, Offset
  <2>2. Sigmoid(high) = Interpolate(56, 0)
    BY <1>3, Offset
  <2>. QED
    BY <2>1, <2>2, Table DEF Interpolate
<1>5. (v = low \/ low < v) /\ (v = high \/ v < high)
  BY <1>2, <1>3 DEF Weights
<1>6. v = low \/ Sigmoid(low) < Sigmoid(v)
  BY <1>5, SigmoidRises
<1>7. v = high \/ Sigmoid(v) < Sigmoid(high)
  BY <1>5, SigmoidRises
<1>8. 163 <= Sigmoid(v)
  <2>1. CASE v = low
    BY <1>4, <2>1
  <2>2. CASE v # low
    BY <1>4, <1>6, <2>2, SigmoidStep
  <2>. QED
    BY <2>1, <2>2
<1>9. Sigmoid(v) <= 20000
  <2>1. CASE v = high
    BY <1>4, <2>1
  <2>2. CASE v # high
    BY <1>4, <1>7, <2>2, SigmoidStep
  <2>. QED
    BY <2>1, <2>2
<1>10. Sigmoid(v) \in Int
  BY SigmoidStep
<1>11. Sigmoid(v) \in Probabilities
  BY <1>8, <1>9, <1>10 DEF Probabilities
<1>. QED
  BY <1>1, <1>11

(* safe_logit finds the place where the curve passes the probability.      *)
LEMMA LogitFound ==
    ASSUME NEW p \in Int
    PROVE  LET q == ClipValue(p, 163, 20000)
               w == SafeLogit(p)
           IN /\ w \in Weights
              /\ Sigmoid(w) <= q
              /\ w < 0 => q < Sigmoid(w + 1)
<1>. DEFINE q == ClipValue(p, 163, 20000)
            Points == {k \in DOMAIN SigmoidTable : SigmoidTable[k] <= q}
            i == Max(Points)
            Parts == {k \in 0 .. 9 : Interpolate(i, k) <= q}
            r == IF i = 56 THEN 0 ELSE Max(Parts)
            w == -550 + (i - 1) * 10 + r
<1>1. q \in Probabilities
  BY Clipped DEF Probabilities
<1>2. SafeLogit(p) = w
  BY Table DEF SafeLogit
<1>3. i \in 1 .. 56 /\ SigmoidTable[i] <= q
      /\ \A k \in 1 .. 56 : SigmoidTable[k] <= q => k <= i
  <2>1. Points = {k \in 1 .. 56 : SigmoidTable[k] <= q} /\ 1 \in Points
    BY <1>1, Table DEF Probabilities
  <2>2. IsFiniteSet(Points)
    <3>1. IsFiniteSet(1 .. 56)
      BY IntervalsFinite
    <3>2. Points \subseteq 1 .. 56
      BY <2>1
    <3>. HIDE DEF Points
    <3>. QED
      BY <3>1, <3>2, FS_Subset
  <2>3. \A k \in Points : k \in Int
    BY <2>1
  <2>4. i \in Points /\ \A k \in Points : k <= i
    <3>. HIDE DEF Points
    <3>. QED
      BY <2>1, <2>2, <2>3, MaxOf
  <2>. QED
    BY <2>1, <2>4
<1>. HIDE DEF q, i
<1>4. CASE i = 56
  <2>1. w = 0
    BY <1>4
  <2>2. Sigmoid(0) = SigmoidTable[56]
    BY Offset, Table DEF Interpolate, Weights
  <2>. QED
    BY <1>2, <1>3, <1>4, <2>1, <2>2 DEF q, Weights
<1>5. CASE i # 56
  <2>1. i \in 1 .. 55 /\ r = Max(Parts)
    BY <1>3, <1>5
  <2>2. r \in 0 .. 9 /\ Interpolate(i, r) <= q
        /\ \A k \in 0 .. 9 : Interpolate(i, k) <= q => k <= r
    <3>1. 0 \in Parts
      BY <1>3 DEF Interpolate
    <3>2. IsFiniteSet(Parts)
      <4>1. IsFiniteSet(0 .. 9)
        BY IntervalsFinite
      <4>2. Parts \subseteq 0 .. 9
        OBVIOUS
      <4>. HIDE DEF Parts
      <4>. QED
        BY <4>1, <4>2, FS_Subset
    <3>3. \A k \in Parts : k \in Int
      OBVIOUS
    <3>4. Max(Parts) \in Parts /\ \A k \in Parts : k <= Max(Parts)
      <4>. HIDE DEF Parts
      <4>. QED
        BY <3>1, <3>2, <3>3, MaxOf
    <3>. QED
      BY <2>1, <3>4
  <2>. HIDE DEF r
  <2>3. w \in Weights /\ w < 0 /\ w + 1 \in Weights
    BY <2>1, <2>2 DEF Weights
  <2>4. w = -550 + (i - 1) * 10 + r
    OBVIOUS
  <2>. HIDE DEF w
  <2>5. Sigmoid(w) = Interpolate(i, r)
    BY <1>3, <2>2, <2>3, <2>4, At
  <2>6. w \in Int
    BY <2>3 DEF Weights
  <2>7. q \in Int
    BY <1>1 DEF Probabilities
  <2>8. CASE r < 9
    <3>1. r + 1 \in 0 .. 9 /\ w + 1 = -550 + (i - 1) * 10 + (r + 1)
      BY <2>1, <2>2, <2>4, <2>6, <2>8
    <3>3. Sigmoid(w + 1) = Interpolate(i, r + 1)
      BY <1>3, <2>3, <3>1, At
    <3>4. ~(Interpolate(i, r + 1) <= q) /\ Interpolate(i, r + 1) \in Int
      <4>1. r + 1 \in 0 .. 9 /\ ~(r + 1 <= r)
        BY <2>2, <2>8
      <4>2. Interpolate(i, r + 1) \in Int
        BY <2>1, <4>1, Interpolated
      <4>. QED
        BY <2>2, <4>1, <4>2
    <3>. QED
      BY <1>2, <2>2, <2>3, <2>5, <2>7, <3>3, <3>4 DEF q, w
  <2>9. CASE r = 9
    <3>1. i + 1 \in 1 .. 56 /\ 0 \in 0 .. 9 /\ w + 1 = -550 + ((i + 1) - 1) * 10 + 0
      BY <2>1, <2>4, <2>6, <2>9
    <3>2. Sigmoid(w + 1) = Interpolate(i + 1, 0)
      BY <2>3, <3>1, At
    <3>3. Interpolate(i + 1, 0) = SigmoidTable[i + 1]
      BY DEF Interpolate
    <3>4. i + 1 \in 1 .. 56 /\ ~(i + 1 <= i)
      BY <2>1
    <3>5. SigmoidTable[i + 1] \in Int /\ ~(SigmoidTable[i + 1] <= q)
      BY <1>3, <3>4, Table
    <3>. QED
      BY <1>2, <2>2, <2>3, <2>5, <2>7, <3>2, <3>3, <3>5 DEF q, w
  <2>. QED
    BY <2>2, <2>8, <2>9
<1>. QED
  BY <1>4, <1>5

LEMMA LogitRange == ASSUME NEW p \in Int PROVE SafeLogit(p) \in Weights
BY LogitFound

(* A higher probability has no lower logit.                                *)
LEMMA LogitRises ==
    ASSUME NEW p \in Int, NEW q \in Int, p <= q
    PROVE  SafeLogit(p) <= SafeLogit(q)
<1>. DEFINE v == SafeLogit(p)
            w == SafeLogit(q)
<1>1. v \in Weights /\ w \in Weights
  BY LogitRange
<1>2. SUFFICES ASSUME w < v PROVE FALSE
  BY <1>1 DEF Weights
<1>3. ClipValue(p, 163, 20000) <= ClipValue(q, 163, 20000)
      /\ ClipValue(p, 163, 20000) \in Int /\ ClipValue(q, 163, 20000) \in Int
  BY Clipped
<1>4. w + 1 \in Weights /\ w < 0 /\ (w + 1 = v \/ w + 1 < v)
  BY <1>1, <1>2 DEF Weights
<1>5. Sigmoid(v) \in Int /\ Sigmoid(w + 1) \in Int
  BY <1>1, <1>4, SigmoidStep
<1>6. ClipValue(q, 163, 20000) < Sigmoid(w + 1)
  BY <1>4, LogitFound
<1>7. Sigmoid(v) <= ClipValue(p, 163, 20000)
  BY LogitFound
<1>8. Sigmoid(w + 1) <= Sigmoid(v)
  <2>. HIDE DEF v, w
  <2>1. CASE w + 1 = v
    BY <1>5, <2>1
  <2>2. CASE w + 1 < v
    BY <1>1, <1>4, <1>5, <2>2, SigmoidRises
  <2>. QED
    BY <1>4, <2>1, <2>2
<1>. HIDE DEF v, w
<1>. QED
  BY <1>3, <1>5, <1>6, <1>7, <1>8

(* The logit of a weight's sigmoid is that weight.                         *)
LEMMA LogitInverts ==
    ASSUME NEW w \in Weights
    PROVE  SafeLogit(Sigmoid(w)) = w
<1>. DEFINE v == SafeLogit(Sigmoid(w))
<1>1. Sigmoid(w) \in Probabilities
  BY SigmoidRange DEF Weights, Probabilities
<1>2. ClipValue(Sigmoid(w), 163, 20000) = Sigmoid(w)
  BY <1>1, Clipped DEF Probabilities
<1>3. v \in Weights /\ Sigmoid(v) <= Sigmoid(w) /\ (v < 0 => Sigmoid(w) < Sigmoid(v + 1))
  <2>1. Sigmoid(w) \in Int
    BY <1>1 DEF Probabilities
  <2>2. v \in Weights /\ Sigmoid(v) <= ClipValue(Sigmoid(w), 163, 20000)
        /\ (v < 0 => ClipValue(Sigmoid(w), 163, 20000) < Sigmoid(v + 1))
    BY <2>1, LogitFound
  <2>. QED
    BY <1>2, <2>2
<1>. HIDE DEF v
<1>4. ~(w < v)
  BY <1>3, SigmoidRises, SigmoidStep
<1>5. ~(v < w)
  <2>1. SUFFICES ASSUME v < w PROVE FALSE
    OBVIOUS
  <2>2. v + 1 \in Weights /\ v < 0 /\ (v + 1 = w \/ v + 1 < w)
    BY <1>3, <2>1 DEF Weights
  <2>3. Sigmoid(v + 1) \in Int /\ Sigmoid(w) \in Int
    BY <2>2, SigmoidStep
  <2>4. CASE v + 1 = w
    BY <1>3, <2>2, <2>3, <2>4
  <2>5. CASE v + 1 < w
    BY <1>3, <2>2, <2>3, <2>5, SigmoidRises
  <2>. QED
    BY <2>2, <2>4, <2>5
<1>. QED
  BY <1>3, <1>4, <1>5 DEF v, Weights

-----------------------------------------------------------------------------
(* Divisions round down                                                    *)

LEMMA Quotient ==
    ASSUME NEW a \in Int, NEW b \in Nat \ {0}
    PROVE  /\ a \div b \in Int
           /\ b * (a \div b) <= a
           /\ a < b * (a \div b) + b
OBVIOUS

(* What is no more than a fraction is no more than the quotient, and the   *)
(* other way round.                                                        *)
LEMMA QuotientBounds ==
    ASSUME NEW a \in Int, NEW b \in Nat \ {0}, NEW q \in Int
    PROVE  /\ b * q <= a => q <= a \div b
           /\ a < b * q + b => a \div b <= q
<1>. DEFINE d == a \div b
<1>1. d \in Int /\ b * d <= a /\ a < b * d + b
  BY Quotient
<1>. HIDE DEF d
<1>2. b * d \in Int /\ b * q \in Int
  BY <1>1
<1>3. ASSUME b * q <= a PROVE q <= d
  <2>1. SUFFICES ASSUME d + 1 <= q PROVE FALSE
    BY <1>1
  <2>2. b * (d + 1) <= b * q
    BY <1>1, <2>1
  <2>3. b * (d + 1) = b * d + b
    BY <1>1
  <2>. QED
    BY <1>1, <1>2, <1>3, <2>2, <2>3
<1>4. ASSUME a < b * q + b PROVE d <= q
  <2>1. SUFFICES ASSUME q + 1 <= d PROVE FALSE
    BY <1>1
  <2>2. b * (q + 1) <= b * d
    BY <1>1, <2>1
  <2>3. b * (q + 1) = b * q + b
    BY <1>1
  <2>. QED
    BY <1>1, <1>2, <1>4, <2>2, <2>3
<1>. QED
  BY <1>3, <1>4 DEF d

LEMMA QuotientRises ==
    ASSUME NEW a \in Int, NEW c \in Int, NEW b \in Nat \ {0}, a <= c
    PROVE  a \div b <= c \div b
<1>1. a \div b \in Int /\ b * (a \div b) <= a /\ b * (a \div b) \in Int
  BY Quotient
<1>2. b * (a \div b) <= c
  BY <1>1
<1>. QED
  BY <1>1, <1>2, QuotientBounds

-----------------------------------------------------------------------------
(* The statistic of a bucket                                               *)

(* One more digit of a square root: what is left to find shrinks from 32   *)
(* units to one.                                                           *)
LEMMA RootDigit ==
    ASSUME NEW n \in Nat, NEW root \in Nat, NEW unit \in Nat \ {0},
           root * root <= n, n < (root + 32 * unit) * (root + 32 * unit)
    PROVE  LET d == Max({e \in 0 .. 31 :
                            (root + unit * e) * (root + unit * e) <= n})
               next == root + unit * d
           IN /\ d \in 0 .. 31 /\ next \in Nat
              /\ next * next <= n
              /\ n < (next + unit) * (next + unit)
<1>. DEFINE Digits == {e \in 0 .. 31 : (root + unit * e) * (root + unit * e) <= n}
            d == Max(Digits)
            next == root + unit * d
<1>1. root + unit * 0 = root
  OBVIOUS
<1>2. 0 \in Digits
  BY <1>1
<1>3. IsFiniteSet(Digits)
  <2>1. IsFiniteSet(0 .. 31)
    BY IntervalsFinite
  <2>2. Digits \subseteq 0 .. 31
    OBVIOUS
  <2>. HIDE DEF Digits
  <2>. QED
    BY <2>1, <2>2, FS_Subset
<1>4. d \in Digits /\ \A e \in Digits : e <= d
  <2>1. \A e \in Digits : e \in Int
    OBVIOUS
  <2>. HIDE DEF Digits
  <2>. QED
    BY <1>2, <1>3, <2>1, MaxOf
<1>5. d \in 0 .. 31 /\ next * next <= n
  BY <1>4
<1>. HIDE DEF d
<1>6. unit * d \in Nat /\ unit * (d + 1) = unit * d + unit /\ next \in Nat
  BY <1>5
<1>7. CASE d = 31
  <2>1. unit * d + unit = 32 * unit
    BY <1>6, <1>7
  <2>2. next + unit = root + 32 * unit
    BY <1>6, <2>1
  <2>. QED
    BY <1>5, <1>6, <2>2 DEF d
<1>8. CASE d # 31
  <2>1. d + 1 \in 0 .. 31 /\ ~(d + 1 <= d)
    BY <1>5, <1>8
  <2>2. d + 1 \notin Digits
    BY <1>4, <2>1
  <2>3. ~((root + unit * (d + 1)) * (root + unit * (d + 1)) <= n)
    BY <2>1, <2>2
  <2>4. root + unit * (d + 1) = next + unit
    BY <1>6
  <2>5. ~((next + unit) * (next + unit) <= n)
    BY <2>3, <2>4, Zenon
  <2>6. (next + unit) * (next + unit) \in Nat
    BY <1>6
  <2>7. n < (next + unit) * (next + unit)
    BY <2>5, <2>6
  <2>. QED
    BY <1>5, <1>6, <2>7 DEF d
<1>. QED
  BY <1>7, <1>8

(* math.sqrt, rounded down.                                                *)
RootLimit == 1024 * 1024 * 1024

LEMMA RootFound ==
    ASSUME NEW n \in Nat, n < RootLimit
    PROVE  /\ ISqrt(n) \in Nat
           /\ ISqrt(n) * ISqrt(n) <= n
           /\ n < (ISqrt(n) + 1) * (ISqrt(n) + 1)
<1>. DEFINE Digit(root, unit) ==
                Max({d \in 0 .. 31 : (root + unit * d) * (root + unit * d) <= n})
            high == 1024 * Digit(0, 1024)
            middle == high + 32 * Digit(high, 32)
<1>1. ASSUME NEW root \in Nat, NEW unit \in Nat \ {0},
             root * root <= n, n < (root + 32 * unit) * (root + 32 * unit)
      PROVE  LET next == root + unit * Digit(root, unit)
             IN /\ Digit(root, unit) \in 0 .. 31 /\ next \in Nat
                /\ next * next <= n
                /\ n < (next + unit) * (next + unit)
  BY <1>1, RootDigit
<1>. HIDE DEF Digit
<1>2. /\ high \in Nat /\ high * high <= n
      /\ n < (high + 1024) * (high + 1024)
  <2>. DEFINE next == 0 + 1024 * Digit(0, 1024)
  <2>1. 0 * 0 <= n /\ n < (0 + 32 * 1024) * (0 + 32 * 1024)
    BY DEF RootLimit
  <2>2. 0 \in Nat /\ 1024 \in Nat \ {0}
    OBVIOUS
  <2>3. /\ Digit(0, 1024) \in 0 .. 31 /\ next \in Nat
        /\ next * next <= n
        /\ n < (next + 1024) * (next + 1024)
    BY <1>1, <2>1, <2>2
  <2>4. next = high
    BY <2>3
  <2>. HIDE DEF next, high
  <2>. QED
    BY <2>3, <2>4
<1>. HIDE DEF high
<1>3. /\ middle \in Nat /\ middle * middle <= n
      /\ n < (middle + 32) * (middle + 32)
  <2>1. 32 * 32 = 1024
    OBVIOUS
  <2>. QED
    BY <1>1, <1>2, <2>1
<1>. HIDE DEF middle
<1>4. /\ middle + 1 * Digit(middle, 1) \in Nat /\ Digit(middle, 1) \in 0 .. 31
      /\ (middle + 1 * Digit(middle, 1)) * (middle + 1 * Digit(middle, 1)) <= n
      /\ n < (middle + 1 * Digit(middle, 1) + 1) * (middle + 1 * Digit(middle, 1) + 1)
  <2>1. 32 * 1 = 32
    OBVIOUS
  <2>. QED
    BY <1>1, <1>3, <2>1
<1>5. middle + 1 * Digit(middle, 1) = middle + Digit(middle, 1)
  BY <1>3, <1>4
<1>6. ISqrt(n) = middle + Digit(middle, 1)
  BY Zenon DEF ISqrt, middle, high, Digit
<1>. QED
  BY <1>4, <1>5, <1>6

LEMMA OneIs == One = 40000
BY DEF One

LEMMA MeanRange ==
    ASSUME NEW prior \in Nat, prior <= One, NEW strength \in Nat \ {0},
           NEW impressions \in Nat, NEW clicks \in Nat, clicks <= impressions
    PROVE  PosteriorMean(prior, strength, impressions, clicks) \in 0 .. One
<1>. DEFINE a == prior * strength + clicks * One
            b == strength + impressions
<1>1. a \in Nat /\ b \in Nat \ {0}
  BY OneIs
<1>2. a <= b * One
  <2>1. prior * strength <= One * strength
    BY OneIs
  <2>2. clicks * One <= impressions * One
    BY OneIs
  <2>. QED
    BY <2>1, <2>2, OneIs
<1>. HIDE DEF a, b
<1>3. b * 0 <= a /\ a < b * One + b /\ One \in Int
  BY <1>1, <1>2, OneIs
<1>4. 0 <= a \div b /\ a \div b <= One /\ a \div b \in Int
  BY <1>1, <1>3, Quotient, QuotientBounds
<1>5. PosteriorMean(prior, strength, impressions, clicks) = a \div b
  BY DEF PosteriorMean, a, b
<1>6. a \div b \in 0 .. One
  <2>. HIDE DEF a, b
  <2>. QED
    BY <1>3, <1>4
<1>. QED
  BY <1>5, <1>6

LEMMA VarianceBound ==
    ASSUME NEW mean \in 0 .. One, NEW total \in Nat, total >= 100
    PROVE  BetaVariance(mean, total) \in Nat
           /\ 100 * BetaVariance(mean, total) < RootLimit
<1>. DEFINE a == mean * (One - mean)
            v == a \div (total + 1)
<1>1. mean \in Nat /\ One - mean \in Nat
  BY OneIs
<1>2. a \in Nat
  BY <1>1
<1>3. a <= 20000 * 20000
  <2>1. (mean - 20000) * (mean - 20000) >= 0
    BY <1>1
  <2>2. (mean - 20000) * (mean - 20000) = mean * mean - 40000 * mean + 20000 * 20000
    BY <1>1
  <2>3. a = 40000 * mean - mean * mean
    BY <1>1, OneIs
  <2>. QED
    BY <1>1, <2>1, <2>2, <2>3
<1>. HIDE DEF a
<1>4. v \in Int /\ (total + 1) * v <= a
  BY <1>2, Quotient
<1>5. 0 <= v
  BY <1>2, QuotientBounds
<1>. HIDE DEF v
<1>6. 100 * v <= (total + 1) * v
  BY <1>4, <1>5
<1>7. (total + 1) * v \in Int
  BY <1>4
<1>. QED
  BY <1>2, <1>3, <1>4, <1>5, <1>6, <1>7 DEF BetaVariance, v, a, RootLimit

LEMMA IntervalBounds ==
    ASSUME NEW mean \in 0 .. One, NEW variance \in Nat,
           100 * variance < RootLimit, NEW z \in Nat
    PROVE  LET interval == ClippedConfidenceInterval(mean, variance, z)
           IN /\ interval.low \in 0 .. mean
              /\ interval.high \in mean .. One
<1>. DEFINE margin == (z * ISqrt(100 * variance)) \div 10000
<1>1. ISqrt(100 * variance) \in Nat
  BY RootFound
<1>2. z * ISqrt(100 * variance) \in Nat
  BY <1>1
<1>3. margin \in Nat
  <2>. DEFINE n == z * ISqrt(100 * variance)
  <2>1. n \in Nat
    BY <1>2
  <2>. HIDE DEF n
  <2>2. n \div 10000 \in Nat
    BY <2>1
  <2>. QED
    BY <2>2 DEF n
<1>. HIDE DEF margin
<1>4. mean - margin \in Int /\ mean + margin \in Int /\ One \in Int /\ mean \in Int
  BY <1>3, OneIs
<1>5. Max({0, mean - margin}) \in 0 .. mean
  <2>1. Max({0, mean - margin}) = IF 0 >= mean - margin THEN 0 ELSE mean - margin
    BY <1>4, TwoExtremes
  <2>. QED
    BY <1>3, <1>4, <2>1
<1>6. Min({One, mean + margin}) \in mean .. One
  <2>1. Min({One, mean + margin})
            = IF One <= mean + margin THEN One ELSE mean + margin
    BY <1>4, TwoExtremes
  <2>. QED
    BY <1>3, <1>4, <2>1
<1>. QED
  BY <1>5, <1>6 DEF ClippedConfidenceInterval, margin

(* _recompute_bucket and initialize_bucket: whatever the counts, as long   *)
(* as the clicks are not ahead, the statistic is valid.                    *)
LEMMA StatisticValid ==
    ASSUME NEW impressions \in Nat, NEW clicks \in 0 .. impressions,
           NEW prior \in Probabilities, NEW strength \in Nat, strength >= 100
    PROVE  LET s == BucketStatistic(impressions, clicks, prior, strength)
           IN /\ ValidStatistic(s)
              /\ s.impressions = impressions /\ s.clicks = clicks /\ s.prior = prior
<1>. DEFINE ctr == PosteriorMean(prior, strength, impressions, clicks)
            variance == BetaVariance(ctr, strength + impressions)
            interval == ClippedConfidenceInterval(ctr, variance, TrustZScore)
            s == BucketStatistic(impressions, clicks, prior, strength)
<1>1. prior \in Nat /\ 0 < prior /\ prior < One
  BY OneIs DEF Probabilities
<1>2. ctr \in 0 .. One
  <2>1. strength \in Nat \ {0} /\ clicks \in Nat /\ clicks <= impressions
    OBVIOUS
  <2>2. prior <= One
    BY <1>1, OneIs
  <2>. QED
    BY <1>1, <2>1, <2>2, MeanRange
<1>. HIDE DEF ctr
<1>3. variance \in Nat /\ 100 * variance < RootLimit
  <2>1. strength + impressions \in Nat /\ strength + impressions >= 100
    OBVIOUS
  <2>. QED
    BY <1>2, <2>1, VarianceBound
<1>. HIDE DEF variance
<1>4. interval.low \in 0 .. ctr /\ interval.high \in ctr .. One
  BY <1>2, <1>3, IntervalBounds DEF TrustZScore
<1>. HIDE DEF interval
<1>5. /\ s.impressions = impressions /\ s.clicks = clicks /\ s.prior = prior
      /\ s.ctr = ctr /\ s.variance = variance
      /\ s.ciLow = interval.low /\ s.ciHigh = interval.high
  BY DEF BucketStatistic, ctr, variance, interval
<1>. HIDE DEF s
<1>6. s.ciLow \in 0 .. One /\ s.ciHigh \in s.ciLow .. One
  <2>1. interval.low \in 0 .. One /\ interval.high \in interval.low .. One
    <3>. DEFINE low == interval.low
                high == interval.high
    <3>1. low \in 0 .. ctr /\ high \in ctr .. One
      BY <1>4
    <3>. HIDE DEF low, high
    <3>2. One \in Int
      BY OneIs
    <3>3. low \in 0 .. One /\ high \in low .. One
      BY <1>2, <3>1, <3>2
    <3>. QED
      BY <3>3 DEF low, high
  <2>. QED
    BY <1>5, <2>1
<1>7. ValidStatistic(s)
  BY <1>1, <1>2, <1>3, <1>5, <1>6 DEF ValidStatistic
<1>. QED
  BY <1>5, <1>7 DEF s

-----------------------------------------------------------------------------
(* Models and the prior of a bucket                                        *)

(* What the model of every state is, beyond what ValidModel asks: its      *)
(* numbers are in the table's range and its families are finite.           *)
FamilyTyped(weights) ==
    /\ IsFiniteSet(DOMAIN weights)
    /\ \A f \in DOMAIN weights : weights[f] \in Int
    /\ CenteredFamily(weights)

ModelTyped(snapshot) ==
    /\ snapshot.w0 \in Weights
    /\ \A family \in Families : FamilyTyped(snapshot.weights[family])
    /\ snapshot.baselineCtr \in Probabilities
    /\ snapshot.strengths = Strengths

LEMMA TypedIsValid ==
    ASSUME NEW snapshot, ModelTyped(snapshot)
    PROVE  ValidModel(snapshot)
<1>1. 0 < snapshot.baselineCtr /\ snapshot.baselineCtr < One
  BY OneIs DEF ModelTyped, Probabilities
<1>2. \A name \in DOMAIN snapshot.strengths : snapshot.strengths[name] > 0
  BY DEF ModelTyped, Strengths
<1>. QED
  BY <1>1, <1>2 DEF ModelTyped, FamilyTyped, ValidModel

LEMMA FamiliesFinite == IsFiniteSet(Families)
<1>1. IsFiniteSet({"context"})
  BY FS_Singleton
<1>2. IsFiniteSet({"context"} \cup {"domain"})
  BY <1>1, FS_AddElement
<1>3. IsFiniteSet(({"context"} \cup {"domain"}) \cup {"ad"})
  BY <1>2, FS_AddElement
<1>4. Families = ({"context"} \cup {"domain"}) \cup {"ad"}
  BY DEF Families
<1>. QED
  BY <1>3, <1>4

(* The prior of any triplet is a probability, its values known or not.     *)
LEMMA PriorRange ==
    ASSUME NEW snapshot, ModelTyped(snapshot), NEW t, DOMAIN t = Families
    PROVE  PriorMean(snapshot, t) \in Probabilities
<1>. DEFINE part == [family \in DOMAIN t |->
                        IF t[family] \in DOMAIN snapshot.weights[family]
                        THEN snapshot.weights[family][t[family]] ELSE 0]
<1>1. \A family \in Families : part[family] \in Int
  BY DEF ModelTyped, FamilyTyped
<1>2. DOMAIN part = Families
  OBVIOUS
<1>3. PriorMean(snapshot, t) = Sigmoid(snapshot.w0 + SumFunction(part))
  BY Zenon DEF PriorMean
<1>. HIDE DEF part
<1>4. SumFunction(part) \in Int
  BY <1>1, <1>2, FamiliesFinite, SumInt DEF SumFunction
<1>5. snapshot.w0 + SumFunction(part) \in Int
  BY <1>4 DEF ModelTyped, Weights
<1>. QED
  BY <1>3, <1>5, SigmoidRange

-----------------------------------------------------------------------------
(* The seed dataset                                                        *)

LEMMA CenteredAtZero ==
    ASSUME NEW w, IsFiniteSet(DOMAIN w), DOMAIN w # {}, FamilySum(w) = 0
    PROVE  CenteredFamily(w)
<1>1. Cardinality(DOMAIN w) \in Nat /\ Cardinality(DOMAIN w) # 0
  BY FS_CardinalityType, FS_EmptySet
<1>. QED
  BY <1>1 DEF CenteredFamily

LEMMA SeedFamilies == \A family \in Families : FamilyTyped(SeedWeights[family])
<1>1. FamilyTyped(SeedWeights.ad)
  <2>. DEFINE w == SeedWeights.ad
  <2>1. /\ DOMAIN w = {"finance", "travel", "education",
                   "health", "gaming"}
        /\ w["finance"] = 18 /\ w["travel"] = 8 /\ w["education"] = 2
        /\ w["health"] = -6 /\ w["gaming"] = -22
    BY DEF SeedWeights
  <2>. HIDE DEF w
  <2>2. PICK S1 : S1 = {"gaming"} \cup {}
    OBVIOUS
  <2>3. IsFiniteSet(S1) /\ SumFunctionOnSet(w, S1) = -22
    <3>1. IsFiniteSet({}) /\ "gaming" \notin {} /\ \A x \in {} : w[x] \in Int
      BY FS_EmptySet
    <3>2. w["gaming"] = -22 /\ w["gaming"] \in Int
      BY <2>1
    <3>3. /\ IsFiniteSet(S1)
          /\ SumFunctionOnSet(w, S1) = w["gaming"] + SumFunctionOnSet(w, {})
      BY <2>2, <3>1, <3>2, SumWithFirst
    <3>. QED
      BY SumOfNone, <3>2, <3>3
  <2>4. PICK S2 : S2 = {"health"} \cup S1
    OBVIOUS
  <2>5. IsFiniteSet(S2) /\ SumFunctionOnSet(w, S2) = -28
    <3>1. "health" \notin S1 /\ \A x \in S1 : w[x] \in Int
      BY <2>1, <2>2
    <3>2. w["health"] = -6 /\ w["health"] \in Int
      BY <2>1
    <3>3. /\ IsFiniteSet(S2)
          /\ SumFunctionOnSet(w, S2) = w["health"] + SumFunctionOnSet(w, S1)
      BY <2>4, <2>3, <3>1, <3>2, SumWithFirst
    <3>. QED
      BY <2>3, <3>2, <3>3
  <2>6. PICK S3 : S3 = {"education"} \cup S2
    OBVIOUS
  <2>7. IsFiniteSet(S3) /\ SumFunctionOnSet(w, S3) = -26
    <3>1. "education" \notin S2 /\ \A x \in S2 : w[x] \in Int
      BY <2>1, <2>2, <2>4
    <3>2. w["education"] = 2 /\ w["education"] \in Int
      BY <2>1
    <3>3. /\ IsFiniteSet(S3)
          /\ SumFunctionOnSet(w, S3) = w["education"] + SumFunctionOnSet(w, S2)
      BY <2>6, <2>5, <3>1, <3>2, SumWithFirst
    <3>. QED
      BY <2>5, <3>2, <3>3
  <2>8. PICK S4 : S4 = {"travel"} \cup S3
    OBVIOUS
  <2>9. IsFiniteSet(S4) /\ SumFunctionOnSet(w, S4) = -18
    <3>1. "travel" \notin S3 /\ \A x \in S3 : w[x] \in Int
      BY <2>1, <2>2, <2>4, <2>6
    <3>2. w["travel"] = 8 /\ w["travel"] \in Int
      BY <2>1
    <3>3. /\ IsFiniteSet(S4)
          /\ SumFunctionOnSet(w, S4) = w["travel"] + SumFunctionOnSet(w, S3)
      BY <2>8, <2>7, <3>1, <3>2, SumWithFirst
    <3>. QED
      BY <2>7, <3>2, <3>3
  <2>10. PICK S5 : S5 = {"finance"} \cup S4
    OBVIOUS
  <2>11. IsFiniteSet(S5) /\ SumFunctionOnSet(w, S5) = 0
    <3>1. "finance" \notin S4 /\ \A x \in S4 : w[x] \in Int
      BY <2>1, <2>2, <2>4, <2>6, <2>8
    <3>2. w["finance"] = 18 /\ w["finance"] \in Int
      BY <2>1
    <3>3. /\ IsFiniteSet(S5)
          /\ SumFunctionOnSet(w, S5) = w["finance"] + SumFunctionOnSet(w, S4)
      BY <2>10, <2>9, <3>1, <3>2, SumWithFirst
    <3>. QED
      BY <2>9, <3>2, <3>3
  <2>12. DOMAIN w = S5 /\ \A x \in S5 : w[x] \in Int
    BY <2>1, <2>2, <2>4, <2>6, <2>8, <2>10
  <2>13. S5 # {}
    BY <2>10
  <2>14. CenteredFamily(w)
    BY <2>11, <2>12, <2>13, CenteredAtZero DEF FamilySum, SumFunction
  <2>. QED
    BY <2>11, <2>12, <2>14 DEF FamilyTyped, w
<1>2. FamilyTyped(SeedWeights.context)
  <2>. DEFINE w == SeedWeights.context
  <2>1. /\ DOMAIN w = {"personal_finance", "trip_planning", "online_learning",
                   "wellness", "gaming"}
        /\ w["personal_finance"] = 16 /\ w["trip_planning"] = 9 /\ w["online_learning"] = 2
        /\ w["wellness"] = -4 /\ w["gaming"] = -23
    BY DEF SeedWeights
  <2>. HIDE DEF w
  <2>2. PICK S1 : S1 = {"gaming"} \cup {}
    OBVIOUS
  <2>3. IsFiniteSet(S1) /\ SumFunctionOnSet(w, S1) = -23
    <3>1. IsFiniteSet({}) /\ "gaming" \notin {} /\ \A x \in {} : w[x] \in Int
      BY FS_EmptySet
    <3>2. w["gaming"] = -23 /\ w["gaming"] \in Int
      BY <2>1
    <3>3. /\ IsFiniteSet(S1)
          /\ SumFunctionOnSet(w, S1) = w["gaming"] + SumFunctionOnSet(w, {})
      BY <2>2, <3>1, <3>2, SumWithFirst
    <3>. QED
      BY SumOfNone, <3>2, <3>3
  <2>4. PICK S2 : S2 = {"wellness"} \cup S1
    OBVIOUS
  <2>5. IsFiniteSet(S2) /\ SumFunctionOnSet(w, S2) = -27
    <3>1. "wellness" \notin S1 /\ \A x \in S1 : w[x] \in Int
      BY <2>1, <2>2
    <3>2. w["wellness"] = -4 /\ w["wellness"] \in Int
      BY <2>1
    <3>3. /\ IsFiniteSet(S2)
          /\ SumFunctionOnSet(w, S2) = w["wellness"] + SumFunctionOnSet(w, S1)
      BY <2>4, <2>3, <3>1, <3>2, SumWithFirst
    <3>. QED
      BY <2>3, <3>2, <3>3
  <2>6. PICK S3 : S3 = {"online_learning"} \cup S2
    OBVIOUS
  <2>7. IsFiniteSet(S3) /\ SumFunctionOnSet(w, S3) = -25
    <3>1. "online_learning" \notin S2 /\ \A x \in S2 : w[x] \in Int
      BY <2>1, <2>2, <2>4
    <3>2. w["online_learning"] = 2 /\ w["online_learning"] \in Int
      BY <2>1
    <3>3. /\ IsFiniteSet(S3)
          /\ SumFunctionOnSet(w, S3) = w["online_learning"] + SumFunctionOnSet(w, S2)
      BY <2>6, <2>5, <3>1, <3>2, SumWithFirst
    <3>. QED
      BY <2>5, <3>2, <3>3
  <2>8. PICK S4 : S4 = {"trip_planning"} \cup S3
    OBVIOUS
  <2>9. IsFiniteSet(S4) /\ SumFunctionOnSet(w, S4) = -16
    <3>1. "trip_planning" \notin S3 /\ \A x \in S3 : w[x] \in Int
      BY <2>1, <2>2, <2>4, <2>6
    <3>2. w["trip_planning"] = 9 /\ w["trip_planning"] \in Int
      BY <2>1
    <3>3. /\ IsFiniteSet(S4)
          /\ SumFunctionOnSet(w, S4) = w["trip_planning"] + SumFunctionOnSet(w, S3)
      BY <2>8, <2>7, <3>1, <3>2, SumWithFirst
    <3>. QED
      BY <2>7, <3>2, <3>3
  <2>10. PICK S5 : S5 = {"personal_finance"} \cup S4
    OBVIOUS
  <2>11. IsFiniteSet(S5) /\ SumFunctionOnSet(w, S5) = 0
    <3>1. "personal_finance" \notin S4 /\ \A x \in S4 : w[x] \in Int
      BY <2>1, <2>2, <2>4, <2>6, <2>8
    <3>2. w["personal_finance"] = 16 /\ w["personal_finance"] \in Int
      BY <2>1
    <3>3. /\ IsFiniteSet(S5)
          /\ SumFunctionOnSet(w, S5) = w["personal_finance"] + SumFunctionOnSet(w, S4)
      BY <2>10, <2>9, <3>1, <3>2, SumWithFirst
    <3>. QED
      BY <2>9, <3>2, <3>3
  <2>12. DOMAIN w = S5 /\ \A x \in S5 : w[x] \in Int
    BY <2>1, <2>2, <2>4, <2>6, <2>8, <2>10
  <2>13. S5 # {}
    BY <2>10
  <2>14. CenteredFamily(w)
    BY <2>11, <2>12, <2>13, CenteredAtZero DEF FamilySum, SumFunction
  <2>. QED
    BY <2>11, <2>12, <2>14 DEF FamilyTyped, w
<1>3. FamilyTyped(SeedWeights.domain)
  <2>. DEFINE w == SeedWeights.domain
  <2>1. Range(PublisherDomains)
            = {"news.example", "tech.example", "lifestyle.example", "sports.example"}
    <3>1. DOMAIN PublisherDomains = 1 .. 4
      BY DEF PublisherDomains
    <3>2. /\ PublisherDomains[1] = "news.example"
          /\ PublisherDomains[2] = "tech.example"
          /\ PublisherDomains[3] = "lifestyle.example"
          /\ PublisherDomains[4] = "sports.example"
      BY DEF PublisherDomains
    <3>3. \A i \in 1 .. 4 : i = 1 \/ i = 2 \/ i = 3 \/ i = 4
      OBVIOUS
    <3>. QED
      BY <3>1, <3>2, <3>3 DEF Range
  <2>2. /\ DOMAIN w = {"news.example", "tech.example", "lifestyle.example",
                   "sports.example"}
        /\ w["news.example"] = 5 /\ w["tech.example"] = 12 /\ w["lifestyle.example"] = -3
        /\ w["sports.example"] = -14
    BY <2>1 DEF SeedWeights
  <2>. HIDE DEF w
  <2>3. PICK S1 : S1 = {"sports.example"} \cup {}
    OBVIOUS
  <2>4. IsFiniteSet(S1) /\ SumFunctionOnSet(w, S1) = -14
    <3>1. IsFiniteSet({}) /\ "sports.example" \notin {} /\ \A x \in {} : w[x] \in Int
      BY FS_EmptySet
    <3>2. w["sports.example"] = -14 /\ w["sports.example"] \in Int
      BY <2>2
    <3>3. /\ IsFiniteSet(S1)
          /\ SumFunctionOnSet(w, S1) = w["sports.example"] + SumFunctionOnSet(w, {})
      BY <2>3, <3>1, <3>2, SumWithFirst
    <3>. QED
      BY SumOfNone, <3>2, <3>3
  <2>5. PICK S2 : S2 = {"lifestyle.example"} \cup S1
    OBVIOUS
  <2>6. IsFiniteSet(S2) /\ SumFunctionOnSet(w, S2) = -17
    <3>1. "lifestyle.example" \notin S1 /\ \A x \in S1 : w[x] \in Int
      BY <2>2, <2>3
    <3>2. w["lifestyle.example"] = -3 /\ w["lifestyle.example"] \in Int
      BY <2>2
    <3>3. /\ IsFiniteSet(S2)
          /\ SumFunctionOnSet(w, S2) = w["lifestyle.example"] + SumFunctionOnSet(w, S1)
      BY <2>5, <2>4, <3>1, <3>2, SumWithFirst
    <3>. QED
      BY <2>4, <3>2, <3>3
  <2>7. PICK S3 : S3 = {"tech.example"} \cup S2
    OBVIOUS
  <2>8. IsFiniteSet(S3) /\ SumFunctionOnSet(w, S3) = -5
    <3>1. "tech.example" \notin S2 /\ \A x \in S2 : w[x] \in Int
      BY <2>2, <2>3, <2>5
    <3>2. w["tech.example"] = 12 /\ w["tech.example"] \in Int
      BY <2>2
    <3>3. /\ IsFiniteSet(S3)
          /\ SumFunctionOnSet(w, S3) = w["tech.example"] + SumFunctionOnSet(w, S2)
      BY <2>7, <2>6, <3>1, <3>2, SumWithFirst
    <3>. QED
      BY <2>6, <3>2, <3>3
  <2>9. PICK S4 : S4 = {"news.example"} \cup S3
    OBVIOUS
  <2>10. IsFiniteSet(S4) /\ SumFunctionOnSet(w, S4) = 0
    <3>1. "news.example" \notin S3 /\ \A x \in S3 : w[x] \in Int
      BY <2>2, <2>3, <2>5, <2>7
    <3>2. w["news.example"] = 5 /\ w["news.example"] \in Int
      BY <2>2
    <3>3. /\ IsFiniteSet(S4)
          /\ SumFunctionOnSet(w, S4) = w["news.example"] + SumFunctionOnSet(w, S3)
      BY <2>9, <2>8, <3>1, <3>2, SumWithFirst
    <3>. QED
      BY <2>8, <3>2, <3>3
  <2>11. DOMAIN w = S4 /\ \A x \in S4 : w[x] \in Int
    BY <2>2, <2>3, <2>5, <2>7, <2>9
  <2>12. S4 # {}
    BY <2>9
  <2>13. CenteredFamily(w)
    BY <2>10, <2>11, <2>12, CenteredAtZero DEF FamilySum, SumFunction
  <2>. QED
    BY <2>10, <2>11, <2>13 DEF FamilyTyped, w
<1>. QED
  BY <1>1, <1>2, <1>3 DEF Families

LEMMA SeedModelTyped == ModelTyped(SeedModel(BaselineCtr, Strengths))
<1>1. BaselineCtr \in Probabilities
  BY OneIs DEF BaselineCtr, Probabilities
<1>2. SafeLogit(BaselineCtr) \in Weights
  BY <1>1, LogitRange DEF Probabilities
<1>. QED
  BY <1>1, <1>2, SeedFamilies DEF ModelTyped, SeedModel

LEMMA CategoryCounts ==
    /\ Len(AdCategories) = 5 /\ Len(PublisherDomains) = 4
    /\ Len(ConversationCategories) = 5
BY DEF AdCategories, PublisherDomains, ConversationCategories

LEMMA PlacesAreFinite == IsFiniteSet(Places) /\ \A k \in Places : k \in Nat \ {0}
<1>1. PICK n \in Int : n = Len(AdCategories) * Len(PublisherDomains)
                               * Len(ConversationCategories)
  BY CategoryCounts
<1>2. Places = 1 .. n
  BY <1>1 DEF Places
<1>3. IsFiniteSet(1 .. n)
  BY FS_Interval
<1>. QED
  BY <1>2, <1>3

LEMMA SeedCounts ==
    ASSUME NEW k \in Places, NEW prior \in Probabilities
    PROVE  /\ SeedImpressions(k) \in Nat
           /\ SeedClicks(k, prior) \in 0 .. SeedImpressions(k)
<1>1. k - 1 \in Nat
  BY PlacesAreFinite
<1>2. AdIndex(k) \in Nat /\ DomainIndex(k) \in Nat /\ ContextIndex(k) \in Nat
  BY <1>1, CategoryCounts DEF AdIndex, DomainIndex, ContextIndex
<1>3. SeedImpressions(k) \in Nat
  <2>1. (AdIndex(k) + DomainIndex(k) + ContextIndex(k)) % 5 \in Nat
    BY <1>2
  <2>. QED
    BY <1>2, <2>1 DEF SeedImpressions
<1>. DEFINE expected == (SeedImpressions(k) * prior + One \div 2) \div One
            adjustment == ((2 * AdIndex(k) + DomainIndex(k) + ContextIndex(k)) % 3) - 1
<1>4. expected \in Int
  <2>1. SeedImpressions(k) * prior + One \div 2 \in Int /\ One \in Nat \ {0}
    BY <1>3, OneIs DEF Probabilities
  <2>. QED
    BY <2>1, Quotient
<1>5. adjustment \in Int
  BY <1>2
<1>. HIDE DEF expected, adjustment
<1>6. ClipValue(expected + adjustment, 0, SeedImpressions(k)) \in 0 .. SeedImpressions(k)
  BY <1>3, <1>4, <1>5, Clipped
<1>. QED
  BY <1>3, <1>6 DEF SeedClicks, expected, adjustment

(* What the keys of Redis are: statistics of triplets that validate, each  *)
(* with a prior the logistic curve can have.                               *)
BucketsTyped(dictionary) ==
    /\ IsFiniteSet(DOMAIN dictionary)
    /\ \A t \in DOMAIN dictionary :
          /\ DOMAIN t = Families
          /\ ValidStatistic(dictionary[t])
          /\ dictionary[t].prior \in Probabilities

LEMMA StrengthsAre ==
    /\ Strengths.triplet \in Nat /\ Strengths.triplet >= 100
    /\ Strengths.global \in Nat /\ Strengths.global >= 100
    /\ \A family \in Families :
          Strengths[family] \in Nat /\ Strengths[family] >= 100
BY DEF Strengths, Families

LEMMA SeedBucketsTyped ==
    ASSUME NEW places, places \subseteq Places, NEW snapshot, ModelTyped(snapshot)
    PROVE  BucketsTyped(SeedBuckets(snapshot, places))
<1>. DEFINE Bucket(k) ==
                BucketStatistic(SeedImpressions(k),
                                SeedClicks(k, PriorMean(snapshot, TripletAt(k))),
                                PriorMean(snapshot, TripletAt(k)),
                                snapshot.strengths.triplet)
            D == {TripletAt(k) : k \in places}
            place == [t \in D |-> CHOOSE k \in places : TripletAt(k) = t]
            b == SeedBuckets(snapshot, places)
<1>1. b = [t \in D |-> Bucket(place[t])]
  BY Zenon DEF SeedBuckets
<1>2. IsFiniteSet(D)
  <2>. DEFINE f == [k \in places |-> TripletAt(k)]
  <2>1. IsFiniteSet(places)
    BY PlacesAreFinite, FS_Subset
  <2>2. D = {f[k] : k \in places}
    OBVIOUS
  <2>. HIDE DEF f, D
  <2>. QED
    BY <2>1, <2>2, FiniteImage
<1>3. ASSUME NEW t \in D
      PROVE  /\ DOMAIN t = Families /\ ValidStatistic(b[t])
             /\ b[t].prior \in Probabilities
  <2>1. PICK k \in places : k = place[t] /\ TripletAt(k) = t
    BY <1>3
  <2>2. DOMAIN t = Families
    BY <2>1 DEF TripletAt, Families
  <2>3. PICK prior : prior = PriorMean(snapshot, TripletAt(k))
    OBVIOUS
  <2>4. prior \in Probabilities
    BY <2>1, <2>2, <2>3, PriorRange
  <2>5. SeedImpressions(k) \in Nat /\ SeedClicks(k, prior) \in 0 .. SeedImpressions(k)
    BY <2>4, SeedCounts
  <2>6. snapshot.strengths.triplet \in Nat /\ snapshot.strengths.triplet >= 100
    BY StrengthsAre DEF ModelTyped
  <2>7. PICK s : s = BucketStatistic(SeedImpressions(k), SeedClicks(k, prior), prior,
                                     snapshot.strengths.triplet)
    OBVIOUS
  <2>8. ValidStatistic(s) /\ s.prior = prior
    BY <2>4, <2>5, <2>6, <2>7, StatisticValid
  <2>9. b[t] = s
    <3>1. b[t] = Bucket(place[t])
      <4>. HIDE DEF b, place, D, Bucket
      <4>. QED
        BY <1>1
    <3>2. Bucket(k) = s
      BY <2>3, <2>7
    <3>. HIDE DEF b, place, D, Bucket
    <3>. QED
      BY <2>1, <3>1, <3>2
  <2>. QED
    BY <2>2, <2>4, <2>8, <2>9
<1>4. DOMAIN b = D
  <2>. HIDE DEF b, place, D, Bucket
  <2>. QED
    BY <1>1
<1>. HIDE DEF b, D
<1>5. BucketsTyped(b)
  BY <1>2, <1>3, <1>4 DEF BucketsTyped
<1>. QED
  BY <1>5 DEF b

-----------------------------------------------------------------------------
(* Evidence                                                                *)

EvidenceTyped(evidence) ==
    /\ IsFiniteSet(DOMAIN evidence.buckets)
    /\ \A t \in DOMAIN evidence.buckets :
          /\ evidence.visits[t] \in Nat \ {0}
          /\ evidence.buckets[t].impressions \in Nat
          /\ evidence.buckets[t].clicks \in Nat

TotalTyped(total) ==
    total.impressions \in Nat /\ total.clicks \in 0 .. total.impressions

(* No total of usable statistics has more clicks than impressions, however *)
(* often each was read.                                                    *)
LEMMA TotalsTyped ==
    ASSUME NEW evidence, EvidenceTyped(evidence),
           NEW S, S \subseteq Usable(evidence)
    PROVE  /\ TotalTyped(Totals(evidence, S))
           /\ S # {} => Totals(evidence, S).impressions >= 1
<1>. DEFINE i == [t \in S |-> evidence.visits[t] * evidence.buckets[t].impressions]
            c == [t \in S |-> evidence.visits[t] * evidence.buckets[t].clicks]
            zero == [t \in S |-> 0]
<1>1. IsFiniteSet(S)
  BY FS_Subset DEF EvidenceTyped, Usable
<1>2. ASSUME NEW t \in S
      PROVE  /\ c[t] \in Nat /\ i[t] \in Nat /\ c[t] <= i[t] /\ i[t] >= 1
             /\ zero[t] = 0
  <2>1. PICK n, impressions, clicks :
            /\ n = evidence.visits[t]
            /\ impressions = evidence.buckets[t].impressions
            /\ clicks = evidence.buckets[t].clicks
    OBVIOUS
  <2>2. /\ n \in Nat \ {0} /\ impressions \in Nat \ {0} /\ clicks \in Nat
        /\ clicks <= impressions
    BY <2>1 DEF EvidenceTyped, Usable
  <2>3. /\ n * clicks \in Nat /\ n * impressions \in Nat
        /\ n * clicks <= n * impressions /\ n * impressions >= 1
    BY <2>2
  <2>. QED
    BY <2>1, <2>3
<1>3. Totals(evidence, S)
          = [impressions |-> SumFunctionOnSet(i, S), clicks |-> SumFunctionOnSet(c, S)]
  <2>1. DOMAIN i = S /\ DOMAIN c = S
    OBVIOUS
  <2>2. Totals(evidence, S)
            = [impressions |-> SumFunctionOnSet(i, DOMAIN i),
               clicks |-> SumFunctionOnSet(c, DOMAIN c)]
    BY Zenon DEF Totals, SumFunction
  <2>. QED
    BY <2>1, <2>2, Zenon
<1>. HIDE DEF i, c, zero
<1>4. SumFunctionOnSet(i, S) \in Int /\ SumFunctionOnSet(c, S) \in Int
  BY <1>1, <1>2, SumInt
<1>5. SumFunctionOnSet(c, S) <= SumFunctionOnSet(i, S)
  BY <1>1, <1>2, SumMonotonic
<1>6. SumFunctionOnSet(zero, S) = 0
  <2>1. SumFunctionOnSet(zero, S) = 0 * Cardinality(S)
    BY <1>1, <1>2, SumOfEqual
  <2>. QED
    BY <1>1, <2>1, FS_CardinalityType
<1>7. 0 <= SumFunctionOnSet(c, S)
  <2>1. SumFunctionOnSet(zero, S) <= SumFunctionOnSet(c, S)
    BY <1>1, <1>2, SumMonotonic
  <2>. QED
    BY <1>6, <2>1
<1>8. ASSUME S # {} PROVE SumFunctionOnSet(i, S) >= 1
  <2>1. PICK t \in S : TRUE
    BY <1>8
  <2>. DEFINE R == S \ {t}
  <2>2. SumFunctionOnSet(i, S) = i[t] + SumFunctionOnSet(i, R)
    BY <1>1, <1>2, SumSplit
  <2>3. IsFiniteSet(R) /\ R \subseteq S
    BY <1>1, FS_Subset
  <2>. HIDE DEF R
  <2>4. SumFunctionOnSet(zero, R) <= SumFunctionOnSet(i, R)
    BY <1>2, <2>3, SumMonotonic
  <2>5. SumFunctionOnSet(zero, R) = 0 * Cardinality(R)
    BY <1>2, <2>3, SumOfEqual
  <2>6. SumFunctionOnSet(zero, R) = 0
    BY <2>3, <2>5, FS_CardinalityType
  <2>7. SumFunctionOnSet(i, R) \in Int
    BY <1>2, <2>3, SumInt
  <2>8. i[t] >= 1 /\ i[t] \in Int
    BY <1>2
  <2>. QED
    BY <2>2, <2>4, <2>6, <2>7, <2>8
<1>. QED
  BY <1>3, <1>4, <1>5, <1>7, <1>8 DEF TotalTyped

LEMMA FeaturesTyped ==
    ASSUME NEW evidence, EvidenceTyped(evidence), NEW family
    PROVE  LET total == FeatureBuckets(evidence, family)
           IN /\ IsFiniteSet(DOMAIN total)
              /\ \A f \in DOMAIN total :
                    TotalTyped(total[f]) /\ total[f].impressions >= 1
<1>. DEFINE F == {t[family] : t \in Usable(evidence)}
            Those(f) == {t \in Usable(evidence) : t[family] = f}
            total == FeatureBuckets(evidence, family)
<1>1. total = [f \in F |-> Totals(evidence, Those(f))]
  BY Zenon DEF FeatureBuckets
<1>2. IsFiniteSet(F)
  <2>. DEFINE g == [t \in Usable(evidence) |-> t[family]]
  <2>1. IsFiniteSet(Usable(evidence))
    BY FS_Subset DEF EvidenceTyped, Usable
  <2>2. F = {g[t] : t \in Usable(evidence)}
    OBVIOUS
  <2>. HIDE DEF F, g
  <2>. QED
    BY <2>1, <2>2, FiniteImage
<1>3. ASSUME NEW f \in F
      PROVE  TotalTyped(Totals(evidence, Those(f)))
             /\ Totals(evidence, Those(f)).impressions >= 1
  <2>1. Those(f) \subseteq Usable(evidence) /\ Those(f) # {}
    OBVIOUS
  <2>. HIDE DEF Those
  <2>. QED
    BY <2>1, TotalsTyped
<1>. HIDE DEF total, F, Those
<1>4. DOMAIN total = F /\ \A f \in F : total[f] = Totals(evidence, Those(f))
  BY <1>1
<1>. QED
  BY <1>2, <1>3, <1>4 DEF total

-----------------------------------------------------------------------------
(* The posterior                                                           *)

(* Between the prior and the observed rate.                                *)
LEMMA MeanBetween ==
    ASSUME NEW prior \in Nat, NEW strength \in Nat \ {0}, NEW total, TotalTyped(total)
    PROVE  LET mean == PosteriorMean(prior, strength, total.impressions, total.clicks)
               rate == (total.clicks * One) \div Max({1, total.impressions})
           IN /\ mean \in Int /\ rate \in Int
              /\ (prior <= mean \/ rate <= mean)
              /\ (mean <= prior \/ mean <= rate)
<1>. DEFINE i == total.impressions
            c == total.clicks
            n == Max({1, i})
            a == prior * strength + c * One
            b == strength + i
            mean == a \div b
            rate == (c * One) \div n
<1>1. i \in Nat /\ c \in Nat /\ c <= i /\ (i = 0 => c = 0)
  BY DEF TotalTyped
<1>2. n = (IF 1 >= i THEN 1 ELSE i)
  BY <1>1, TwoExtremes
<1>3. /\ PosteriorMean(prior, strength, total.impressions, total.clicks) = mean
      /\ (total.clicks * One) \div Max({1, total.impressions}) = rate
  BY DEF PosteriorMean
<1>. HIDE DEF i, c
<1>4. n \in Nat \ {0} /\ (i # 0 => n = i) /\ (i = 0 => n = 1)
  BY <1>1, <1>2
<1>. HIDE DEF n
<1>5. c * One \in Nat /\ prior * strength \in Nat /\ a \in Nat /\ b \in Nat \ {0}
  BY <1>1, OneIs
<1>6. rate \in Int /\ n * rate <= c * One /\ c * One < n * rate + n
  <2>1. \A p \in Int : /\ p \div n \in Int /\ n * (p \div n) <= p
                        /\ p < n * (p \div n) + n
    BY <1>4, Quotient
  <2>2. c * One \in Int
    BY <1>5
  <2>. QED
    BY <2>1, <2>2
<1>7. mean \in Int
  BY <1>5, Quotient
<1>. HIDE DEF rate, mean
<1>8. i * rate <= c * One /\ (c * One < i * rate + i \/ (i = 0 /\ c * One = 0))
  <2>1. CASE i = 0
    <3>1. i * rate = 0 /\ c * One = 0
      BY <1>1, <1>6, <2>1, OneIs
    <3>. QED
      BY <2>1, <3>1
  <2>2. CASE i # 0
    <3>1. n = i
      BY <1>4, <2>2
    <3>. QED
      BY <1>1, <1>5, <1>6, <3>1
  <2>. QED
    BY <2>1, <2>2
<1>9. ASSUME NEW m \in Int, m <= prior, m <= rate
      PROVE  m <= mean
  <2>1. strength * m <= strength * prior
    BY <1>9
  <2>2. i * m <= i * rate
    BY <1>1, <1>6, <1>9
  <2>3. strength * m + i * m <= prior * strength + c * One
    <3>1. /\ strength * m \in Int /\ i * m \in Int /\ i * rate \in Int
          /\ strength * prior = prior * strength
      BY <1>1, <1>6, <1>9
    <3>. QED
      BY <1>5, <1>8, <2>1, <2>2, <3>1
  <2>4. b * m = strength * m + i * m
    BY <1>1, <1>9
  <2>5. b * m <= a
    BY <2>3, <2>4
  <2>. HIDE DEF a, b
  <2>. QED
    BY <1>5, <1>9, <2>5, QuotientBounds DEF mean
<1>10. ASSUME NEW m \in Int, prior <= m, rate <= m
       PROVE  mean <= m
  <2>1. strength * prior <= strength * m
    BY <1>10
  <2>2. i * rate <= i * m
    BY <1>1, <1>6, <1>10
  <2>3. prior * strength + c * One < (strength * m + i * m) + (strength + i)
    <3>1. /\ strength * m \in Int /\ i * m \in Int /\ i * rate \in Int
          /\ strength * prior = prior * strength
      BY <1>1, <1>6, <1>10
    <3>. QED
      BY <1>1, <1>5, <1>8, <2>1, <2>2, <3>1
  <2>4. b * m + b = (strength * m + i * m) + (strength + i)
    BY <1>1, <1>10
  <2>5. a < b * m + b
    BY <2>3, <2>4
  <2>. HIDE DEF a, b
  <2>. QED
    BY <1>5, <1>10, <2>5, QuotientBounds DEF mean
<1>11. prior <= mean \/ rate <= mean
  <2>1. CASE prior <= rate
    BY <1>6, <1>9, <2>1
  <2>2. CASE rate <= prior
    BY <1>6, <1>9, <2>2
  <2>. QED
    BY <1>6, <2>1, <2>2
<1>12. mean <= prior \/ mean <= rate
  <2>1. CASE prior <= rate
    BY <1>6, <1>10, <2>1
  <2>2. CASE rate <= prior
    BY <1>6, <1>10, <2>2
  <2>. QED
    BY <1>6, <2>1, <2>2
<1>. QED
  BY <1>3, <1>6, <1>7, <1>11, <1>12

(* More clicks do not lower it.                                            *)
LEMMA MeanRises ==
    ASSUME NEW prior \in Nat, NEW strength \in Nat \ {0}, NEW impressions \in Nat,
           NEW few \in Nat, NEW many \in Nat, few <= many
    PROVE  /\ PosteriorMean(prior, strength, impressions, few) \in Int
           /\ PosteriorMean(prior, strength, impressions, many) \in Int
           /\ PosteriorMean(prior, strength, impressions, few)
                  <= PosteriorMean(prior, strength, impressions, many)
<1>. DEFINE a == prior * strength + few * One
            c == prior * strength + many * One
            b == strength + impressions
<1>1. a \in Int /\ c \in Int /\ a <= c /\ b \in Nat \ {0}
  BY OneIs
<1>. HIDE DEF a, b, c
<1>2. a \div b \in Int /\ c \div b \in Int /\ a \div b <= c \div b
  BY <1>1, Quotient, QuotientRises
<1>. QED
  BY <1>2 DEF PosteriorMean, a, b, c

-----------------------------------------------------------------------------
(* A family of weights                                                     *)

LEMMA AbsOf == ASSUME NEW n \in Int PROVE Abs(n) = IF n >= 0 THEN n ELSE -n
<1>1. Max({n, -n}) = IF n >= -n THEN n ELSE -n
  BY TwoExtremes
<1>. QED
  BY <1>1 DEF Abs

(* _center_family: whatever the weights were, what is left of their sum is *)
(* less than one unit for each.                                            *)
LEMMA Centred ==
    ASSUME NEW w, IsFiniteSet(DOMAIN w), DOMAIN w # {},
           \A f \in DOMAIN w : w[f] \in Int, NEW seen
    PROVE  LET c == CenterFamily(w, seen)
               n == Cardinality(DOMAIN w)
           IN /\ FamilyTyped(c) /\ DOMAIN c = DOMAIN w
              /\ n \in Nat \ {0}
              /\ \E mean \in Int :
                    /\ \A f \in DOMAIN w : c[f] = w[f] - mean
                    /\ n * mean <= SumFunctionOnSet(w, DOMAIN w)
                    /\ SumFunctionOnSet(w, DOMAIN w) < n * mean + n
<1>. DEFINE D == DOMAIN w
            n == Cardinality(D)
            S == SumFunctionOnSet(w, D)
            mean == S \div n
            c == CenterFamily(w, seen)
            shift == [f \in D |-> -mean]
<1>1. n \in Nat \ {0}
  BY FS_CardinalityType, FS_EmptySet
<1>2. S \in Int
  BY SumInt
<1>3. c = [f \in D |-> w[f] - mean]
  BY Zenon DEF CenterFamily, FamilySum, SumFunction
<1>. HIDE DEF n, S, c
<1>4. mean \in Int /\ n * mean <= S /\ S < n * mean + n
  BY <1>1, <1>2, Quotient
<1>. HIDE DEF mean
<1>5. DOMAIN c = D /\ \A f \in D : c[f] = w[f] - mean /\ c[f] \in Int
  BY <1>3, <1>4
<1>6. SumFunctionOnSet(c, D) = S + (-mean) * n
  <2>1. \A f \in D : w[f] \in Int /\ shift[f] \in Int /\ c[f] = w[f] + shift[f]
    BY <1>4, <1>5
  <2>2. -mean \in Int /\ \A f \in D : shift[f] = -mean
    BY <1>4
  <2>. HIDE DEF shift
  <2>3. SumFunctionOnSet(c, D) = SumFunctionOnSet(w, D) + SumFunctionOnSet(shift, D)
    BY <2>1, SumPlus
  <2>4. SumFunctionOnSet(shift, D) = (-mean) * Cardinality(D)
    BY <2>2, SumOfEqual
  <2>. QED
    BY <2>3, <2>4 DEF S, n
<1>7. (-mean) * n = -(n * mean) /\ n * mean \in Int
  BY <1>1, <1>4
<1>8. SumFunctionOnSet(c, D) \in 0 .. n - 1
  BY <1>1, <1>2, <1>4, <1>6, <1>7
<1>9. FamilyTyped(c)
  BY <1>5, <1>8 DEF FamilyTyped, CenteredFamily, FamilySum, SumFunction, n
<1>. QED
  BY <1>1, <1>4, <1>5, <1>9 DEF S, n, c

(* How far a weight moves when those of U have learned, none by more than  *)
(* the limit, and the family is then centred again.                        *)
LEMMA Moved ==
    ASSUME NEW D, IsFiniteSet(D), NEW known, NEW delta, NEW w, NEW U, U \subseteq D,
           NEW limit \in Nat, NEW mean \in Int,
           \A x \in D : /\ known[x] \in Int /\ delta[x] \in Int
                        /\ w[x] = known[x] + delta[x]
                        /\ -limit <= delta[x] /\ delta[x] <= limit
                        /\ x \notin U => delta[x] = 0,
           SumFunctionOnSet(known, D) \in 0 .. Cardinality(D) - 1,
           Cardinality(D) * mean <= SumFunctionOnSet(w, D),
           SumFunctionOnSet(w, D) < Cardinality(D) * mean + Cardinality(D),
           NEW f \in D
    PROVE  LET n == Cardinality(D)
               own == IF f \in U THEN n - 1 ELSE 0
           IN n * Abs((w[f] - mean) - known[f])
                  <= (own + Cardinality(U \ {f})) * limit + n
<1>. DEFINE n == Cardinality(D)
            R == D \ {f}
            V == U \ {f}
            m == Cardinality(V)
            K == SumFunctionOnSet(known, D)
            rest == SumFunctionOnSet(delta, R)
            high == [x \in R |-> IF x \in V THEN limit ELSE 0]
            low == [x \in R |-> IF x \in V THEN -limit ELSE 0]
            d == delta[f]
            own == IF f \in U THEN n - 1 ELSE 0
            p == (n - 1) * d
<1>1. n \in Nat \ {0} /\ m \in Nat /\ IsFiniteSet(R) /\ IsFiniteSet(V) /\ V \subseteq R
  <2>1. IsFiniteSet(R) /\ IsFiniteSet(V)
    BY FS_Subset
  <2>. QED
    BY <2>1, FS_CardinalityType, FS_EmptySet
<1>2. SumFunctionOnSet(w, D) = K + SumFunctionOnSet(delta, D)
  BY SumPlus
<1>3. SumFunctionOnSet(delta, D) = d + rest
  BY SumSplit
<1>4. rest \in Int /\ K \in Int /\ d \in Int
  BY <1>1, SumInt
<1>5. SumFunctionOnSet(high, R) = limit * m /\ SumFunctionOnSet(low, R) = (-limit) * m
  <2>1. -limit \in Int /\ limit \in Int
    OBVIOUS
  <2>2. /\ \A x \in R : high[x] \in Int /\ (x \notin V => high[x] = 0)
        /\ \A x \in R : low[x] \in Int /\ (x \notin V => low[x] = 0)
        /\ \A x \in V : high[x] = limit /\ low[x] = -limit
    BY <1>1, <2>1
  <2>. HIDE DEF high, low, R, V
  <2>3. /\ SumFunctionOnSet(high, R) = SumFunctionOnSet(high, V)
        /\ SumFunctionOnSet(low, R) = SumFunctionOnSet(low, V)
    BY <1>1, <2>2, SumWithin
  <2>4. /\ SumFunctionOnSet(high, V) = limit * m
        /\ SumFunctionOnSet(low, V) = (-limit) * m
    BY <1>1, <2>1, <2>2, SumOfEqual
  <2>. QED
    BY <2>3, <2>4
<1>6. SumFunctionOnSet(low, R) <= rest /\ rest <= SumFunctionOnSet(high, R)
  <2>1. \A x \in R : /\ low[x] \in Int /\ delta[x] \in Int /\ high[x] \in Int
                     /\ low[x] <= delta[x] /\ delta[x] <= high[x]
    OBVIOUS
  <2>. HIDE DEF high, low, R
  <2>. QED
    BY <1>1, <2>1, SumMonotonic
<1>7. -limit <= d /\ d <= limit /\ (f \notin U => d = 0)
  OBVIOUS
<1>8. w[f] = known[f] + d /\ known[f] \in Int
  OBVIOUS
<1>9. /\ K \in 0 .. n - 1 /\ n * mean <= SumFunctionOnSet(w, D)
      /\ SumFunctionOnSet(w, D) < n * mean + n
  OBVIOUS
<1>. HIDE DEF n, m, K, rest, high, low, d, R, V
<1>10. own \in Nat /\ own * limit \in Nat /\ m * limit \in Nat /\ p \in Int
       /\ limit * m = m * limit /\ (-limit) * m = -(m * limit) /\ n * mean \in Int
       /\ n * d = p + d
  BY <1>1, <1>4
<1>11. -(own * limit) <= p /\ p <= own * limit
  <2>1. CASE f \in U
    <3>1. n - 1 \in Nat
      BY <1>1
    <3>2. (n - 1) * d <= (n - 1) * limit /\ (n - 1) * (-limit) <= (n - 1) * d
      BY <1>4, <1>7, <3>1
    <3>3. (n - 1) * (-limit) = -((n - 1) * limit)
      BY <3>1
    <3>. QED
      BY <2>1, <3>2, <3>3
  <2>2. CASE f \notin U
    BY <1>1, <1>7, <1>10, <2>2
  <2>. QED
    BY <2>1, <2>2
<1>. DEFINE x == d - mean
            bound == own * limit + m * limit + n
<1>. HIDE DEF own, p
<1>12. x \in Int /\ n * x = p + d - n * mean
  BY <1>1, <1>4, <1>10
<1>13. n * x <= bound /\ -bound <= n * x
  <2>1. /\ -(m * limit) <= rest /\ rest <= m * limit
    BY <1>5, <1>6, <1>10
  <2>2. n * mean <= K + (d + rest) /\ K + (d + rest) < n * mean + n
    BY <1>2, <1>3, <1>9
  <2>. QED
    BY <1>1, <1>4, <1>9, <1>10, <1>11, <1>12, <2>1, <2>2
<1>14. (w[f] - mean) - known[f] = x
  BY <1>4, <1>8
<1>. HIDE DEF x
<1>15. n * Abs(x) <= bound
  <2>1. CASE x >= 0
    BY <1>12, <1>13, <2>1, AbsOf
  <2>2. CASE ~(x >= 0)
    <3>1. Abs(x) = -x /\ n * (-x) = -(n * x)
      BY <1>1, <1>12, <2>2, AbsOf
    <3>2. n * x \in Int /\ bound \in Int
      BY <1>1, <1>10, <1>12
    <3>. QED
      BY <1>13, <3>1, <3>2
  <2>. QED
    BY <2>1, <2>2
<1>16. (own + m) * limit + n = bound
  BY <1>1, <1>10
<1>17. n * Abs((w[f] - mean) - known[f]) <= (own + m) * limit + n
  BY <1>14, <1>15, <1>16
<1>. QED
  BY <1>17 DEF n, m, own, V

-----------------------------------------------------------------------------
(* What one value learns                                                   *)

LEMMA ConfigNumbers ==
    ASSUME NEW config \in Configs
    PROVE  /\ config.learningRate \in Nat \ {0} /\ config.smoothing \in Nat
           /\ config.ridge \in Nat /\ config.maxDelta \in Nat \ {0}
           /\ config.minImpressions \in Nat \ {0}
BY NumberAssumption

(* The step towards the target, and the ridge.                             *)
RawDelta(weight, target, total, config) ==
    (config.learningRate * total.impressions * (target - weight))
        \div (100 * (total.impressions + config.smoothing))
Ridge(weight, config) == (config.ridge * weight) \div 100

LEMMA DeltaNumbers ==
    ASSUME NEW weight \in Int, NEW target \in Int, NEW total, TotalTyped(total),
           total.impressions >= 1, NEW config \in Configs
    PROVE  /\ RawDelta(weight, target, total, config) \in Int
           /\ Ridge(weight, config) \in Int
           /\ Delta(weight, target, total, config)
                  = IF RawDelta(weight, target, total, config) - Ridge(weight, config)
                           < -config.maxDelta
                    THEN -config.maxDelta
                    ELSE IF RawDelta(weight, target, total, config)
                                - Ridge(weight, config) > config.maxDelta
                         THEN config.maxDelta
                         ELSE RawDelta(weight, target, total, config)
                                  - Ridge(weight, config)
<1>. DEFINE rate == config.learningRate * total.impressions
            scale == 100 * (total.impressions + config.smoothing)
            diff == rate * (target - weight)
            raw == diff \div scale
            ridge == (config.ridge * weight) \div 100
            limit == config.maxDelta
<1>1. total.impressions \in Nat
  BY DEF TotalTyped
<1>2. rate \in Nat /\ scale \in Nat \ {0}
  BY <1>1, ConfigNumbers
<1>3. limit \in Nat \ {0} /\ config.ridge * weight \in Int
  BY ConfigNumbers
<1>4. /\ Delta(weight, target, total, config) = ClipValue(raw - ridge, -limit, limit)
      /\ RawDelta(weight, target, total, config) = raw
      /\ Ridge(weight, config) = ridge
  BY Zenon DEF Delta, RawDelta, Ridge
<1>5. ridge \in Int
  <2>1. \A a \in Int : a \div 100 \in Int
    OBVIOUS
  <2>. QED
    BY <1>3, <2>1
<1>. HIDE DEF rate, scale, ridge
<1>6. diff \in Int
  BY <1>2
<1>. HIDE DEF diff
<1>7. raw \in Int
  BY <1>2, <1>6, Quotient
<1>. HIDE DEF raw
<1>8. ClipValue(raw - ridge, -limit, limit)
          = IF raw - ridge < -limit THEN -limit
            ELSE IF raw - ridge > limit THEN limit ELSE raw - ridge
  <2>. HIDE DEF limit
  <2>. QED
    BY <1>3, <1>5, <1>7, Clipped
<1>. QED
  BY <1>4, <1>5, <1>7, <1>8

LEMMA RawDeltaRises ==
    ASSUME NEW weight \in Int, NEW low \in Int, NEW high \in Int, low <= high,
           NEW total, TotalTyped(total), total.impressions >= 1,
           NEW other, other.impressions = total.impressions, NEW config \in Configs
    PROVE  RawDelta(weight, low, total, config) <= RawDelta(weight, high, other, config)
<1>. DEFINE rate == config.learningRate * total.impressions
            scale == 100 * (total.impressions + config.smoothing)
            a == rate * (low - weight)
            b == rate * (high - weight)
<1>1. total.impressions \in Nat
  BY DEF TotalTyped
<1>2. rate \in Nat /\ scale \in Nat \ {0}
  BY <1>1, ConfigNumbers
<1>3. /\ RawDelta(weight, low, total, config) = a \div scale
      /\ RawDelta(weight, high, other, config) = b \div scale
  BY Zenon DEF RawDelta
<1>. HIDE DEF rate, scale
<1>4. a \in Int /\ b \in Int /\ a <= b
  <2>1. low - weight <= high - weight /\ low - weight \in Int /\ high - weight \in Int
    OBVIOUS
  <2>. QED
    BY <1>2, <2>1
<1>. HIDE DEF a, b
<1>. QED
  BY <1>2, <1>3, <1>4, QuotientRises

LEMMA DeltaBounds ==
    ASSUME NEW weight \in Int, NEW target \in Int, NEW total, TotalTyped(total),
           total.impressions >= 1, NEW config \in Configs
    PROVE  /\ Delta(weight, target, total, config) \in Int
           /\ -config.maxDelta <= Delta(weight, target, total, config)
           /\ Delta(weight, target, total, config) <= config.maxDelta
<1>. DEFINE d == Delta(weight, target, total, config)
            raw == RawDelta(weight, target, total, config)
            ridge == Ridge(weight, config)
            limit == config.maxDelta
<1>1. /\ raw \in Int /\ ridge \in Int
      /\ d = IF raw - ridge < -limit THEN -limit
             ELSE IF raw - ridge > limit THEN limit ELSE raw - ridge
  BY DeltaNumbers, Zenon
<1>2. limit \in Nat
  BY ConfigNumbers
<1>. HIDE DEF d, raw, ridge, limit
<1>3. d \in Int /\ -limit <= d /\ d <= limit
  BY <1>1, <1>2
<1>. QED
  BY <1>3 DEF d, limit

(* The higher the target, the higher the delta.                            *)
LEMMA DeltaRises ==
    ASSUME NEW weight \in Int, NEW low \in Int, NEW high \in Int, low <= high,
           NEW total, TotalTyped(total), total.impressions >= 1,
           NEW other, TotalTyped(other), other.impressions = total.impressions,
           NEW config \in Configs
    PROVE  Delta(weight, low, total, config) <= Delta(weight, high, other, config)
<1>. DEFINE d == Delta(weight, low, total, config)
            e == Delta(weight, high, other, config)
            a == RawDelta(weight, low, total, config)
            b == RawDelta(weight, high, other, config)
            ridge == Ridge(weight, config)
            limit == config.maxDelta
<1>1. /\ a \in Int /\ ridge \in Int
      /\ d = IF a - ridge < -limit THEN -limit
             ELSE IF a - ridge > limit THEN limit ELSE a - ridge
  BY DeltaNumbers, Zenon
<1>2. other.impressions >= 1
  OBVIOUS
<1>3. /\ b \in Int
      /\ e = IF b - ridge < -limit THEN -limit
             ELSE IF b - ridge > limit THEN limit ELSE b - ridge
  BY <1>2, DeltaNumbers, Zenon
<1>4. a <= b
  BY RawDeltaRises
<1>5. limit \in Nat
  BY ConfigNumbers
<1>. HIDE DEF d, e, a, b, ridge, limit
<1>6. d <= e
  BY <1>1, <1>3, <1>4, <1>5
<1>. QED
  BY <1>6 DEF d, e

LEMMA PosteriorRange ==
    ASSUME NEW prior \in Probabilities, NEW strength \in Nat, strength >= 100,
           NEW total, TotalTyped(total)
    PROVE  /\ Posterior(prior, strength, total).mean
                  = PosteriorMean(prior, strength, total.impressions, total.clicks)
           /\ Posterior(prior, strength, total).mean \in Int
<1>1. Posterior(prior, strength, total).mean
          = PosteriorMean(prior, strength, total.impressions, total.clicks)
  BY DEF Posterior
<1>2. total.impressions \in Nat /\ total.clicks \in Nat /\ prior \in Nat
      /\ strength \in Nat \ {0}
  BY DEF TotalTyped, Probabilities
<1>3. PosteriorMean(prior, strength, total.impressions, total.clicks) \in Int
  BY <1>2, MeanRises
<1>. QED
  BY <1>1, <1>3

(* A value learns within the limit, and of two values weighted alike and   *)
(* seen equally often the one with more clicks learns no less.             *)
LEMMA Learned ==
    ASSUME ModelTyped(model), NEW family \in Families, NEW weight \in Int,
           NEW total, TotalTyped(total), total.impressions >= 1,
           NEW config \in Configs
    PROVE  LET r == LearnFeature(family, weight, total, config)
           IN /\ r.delta \in Int
              /\ -config.maxDelta <= r.delta /\ r.delta <= config.maxDelta
<1>. DEFINE prior == Sigmoid(model.w0 + weight)
            mean == Posterior(prior, model.strengths[family], total).mean
            target == SafeLogit(mean) - model.w0
<1>1. model.w0 \in Int
  BY DEF ModelTyped, Weights
<1>2. prior \in Probabilities
  BY <1>1, SigmoidRange
<1>3. model.strengths[family] \in Nat /\ model.strengths[family] >= 100
  BY StrengthsAre DEF ModelTyped
<1>. HIDE DEF prior
<1>4. mean \in Int
  BY <1>2, <1>3, PosteriorRange
<1>5. LearnFeature(family, weight, total, config).delta
          = Delta(weight, target, total, config)
  BY DEF LearnFeature, prior
<1>. HIDE DEF mean
<1>6. target \in Int
  BY <1>1, <1>4, LogitRange DEF Weights
<1>. HIDE DEF target
<1>. QED
  BY <1>5, <1>6, DeltaBounds

LEMMA LearnedInOrder ==
    ASSUME ModelTyped(model), NEW family \in Families, NEW weight \in Int,
           NEW total, TotalTyped(total), total.impressions >= 1,
           NEW other, TotalTyped(other), other.impressions = total.impressions,
           total.clicks < other.clicks, NEW config \in Configs
    PROVE  LearnFeature(family, weight, total, config).delta
               <= LearnFeature(family, weight, other, config).delta
<1>. DEFINE prior == Sigmoid(model.w0 + weight)
            strength == model.strengths[family]
            mean == Posterior(prior, strength, total).mean
            higher == Posterior(prior, strength, other).mean
            target == SafeLogit(mean) - model.w0
            aim == SafeLogit(higher) - model.w0
<1>1. model.w0 \in Int
  BY DEF ModelTyped, Weights
<1>2. prior \in Probabilities
  BY <1>1, SigmoidRange
<1>3. strength \in Nat /\ strength >= 100
  BY StrengthsAre DEF ModelTyped
<1>4. /\ LearnFeature(family, weight, total, config).delta
             = Delta(weight, target, total, config)
      /\ LearnFeature(family, weight, other, config).delta
             = Delta(weight, aim, other, config)
  BY DEF LearnFeature
<1>. HIDE DEF prior, strength
<1>5. /\ mean \in Int /\ higher \in Int
      /\ mean = PosteriorMean(prior, strength, total.impressions, total.clicks)
      /\ higher = PosteriorMean(prior, strength, other.impressions, other.clicks)
  BY <1>2, <1>3, PosteriorRange
<1>6. mean <= higher
  <2>1. /\ total.impressions \in Nat /\ total.clicks \in Nat /\ other.clicks \in Nat
        /\ total.clicks <= other.clicks
        /\ prior \in Nat /\ strength \in Nat \ {0}
    BY <1>2, <1>3 DEF TotalTyped, Probabilities
  <2>2. PosteriorMean(prior, strength, total.impressions, total.clicks)
            <= PosteriorMean(prior, strength, total.impressions, other.clicks)
    BY <2>1, MeanRises
  <2>. QED
    BY <1>5, <2>2
<1>. HIDE DEF mean, higher
<1>7. SafeLogit(mean) <= SafeLogit(higher)
  BY <1>5, <1>6, LogitRises
<1>8. target \in Int /\ aim \in Int /\ target <= aim
  <2>1. SafeLogit(mean) \in Int /\ SafeLogit(higher) \in Int
    BY <1>5, LogitRange DEF Weights
  <2>. QED
    BY <1>1, <1>7, <2>1
<1>. HIDE DEF target, aim
<1>9. Delta(weight, target, total, config) <= Delta(weight, aim, other, config)
  BY <1>8, DeltaRises
<1>. QED
  BY <1>4, <1>9

-----------------------------------------------------------------------------
(* What a family learns                                                    *)

(* A value no weight is known for enters at zero, so the sum stays within  *)
(* the rounding of a family that is no smaller.                            *)
LEMMA KnownTyped ==
    ASSUME NEW weights, FamilyTyped(weights), NEW features, IsFiniteSet(features)
    PROVE  LET known == KnownWeights(weights, features)
           IN /\ DOMAIN known = DOMAIN weights \cup features
              /\ IsFiniteSet(DOMAIN known) /\ DOMAIN known # {}
              /\ \A f \in DOMAIN known : known[f] \in Int
              /\ SumFunctionOnSet(known, DOMAIN known)
                     \in 0 .. Cardinality(DOMAIN known) - 1
<1>. DEFINE W == DOMAIN weights
            D == W \cup features
            known == KnownWeights(weights, features)
<1>1. IsFiniteSet(W) /\ W # {} /\ (\A f \in W : weights[f] \in Int)
      /\ SumFunctionOnSet(weights, W) \in 0 .. Cardinality(W) - 1
  BY DEF FamilyTyped, CenteredFamily, FamilySum, SumFunction
<1>2. known = [f \in D |-> IF f \in W THEN weights[f] ELSE 0]
  BY DEF KnownWeights
<1>3. IsFiniteSet(D) /\ D # {} /\ W \subseteq D
  BY <1>1, FS_Union
<1>. HIDE DEF known, W, D
<1>4. /\ DOMAIN known = D
      /\ \A f \in D : known[f] \in Int /\ (f \notin W => known[f] = 0)
      /\ \A f \in W : weights[f] = known[f]
  BY <1>1, <1>2, <1>3
<1>5. SumFunctionOnSet(known, D) = SumFunctionOnSet(known, W)
  BY <1>3, <1>4, SumWithin
<1>6. SumFunctionOnSet(weights, W) = SumFunctionOnSet(known, W)
  BY <1>1, <1>4, SumSame
<1>7. Cardinality(W) \in Nat /\ Cardinality(D) \in Nat /\ Cardinality(W) <= Cardinality(D)
  BY <1>1, <1>3, FS_CardinalityType, FS_Subset
<1>8. SumFunctionOnSet(known, D) \in 0 .. Cardinality(D) - 1
  BY <1>1, <1>5, <1>6, <1>7
<1>. QED
  BY <1>3, <1>4, <1>8 DEF known, D, W

(* What the two properties ask of a family's result.                       *)
Near(result, limit) ==
    \A f \in DOMAIN result.weights :
        LET n == Cardinality(DOMAIN result.weights)
            others == result.updated \ {f}
            own == IF f \in result.updated THEN n - 1 ELSE 0
        IN n * Abs(result.weights[f] - result.before[f])
               <= (own + Cardinality(others)) * limit + n

Ranked(result) ==
    \A f, g \in result.updated :
        /\ result.before[f] = result.before[g]
        /\ result.total[f].impressions = result.total[g].impressions
        /\ result.total[f].clicks < result.total[g].clicks
        => result.weights[f] <= result.weights[g]

(* A family of any size whose values of any set have learned.              *)
LEMMA ResultOf ==
    ASSUME NEW family, NEW known, IsFiniteSet(DOMAIN known), DOMAIN known # {},
           \A f \in DOMAIN known : known[f] \in Int,
           SumFunctionOnSet(known, DOMAIN known)
               \in 0 .. Cardinality(DOMAIN known) - 1,
           NEW total, DOMAIN total \subseteq DOMAIN known,
           NEW limit \in Nat, NEW results,
           \A f \in DOMAIN total : /\ results[f].delta \in Int
                                   /\ -limit <= results[f].delta
                                   /\ results[f].delta <= limit
    PROVE  LET r == FamilyResult(family, total, known, results)
           IN /\ FamilyTyped(r.weights)
              /\ r.before = known /\ r.total = total
              /\ r.updated \subseteq DOMAIN total
              /\ Near(r, limit)
              /\ \A f, g \in r.updated :
                    known[f] = known[g] /\ results[f].delta <= results[g].delta
                    => r.weights[f] <= r.weights[g]
<1>. DEFINE D == DOMAIN known
            r == FamilyResult(family, total, known, results)
            U == {f \in DOMAIN total : results[f].outcome \in {"updated"}}
            delta == [f \in D |-> IF f \in U THEN results[f].delta ELSE 0]
            w == [f \in D |-> IF f \in U THEN known[f] + results[f].delta
                              ELSE known[f]]
            c == CenterFamily(w, DOMAIN total)
            n == Cardinality(D)
<1>1. /\ r.weights = c /\ r.before = known /\ r.total = total /\ r.updated = U
  BY DEF FamilyResult
<1>2. U \subseteq D /\ U \subseteq DOMAIN total
  OBVIOUS
<1>3. \A f \in D : /\ known[f] \in Int /\ delta[f] \in Int
                   /\ w[f] = known[f] + delta[f] /\ w[f] \in Int
                   /\ -limit <= delta[f] /\ delta[f] <= limit
                   /\ f \notin U => delta[f] = 0
                   /\ f \in U => delta[f] = results[f].delta
  <2>1. \A f \in U : /\ results[f].delta \in Int
                     /\ -limit <= results[f].delta
                     /\ results[f].delta <= limit
    BY <1>2
  <2>. HIDE DEF U
  <2>. QED
    BY <2>1
<1>4. DOMAIN w = D
  OBVIOUS
<1>. HIDE DEF U, delta, w, r
<1>5. /\ FamilyTyped(c) /\ DOMAIN c = D
      /\ \E mean \in Int :
            /\ \A f \in D : c[f] = w[f] - mean
            /\ n * mean <= SumFunctionOnSet(w, D)
            /\ SumFunctionOnSet(w, D) < n * mean + n
  BY <1>3, <1>4, Centred
<1>6. PICK mean \in Int :
            /\ \A f \in D : c[f] = w[f] - mean
            /\ n * mean <= SumFunctionOnSet(w, D)
            /\ SumFunctionOnSet(w, D) < n * mean + n
  BY <1>5
<1>. HIDE DEF c
<1>7. Near(r, limit)
  <2>1. ASSUME NEW f \in D
        PROVE  n * Abs((w[f] - mean) - known[f])
                   <= ((IF f \in U THEN n - 1 ELSE 0) + Cardinality(U \ {f})) * limit + n
    <3>1. /\ IsFiniteSet(D) /\ U \subseteq D
          /\ SumFunctionOnSet(known, D) \in 0 .. Cardinality(D) - 1
          /\ Cardinality(D) * mean <= SumFunctionOnSet(w, D)
          /\ SumFunctionOnSet(w, D) < Cardinality(D) * mean + Cardinality(D)
      BY <1>2, <1>6
    <3>2. \A x \in D : /\ known[x] \in Int /\ delta[x] \in Int
                       /\ w[x] = known[x] + delta[x]
                       /\ -limit <= delta[x] /\ delta[x] <= limit
                       /\ x \notin U => delta[x] = 0
      BY <1>3
    <3>. HIDE DEF D
    <3>. QED
      BY <3>1, <3>2, Moved, ZenonT(30)
  <2>2. DOMAIN r.weights = D /\ r.before = known /\ r.updated = U
    BY <1>1, <1>5
  <2>3. \A f \in D : r.weights[f] = w[f] - mean
    BY <1>1, <1>6
  <2>. QED
    BY <2>1, <2>2, <2>3, Zenon DEF Near
<1>8. ASSUME NEW f \in U, NEW g \in U, known[f] = known[g],
             results[f].delta <= results[g].delta
      PROVE  r.weights[f] <= r.weights[g]
  <2>1. f \in D /\ g \in D
    BY <1>2
  <2>2. /\ r.weights[f] = (known[f] + delta[f]) - mean
        /\ r.weights[g] = (known[g] + delta[g]) - mean
        /\ delta[f] <= delta[g]
    BY <1>1, <1>3, <1>6, <1>8, <2>1
  <2>. QED
    BY <1>3, <1>6, <1>8, <2>1, <2>2
<1>. QED
  BY <1>1, <1>2, <1>5, <1>7, <1>8, Zenon DEF r
(* One family's update, from any evidence.                                 *)
LEMMA FamilyLearned ==
    ASSUME ModelTyped(model), NEW evidence, EvidenceTyped(evidence),
           NEW config \in Configs, NEW family \in Families
    PROVE  LET r == UpdateFeatureFamily(family, FeatureBuckets(evidence, family),
                                        config)
           IN FamilyTyped(r.weights) /\ Near(r, config.maxDelta) /\ Ranked(r)
<1>. DEFINE total == FeatureBuckets(evidence, family)
            known == KnownWeights(model.weights[family], DOMAIN total)
            results == [f \in DOMAIN total |->
                           LearnFeature(family, known[f], total[f], config)]
            r == UpdateFeatureFamily(family, total, config)
            limit == config.maxDelta
<1>1. r = FamilyResult(family, total, known, results)
  BY Zenon DEF UpdateFeatureFamily, LearnFamily
<1>2. /\ IsFiniteSet(DOMAIN total)
      /\ \A f \in DOMAIN total : TotalTyped(total[f]) /\ total[f].impressions >= 1
  BY FeaturesTyped
<1>. HIDE DEF total
<1>3. /\ DOMAIN known = DOMAIN model.weights[family] \cup DOMAIN total
      /\ IsFiniteSet(DOMAIN known) /\ DOMAIN known # {}
      /\ \A f \in DOMAIN known : known[f] \in Int
      /\ SumFunctionOnSet(known, DOMAIN known) \in 0 .. Cardinality(DOMAIN known) - 1
  BY <1>2, KnownTyped DEF ModelTyped
<1>. HIDE DEF known
<1>4. limit \in Nat
  BY ConfigNumbers
<1>5. ASSUME NEW f \in DOMAIN total
      PROVE  /\ results[f] = LearnFeature(family, known[f], total[f], config)
             /\ results[f].delta \in Int
             /\ -limit <= results[f].delta
             /\ results[f].delta <= limit
  <2>1. results[f] = LearnFeature(family, known[f], total[f], config)
    OBVIOUS
  <2>2. known[f] \in Int
    BY <1>3
  <2>3. TotalTyped(total[f]) /\ total[f].impressions >= 1
    BY <1>2
  <2>. HIDE DEF results, limit
  <2>4. LET q == LearnFeature(family, known[f], total[f], config)
        IN /\ q.delta \in Int
           /\ -config.maxDelta <= q.delta /\ q.delta <= config.maxDelta
    BY <2>2, <2>3, Learned
  <2>. QED
    BY <2>1, <2>4 DEF limit
<1>. HIDE DEF results, r, limit
<1>6. /\ FamilyTyped(r.weights) /\ r.before = known /\ r.total = total
      /\ r.updated \subseteq DOMAIN total
      /\ Near(r, limit)
      /\ \A f, g \in r.updated :
            known[f] = known[g] /\ results[f].delta <= results[g].delta
            => r.weights[f] <= r.weights[g]
  <2>1. DOMAIN total \subseteq DOMAIN known
    BY <1>3
  <2>2. \A f \in DOMAIN total : /\ results[f].delta \in Int
                                /\ -limit <= results[f].delta
                                /\ results[f].delta <= limit
    BY <1>5
  <2>3. LET q == FamilyResult(family, total, known, results)
        IN /\ FamilyTyped(q.weights)
           /\ q.before = known /\ q.total = total
           /\ q.updated \subseteq DOMAIN total
           /\ Near(q, limit)
           /\ \A f, g \in q.updated :
                 known[f] = known[g] /\ results[f].delta <= results[g].delta
                 => q.weights[f] <= q.weights[g]
    BY <1>3, <1>4, <2>1, <2>2, ResultOf
  <2>. QED
    BY <1>1, <2>3, Zenon
<1>7. Ranked(r)
  <2>1. SUFFICES ASSUME NEW f \in r.updated, NEW g \in r.updated,
                        known[f] = known[g],
                        total[f].impressions = total[g].impressions,
                        total[f].clicks < total[g].clicks
                 PROVE  r.weights[f] <= r.weights[g]
    BY <1>6, Zenon DEF Ranked
  <2>2. f \in DOMAIN total /\ g \in DOMAIN total
    BY <1>6
  <2>3. TotalTyped(total[f]) /\ total[f].impressions >= 1 /\ TotalTyped(total[g])
    BY <1>2, <2>2
  <2>4. known[f] \in Int
    BY <1>3, <2>2
  <2>5. LearnFeature(family, known[f], total[f], config).delta
            <= LearnFeature(family, known[f], total[g], config).delta
    BY <2>1, <2>3, <2>4, LearnedInOrder
  <2>6. results[f].delta <= results[g].delta
    BY <1>5, <2>1, <2>2, <2>5
  <2>. QED
    BY <1>6, <2>1, <2>6
<1>. QED
  BY <1>6, <1>7 DEF r, limit, total

-----------------------------------------------------------------------------
(* The invariant                                                           *)

CountersTyped(dictionary) ==
    /\ IsFiniteSet(DOMAIN dictionary)
    /\ \A t \in DOMAIN dictionary :
          /\ DOMAIN t = Families
          /\ dictionary[t].impressions \in Nat /\ dictionary[t].clicks \in Nat

NumbersInv ==
    /\ ModelTyped(model) /\ ModelTyped(jobModel)
    /\ BucketsTyped(buckets) /\ CountersTyped(counters)
    /\ batches \in 0 .. MaxBatches /\ updates \in 0 .. MaxUpdates
    /\ RankFollowsEvidence

LEMMA InvIsTyped == NumbersInv => TypeOK
BY TypedIsValid DEF NumbersInv, TypeOK, BucketsTyped, CountersTyped

LEMMA InvInit == Init => NumbersInv
<1>. SUFFICES ASSUME Init PROVE NumbersInv
  OBVIOUS
<1>1. ModelTyped(model) /\ ModelTyped(jobModel)
  BY SeedModelTyped DEF Init
<1>2. BucketsTyped(buckets)
  <2>1. SeededPlaces \subseteq Places
    BY NumberAssumption
  <2>. QED
    BY <1>1, <2>1, SeedBucketsTyped DEF Init
<1>3. CountersTyped(counters)
  <2>1. DOMAIN counters = {}
    BY DEF Init
  <2>. QED
    BY <2>1, FS_EmptySet DEF CountersTyped
<1>4. batches \in 0 .. MaxBatches /\ updates \in 0 .. MaxUpdates
  BY NumberAssumption DEF Init
<1>5. RankFollowsEvidence
  BY DEF Init, NoRun, RankFollowsEvidence
<1>. QED
  BY <1>1, <1>2, <1>3, <1>4, <1>5 DEF NumbersInv

(* The evidence an update may be given is typed: what is read of Redis...  *)
LEMMA RedisEvidenceTyped ==
    ASSUME BucketsTyped(buckets), NEW again, NEW unread
    PROVE  EvidenceTyped(RedisEvidence(again, unread))
<1>. DEFINE read == DOMAIN buckets \ unread
            e == RedisEvidence(again, unread)
<1>1. /\ DOMAIN e.buckets = read
      /\ \A t \in read : /\ e.buckets[t] = buckets[t]
                         /\ e.visits[t] = IF t \in again THEN 2 ELSE 1
  BY DEF RedisEvidence
<1>2. IsFiniteSet(read)
  BY FS_Difference DEF BucketsTyped
<1>3. \A t \in read : buckets[t].impressions \in Nat /\ buckets[t].clicks \in Nat
  BY DEF BucketsTyped, ValidStatistic
<1>. HIDE DEF read, e
<1>. QED
  BY <1>1, <1>2, <1>3 DEF EvidenceTyped, e

(* ... and what the streaming job makes of its counters.                   *)
LEMMA StatisticCounts ==
    ASSUME NEW i, NEW c, NEW p, NEW strength, NEW s,
           s = BucketStatistic(i, c, p, strength)
    PROVE  s.impressions = i /\ s.clicks = c
BY DEF BucketStatistic

LEMMA StreamEvidenceTyped ==
    ASSUME ModelTyped(model), CountersTyped(counters)
    PROVE  EvidenceTyped(StreamEvidence)
<1>. DEFINE valid == {t \in DOMAIN counters :
                         /\ counters[t].impressions > 0
                         /\ counters[t].clicks <= counters[t].impressions}
            e == StreamEvidence
<1>1. /\ DOMAIN e.buckets = valid
      /\ \A t \in valid :
            /\ e.buckets[t] = BucketStatistic(counters[t].impressions,
                                  counters[t].clicks, PriorMean(model, t),
                                  Strengths.triplet)
            /\ e.visits[t] = 1
  BY DEF StreamEvidence
<1>2. IsFiniteSet(valid)
  BY FS_Subset DEF CountersTyped
<1>3. ASSUME NEW t \in valid
      PROVE  e.buckets[t].impressions \in Nat /\ e.buckets[t].clicks \in Nat
  <2>1. counters[t].impressions \in Nat /\ counters[t].clicks \in Nat
    BY DEF CountersTyped
  <2>. HIDE DEF valid, e
  <2>2. /\ e.buckets[t].impressions = counters[t].impressions
        /\ e.buckets[t].clicks = counters[t].clicks
    <3>1. e.buckets[t] = BucketStatistic(counters[t].impressions,
                             counters[t].clicks, PriorMean(model, t),
                             Strengths.triplet)
      BY <1>1
    <3>. QED
      BY <3>1, StatisticCounts
  <2>. QED
    BY <2>1, <2>2
<1>. HIDE DEF valid, e
<1>. QED
  BY <1>1, <1>2, <1>3 DEF EvidenceTyped, e
(* The guard is what keeps clicks behind impressions; the statistic is     *)
(* valid because of it.                                                    *)
LEMMA CountedTyped ==
    ASSUME ModelTyped(jobModel), BucketsTyped(buckets),
           NEW t, DOMAIN t = Families, NEW impressions \in Nat, NEW clicks \in Nat,
           Counted(t, impressions, clicks).clicks
               <= Counted(t, impressions, clicks).impressions
    PROVE  /\ ValidStatistic(Counted(t, impressions, clicks))
           /\ Counted(t, impressions, clicks).prior \in Probabilities
<1>. DEFINE known == t \in DOMAIN buckets
            i == IF known THEN buckets[t].impressions + impressions ELSE impressions
            c == IF known THEN buckets[t].clicks + clicks ELSE clicks
            p == IF known THEN buckets[t].prior ELSE PriorMean(jobModel, t)
            b == Counted(t, impressions, clicks)
<1>1. b = BucketStatistic(i, c, p, Strengths.triplet)
  BY DEF Counted
<1>2. i \in Nat /\ c \in Nat
  BY DEF BucketsTyped, ValidStatistic
<1>3. p \in Probabilities
  BY PriorRange DEF BucketsTyped
<1>4. b.clicks <= b.impressions
  OBVIOUS
<1>. HIDE DEF i, c, p, b
<1>5. b.impressions = i /\ b.clicks = c
  BY <1>1, StatisticCounts
<1>6. c \in 0 .. i
  BY <1>2, <1>4, <1>5
<1>7. ValidStatistic(b) /\ b.prior = p
  <2>1. PICK strength \in Nat : strength = Strengths.triplet /\ strength >= 100
    BY StrengthsAre
  <2>2. LET s == BucketStatistic(i, c, p, strength)
        IN ValidStatistic(s) /\ s.prior = p
    BY <1>2, <1>3, <1>6, <2>1, StatisticValid
  <2>. QED
    BY <1>1, <2>1, <2>2
<1>. QED
  BY <1>3, <1>7 DEF b

LEMMA ObserveInv ==
    ASSUME NumbersInv, NEW t, DOMAIN t = Families,
           NEW impressions \in Nat, NEW clicks \in Nat,
           Observe(t, impressions, clicks)
    PROVE  NumbersInv'
<1>. DEFINE b == Counted(t, impressions, clicks)
            was == CounterOf(t)
            c == [impressions |-> was.impressions + impressions,
                  clicks |-> was.clicks + clicks]
<1>1. /\ batches < MaxBatches /\ batches' = batches + 1
      /\ b.clicks <= b.impressions
      /\ buckets' = Stored(buckets, t, b) /\ counters' = Stored(counters, t, c)
      /\ run' = NoRun
      /\ model' = model /\ jobModel' = jobModel /\ updates' = updates
  BY DEF Observe
<1>2. ModelTyped(model)' /\ ModelTyped(jobModel)'
  BY <1>1 DEF NumbersInv
<1>3. BucketsTyped(buckets)'
  <2>1. ValidStatistic(b) /\ b.prior \in Probabilities
    BY <1>1, CountedTyped DEF NumbersInv
  <2>. HIDE DEF b
  <2>2. /\ DOMAIN buckets' = DOMAIN buckets \cup {t}
        /\ buckets'[t] = b
        /\ \A k \in DOMAIN buckets \ {t} : buckets'[k] = buckets[k]
        /\ IsFiniteSet(DOMAIN buckets')
    <3>1. PICK s : s = buckets' /\ s = Stored(buckets, t, b)
      BY <1>1
    <3>2. IsFiniteSet(DOMAIN buckets)
      BY DEF NumbersInv, BucketsTyped
    <3>3. s = Stored(buckets, t, b)
      BY <3>1
    <3>4. /\ DOMAIN s = DOMAIN buckets \cup {t} /\ IsFiniteSet(DOMAIN s)
          /\ s[t] = b
          /\ \A k \in DOMAIN buckets \ {t} : s[k] = buckets[k]
      BY <3>2, <3>3, FS_AddElement DEF Stored
    <3>. QED
      BY <3>1, <3>4
  <2>. QED
    BY <2>1, <2>2 DEF NumbersInv, BucketsTyped
<1>4. CountersTyped(counters)'
  <2>1. was.impressions \in Nat /\ was.clicks \in Nat
    BY DEF CounterOf, NumbersInv, CountersTyped
  <2>2. c.impressions \in Nat /\ c.clicks \in Nat
    BY <2>1
  <2>. HIDE DEF c
  <2>3. /\ DOMAIN counters' = DOMAIN counters \cup {t}
        /\ counters'[t] = c
        /\ \A k \in DOMAIN counters \ {t} : counters'[k] = counters[k]
        /\ IsFiniteSet(DOMAIN counters')
    <3>1. PICK s : s = counters' /\ s = Stored(counters, t, c)
      BY <1>1
    <3>2. IsFiniteSet(DOMAIN counters)
      BY DEF NumbersInv, CountersTyped
    <3>3. s = Stored(counters, t, c)
      BY <3>1
    <3>4. /\ DOMAIN s = DOMAIN counters \cup {t} /\ IsFiniteSet(DOMAIN s)
          /\ s[t] = c
          /\ \A k \in DOMAIN counters \ {t} : s[k] = counters[k]
      BY <3>2, <3>3, FS_AddElement DEF Stored
    <3>. QED
      BY <3>1, <3>4
  <2>. QED
    BY <2>2, <2>3 DEF NumbersInv, CountersTyped
<1>5. /\ (batches \in 0 .. MaxBatches)'
      /\ (updates \in 0 .. MaxUpdates)'
  BY <1>1, NumberAssumption DEF NumbersInv
<1>6. RankFollowsEvidence'
  BY <1>1 DEF NoRun, RankFollowsEvidence
<1>. QED
  BY <1>2, <1>3, <1>4, <1>5, <1>6 DEF NumbersInv

(* The sizes of batches and the draws of candidates.                       *)
LEMMA ShareTyped ==
    ASSUME NEW factor \in ClickFactors, NEW p \in Probabilities
    PROVE  factor * ((BatchSize * p) \div One) \in Nat
<1>. DEFINE a == BatchSize * p
<1>1. a \in Nat
  BY NumberAssumption DEF Probabilities
<1>2. One \in Nat \ {0} /\ One * 0 <= a
  BY <1>1, OneIs
<1>. HIDE DEF a
<1>3. a \div One \in Nat
  BY <1>1, <1>2, Quotient, QuotientBounds
<1>. QED
  BY <1>3, NumberAssumption DEF a

LEMMA DrawnTriplet ==
    ASSUME NEW selected PROVE DOMAIN ChooseCandidate(selected) = Families
<1>1. \A k : DOMAIN TripletAt(k) = Families
  BY DEF TripletAt, Families
<1>. QED
  BY <1>1 DEF ChooseCandidate

LEMMA ProduceInv ==
    ASSUME NumbersInv, NEW selected, NEW factor \in ClickFactors,
           ProduceEvents(selected, factor)
    PROVE  NumbersInv'
<1>. DEFINE drawn == ChooseCandidate(selected)
            clicks == factor * ((BatchSize * ClickProbability(drawn)) \div One)
<1>1. DOMAIN drawn = Families
  BY DrawnTriplet
<1>2. Observe(drawn, BatchSize, clicks)
  BY DEF ProduceEvents
<1>. HIDE DEF drawn
<1>3. ClickProbability(drawn) \in Probabilities
  BY <1>1, SeedModelTyped, PriorRange DEF ClickProbability
<1>4. clicks \in Nat
  BY <1>3, ShareTyped
<1>. HIDE DEF clicks
<1>. QED
  BY <1>1, <1>2, <1>4, NumberAssumption, ObserveInv

LEMMA ForeignInv ==
    ASSUME NumbersInv, NEW t \in OtherTriplets, NEW factor \in ClickFactors,
           ForeignEvents(t, factor)
    PROVE  NumbersInv'
<1>. DEFINE clicks == factor * ((BatchSize * BaselineCtr) \div One)
<1>1. DOMAIN t = Families
  BY NumberAssumption DEF Families
<1>2. Observe(t, BatchSize, clicks)
  BY DEF ForeignEvents
<1>3. clicks \in Nat
  BY SeedModelTyped, ShareTyped DEF ModelTyped, SeedModel
<1>. HIDE DEF clicks
<1>. QED
  BY <1>1, <1>2, <1>3, NumberAssumption, ObserveInv

LEMMA LateInv ==
    ASSUME NumbersInv, NEW selected, LateClicks(ChooseCandidate(selected))
    PROVE  NumbersInv'
<1>. DEFINE q == (BatchSize * BaselineCtr) \div (10 * One)
            clicks == Max({1, q})
<1>1. q \in Int
  <2>1. BatchSize * BaselineCtr \in Int /\ 10 * One \in Nat \ {0}
    BY NumberAssumption, SeedModelTyped, OneIs
    DEF ModelTyped, SeedModel, Probabilities
  <2>. QED
    BY <2>1, Quotient
<1>2. Observe(ChooseCandidate(selected), 0, clicks)
  BY DEF LateClicks
<1>. HIDE DEF q
<1>3. clicks \in Nat
  <2>1. Max({1, q}) = IF 1 >= q THEN 1 ELSE q
    BY <1>1, TwoExtremes
  <2>. QED
    BY <1>1, <2>1
<1>. HIDE DEF clicks
<1>. QED
  BY <1>2, <1>3, DrawnTriplet, ObserveInv

-----------------------------------------------------------------------------
(* An update                                                               *)

(* What BaselineBetween asks of a new baseline.                            *)
Between(old, new, total) ==
    LET observed == SafeLogit((total.clicks * One) \div Max({1, total.impressions}))
    IN Min({old, observed}) <= new /\ new <= Max({old, observed})

LEMMA OldIsBetween ==
    ASSUME NEW old \in Int, NEW total, TotalTyped(total)
    PROVE  Between(old, old, total)
<1>. DEFINE observed == SafeLogit((total.clicks * One)
                                      \div Max({1, total.impressions}))
<1>1. observed \in Int
  BY MeanBetween, LogitRange DEF Weights
<1>. HIDE DEF observed
<1>2. /\ Max({old, observed}) = IF old >= observed THEN old ELSE observed
      /\ Min({old, observed}) = IF old <= observed THEN old ELSE observed
  BY <1>1, TwoExtremes
<1>3. Min({old, observed}) <= old /\ old <= Max({old, observed})
  BY <1>1, <1>2
<1>. QED
  BY <1>3 DEF Between, observed

(* The logit of the posterior mean lies where the mean does.               *)
LEMMA ProposalBetween ==
    ASSUME ModelTyped(model), NEW total, TotalTyped(total),
           NEW new, new = SafeLogit(Posterior(Sigmoid(model.w0),
                                              model.strengths.global, total).mean)
    PROVE  new \in Weights /\ Between(model.w0, new, total)
<1>. DEFINE old == model.w0
            prior == Sigmoid(old)
            strength == model.strengths.global
            mean == Posterior(prior, strength, total).mean
            rate == (total.clicks * One) \div Max({1, total.impressions})
            observed == SafeLogit(rate)
<1>1. old \in Weights /\ old \in Int
  BY DEF ModelTyped, Weights
<1>2. prior \in Probabilities /\ SafeLogit(prior) = old
  BY <1>1, SigmoidRange, LogitInverts
<1>3. strength \in Nat /\ strength >= 100
  BY StrengthsAre DEF ModelTyped
<1>. HIDE DEF prior, strength
<1>4. mean = PosteriorMean(prior, strength, total.impressions, total.clicks)
  BY <1>2, <1>3, PosteriorRange
<1>. HIDE DEF mean
<1>5. /\ mean \in Int /\ rate \in Int
      /\ (prior <= mean \/ rate <= mean) /\ (mean <= prior \/ mean <= rate)
  <2>1. prior \in Nat /\ strength \in Nat \ {0}
    BY <1>2, <1>3 DEF Probabilities
  <2>2. LET m == PosteriorMean(prior, strength, total.impressions, total.clicks)
            r == (total.clicks * One) \div Max({1, total.impressions})
        IN /\ m \in Int /\ r \in Int
           /\ (prior <= m \/ r <= m) /\ (m <= prior \/ m <= r)
    BY <2>1, MeanBetween
  <2>. QED
    BY <1>4, <2>2
<1>. HIDE DEF rate
<1>6. prior \in Int
  BY <1>2 DEF Probabilities
<1>7. (old <= new \/ observed <= new) /\ (new <= old \/ new <= observed)
  <2>1. new = SafeLogit(mean)
    BY DEF mean, prior, strength
  <2>. QED
    BY <1>2, <1>5, <1>6, <2>1, LogitRises
<1>8. new \in Weights /\ new \in Int /\ observed \in Int
  <2>1. new = SafeLogit(mean)
    BY DEF mean, prior, strength
  <2>. QED
    BY <1>5, <2>1, LogitRange DEF Weights
<1>. HIDE DEF observed, old
<1>9. /\ Max({old, observed}) = IF old >= observed THEN old ELSE observed
      /\ Min({old, observed}) = IF old <= observed THEN old ELSE observed
  BY <1>1, <1>8, TwoExtremes
<1>10. Min({old, observed}) <= new /\ new <= Max({old, observed})
  BY <1>1, <1>7, <1>8, <1>9
<1>. QED
  BY <1>8, <1>10 DEF Between, observed, rate, old

LEMMA ProposalTyped ==
    ASSUME ModelTyped(model), NEW evidence, EvidenceTyped(evidence), NEW config,
           NEW b, b = BaselineProposal(evidence, config)
    PROVE  /\ b.w0 \in Weights
           /\ Between(model.w0, b.w0, b.total) /\ Between(model.w0, model.w0, b.total)
<1>. DEFINE total == Totals(evidence, Usable(evidence))
            new == SafeLogit(Posterior(Sigmoid(model.w0), model.strengths.global,
                                       total).mean)
<1>1. TotalTyped(total)
  BY TotalsTyped
<1>2. b.total = total /\ (b.w0 = new \/ b.w0 = model.w0)
  BY DEF BaselineProposal
<1>. HIDE DEF total
<1>3. new \in Weights /\ Between(model.w0, new, total)
  BY <1>1, ProposalBetween
<1>4. model.w0 \in Weights /\ Between(model.w0, model.w0, total)
  BY <1>1, OldIsBetween DEF ModelTyped, Weights
<1>. HIDE DEF new
<1>. QED
  BY <1>2, <1>3, <1>4

(* What recalibrate returns is a model the stores accept, whether or not   *)
(* the update is accepted.                                                 *)
LEMMA ResultTyped ==
    ASSUME ModelTyped(model), NEW evidence, NEW config, NEW baseline,
           baseline.w0 \in Weights,
           NEW families, \A family \in Families : FamilyTyped(families[family].weights),
           NEW r, r = Result(evidence, config, baseline, families)
    PROVE  /\ r.config = config /\ r.baseline = baseline /\ r.families = families
           /\ ModelTyped(r.snapshot)
           /\ r.snapshot # model =>
                 /\ r.snapshot.w0 = baseline.w0
                 /\ \A family \in Families :
                       r.snapshot.weights[family] = families[family].weights
<1>. DEFINE new == [w0 |-> baseline.w0,
                    weights |-> [family \in Families |-> families[family].weights],
                    baselineCtr |-> IF config.baselineUpdate
                                    THEN Sigmoid(baseline.w0)
                                    ELSE model.baselineCtr,
                    strengths |-> model.strengths]
<1>1. /\ r.config = config /\ r.baseline = baseline /\ r.families = families
      /\ r.snapshot = new \/ r.snapshot = model
  BY DEF Result
<1>2. baseline.w0 \in Int
  BY DEF Weights
<1>3. Sigmoid(baseline.w0) \in Probabilities
  BY <1>2, SigmoidRange
<1>4. /\ new.w0 = baseline.w0 /\ new.strengths = model.strengths
      /\ \A family \in Families : new.weights[family] = families[family].weights
      /\ new.baselineCtr = Sigmoid(baseline.w0) \/ new.baselineCtr = model.baselineCtr
  OBVIOUS
<1>. HIDE DEF new
<1>5. ModelTyped(new)
  BY <1>3, <1>4 DEF ModelTyped
<1>. QED
  BY <1>1, <1>4, <1>5
(* An update from any evidence keeps the invariant and, if it changes the  *)
(* model, has moved it as the two action properties ask.                   *)
LEMMA Recalibrated ==
    ASSUME NumbersInv, NEW evidence, EvidenceTyped(evidence),
           NEW config \in Configs, Recalibrate(evidence, config)
    PROVE  /\ NumbersInv'
           /\ model' # model =>
                 /\ Between(model.w0, model'.w0, run'.baseline.total)
                 /\ \A family \in Families :
                       /\ model'.weights[family] = run'.families[family].weights
                       /\ Near(run'.families[family], run'.config.maxDelta)
<1>. DEFINE Learns(family) ==
                UpdateFeatureFamily(family, FeatureBuckets(evidence, family), config)
            families == [ad |-> Learns("ad"), domain |-> Learns("domain"),
                         context |-> Learns("context")]
            baseline == BaselineProposal(evidence, config)
<1>1. /\ updates < MaxUpdates /\ updates' = updates + 1
      /\ run' = Result(evidence, config, baseline, families)
      /\ model' = IF config.dryRun THEN model ELSE run'.snapshot
      /\ buckets' = buckets /\ jobModel' = jobModel /\ counters' = counters
      /\ batches' = batches
  BY DEF Recalibrate
<1>2. ModelTyped(model)
  BY DEF NumbersInv
<1>3. ASSUME NEW family \in Families
      PROVE  /\ FamilyTyped(families[family].weights)
             /\ Near(families[family], config.maxDelta)
             /\ Ranked(families[family])
  <2>1. families[family] = Learns(family)
    <3>. HIDE DEF Learns
    <3>. QED
      BY DEF Families
  <2>2. LET r == UpdateFeatureFamily(family, FeatureBuckets(evidence, family), config)
        IN FamilyTyped(r.weights) /\ Near(r, config.maxDelta) /\ Ranked(r)
    BY <1>2, FamilyLearned
  <2>. HIDE DEF families
  <2>. QED
    BY <2>1, <2>2, Zenon
<1>4. /\ baseline.w0 \in Weights
      /\ Between(model.w0, baseline.w0, baseline.total)
      /\ Between(model.w0, model.w0, baseline.total)
  BY <1>2, ProposalTyped
<1>. HIDE DEF families, baseline
<1>5. PICK r : r = run' /\ r = Result(evidence, config, baseline, families)
  BY <1>1
<1>6. /\ r.config = config /\ r.baseline = baseline /\ r.families = families
      /\ ModelTyped(r.snapshot)
      /\ r.snapshot # model =>
            /\ r.snapshot.w0 = baseline.w0
            /\ \A family \in Families :
                  r.snapshot.weights[family] = families[family].weights
  BY <1>2, <1>3, <1>4, <1>5, ResultTyped
<1>7. ModelTyped(model)'
  BY <1>1, <1>2, <1>5, <1>6
<1>8. RankFollowsEvidence'
  <2>1. \A family \in Families : Ranked(run'.families[family])
    BY <1>3, <1>5, <1>6
  <2>. QED
    BY <2>1 DEF RankFollowsEvidence, Ranked
<1>9. NumbersInv'
  <2>1. (updates \in 0 .. MaxUpdates)' /\ (batches \in 0 .. MaxBatches)'
    BY <1>1, NumberAssumption DEF NumbersInv
  <2>2. ModelTyped(jobModel)' /\ BucketsTyped(buckets)' /\ CountersTyped(counters)'
    BY <1>1 DEF NumbersInv
  <2>. QED
    BY <1>7, <1>8, <2>1, <2>2 DEF NumbersInv
<1>10. ASSUME model' # model
       PROVE  /\ Between(model.w0, model'.w0, run'.baseline.total)
              /\ \A family \in Families :
                    /\ model'.weights[family] = run'.families[family].weights
                    /\ Near(run'.families[family], run'.config.maxDelta)
  <2>1. model' = r.snapshot
    BY <1>1, <1>5, <1>10
  <2>. QED
    BY <1>3, <1>4, <1>5, <1>6, <1>10, <2>1
<1>. QED
  BY <1>9, <1>10

(* The next-state relation, one action at a time.                          *)
LEMMA StepOfUpdate ==
    ASSUME NumbersInv, NEW config \in Configs,
           BatchUpdate(config) \/ StreamingUpdate(config)
    PROVE  \E evidence : EvidenceTyped(evidence) /\ Recalibrate(evidence, config)
<1>1. CASE BatchUpdate(config)
  <2>1. PICK again, unread \in SUBSET (OddKeys \cap DOMAIN buckets) :
            Recalibrate(RedisEvidence(again, unread), config)
    BY <1>1 DEF BatchUpdate
  <2>2. EvidenceTyped(RedisEvidence(again, unread))
    BY RedisEvidenceTyped DEF NumbersInv
  <2>. QED
    BY <2>1, <2>2
<1>2. CASE StreamingUpdate(config)
  <2>1. EvidenceTyped(StreamEvidence)
    BY StreamEvidenceTyped DEF NumbersInv
  <2>. QED
    BY <1>2, <2>1 DEF StreamingUpdate
<1>. QED
  BY <1>1, <1>2

LEMMA InvNext == NumbersInv /\ [Next]_vars => NumbersInv'
<1>. SUFFICES ASSUME NumbersInv, [Next]_vars PROVE NumbersInv'
  OBVIOUS
<1>1. ASSUME NEW selected, NEW factor \in ClickFactors,
             ProduceEvents(selected, factor)
      PROVE  NumbersInv'
  BY <1>1, ProduceInv
<1>2. ASSUME NEW t \in OtherTriplets, NEW factor \in ClickFactors,
             ForeignEvents(t, factor)
      PROVE  NumbersInv'
  BY <1>2, ForeignInv
<1>3. ASSUME NEW selected, LateClicks(ChooseCandidate(selected))
      PROVE  NumbersInv'
  BY <1>3, LateInv
<1>4. ASSUME NEW config \in Configs, BatchUpdate(config) \/ StreamingUpdate(config)
      PROVE  NumbersInv'
  <2>1. PICK evidence : EvidenceTyped(evidence) /\ Recalibrate(evidence, config)
    BY <1>4, StepOfUpdate
  <2>. QED
    BY <2>1, Recalibrated
<1>5. CASE UNCHANGED vars
  BY <1>5 DEF vars, NumbersInv, RankFollowsEvidence
<1>. QED
  BY <1>1, <1>2, <1>3, <1>4, <1>5 DEF Next

LEMMA InvAlways == Spec => []NumbersInv
BY InvInit, InvNext, PTL DEF Spec

(* Only an update changes the model, and then as Recalibrated says.        *)
LEMMA ModelStep ==
    ASSUME NumbersInv, [Next]_vars, model' # model
    PROVE  /\ Between(model.w0, model'.w0, run'.baseline.total)
           /\ \A family \in Families :
                 /\ model'.weights[family] = run'.families[family].weights
                 /\ Near(run'.families[family], run'.config.maxDelta)
<1>1. PICK config \in Configs : BatchUpdate(config) \/ StreamingUpdate(config)
  <2>1. ~ UNCHANGED model /\ ~ UNCHANGED vars
    BY DEF vars
  <2>. QED
    BY <2>1 DEF Next, ProduceEvents, ForeignEvents, LateClicks, Observe
<1>2. PICK evidence : EvidenceTyped(evidence) /\ Recalibrate(evidence, config)
  BY <1>1, StepOfUpdate
<1>. QED
  BY <1>2, Recalibrated

-----------------------------------------------------------------------------
(* The theorems                                                            *)

(* Everything in the stores passes the models it is read back with, after  *)
(* any traffic and any updates: the weights of every family are centred up *)
(* to rounding, the baseline and the prior of every bucket are in the      *)
(* range of the logistic table, and every statistic is valid               *)
(* (weight_update_service.py, 115-255 and 557-564; models/seed.py).        *)
THEOREM TypeCorrect == Spec => []TypeOK
<1>1. NumbersInv => TypeOK
  BY InvIsTyped
<1>. QED
  BY <1>1, InvAlways, PTL

(* Of two values of a family weighted alike and seen equally often, the    *)
(* one with more clicks never comes out lower, whatever was clipped,       *)
(* smoothed, rounded or centred (weight_update_service.py, 448-525).       *)
THEOREM RankFollows == Spec => []RankFollowsEvidence
<1>1. NumbersInv => RankFollowsEvidence
  BY DEF NumbersInv
<1>. QED
  BY <1>1, InvAlways, PTL

(* max_delta limits what centring leaves of a weight's movement: less than *)
(* twice the limit for a value that learned, the others' share of the mean *)
(* for one that did not, in a family of any size                           *)
(* (weight_update_service.py, 476-501 and 557-564).                        *)
THEOREM Movement == Spec => MovementBounded
<1>. DEFINE Step ==
        \A family \in Families : \A f \in DOMAIN model'.weights[family] :
          LET result == run'.families[family]
              n == Cardinality(DOMAIN model'.weights[family])
              limit == run'.config.maxDelta
              others == result.updated \ {f}
              own == IF f \in result.updated THEN n - 1 ELSE 0
          IN n * Abs(model'.weights[family][f] - result.before[f])
                 <= (own + Cardinality(others)) * limit + n
<1>1. NumbersInv /\ [Next]_vars => [model' # model => Step]_vars
  <2>. SUFFICES ASSUME NumbersInv, [Next]_vars, model' # model PROVE Step
    OBVIOUS
  <2>1. \A family \in Families :
            /\ model'.weights[family] = run'.families[family].weights
            /\ Near(run'.families[family], run'.config.maxDelta)
    BY ModelStep
  <2>. QED
    BY <2>1 DEF Near
<1>. HIDE DEF Step
<1>2. Spec => [][model' # model => Step]_vars
  BY <1>1, InvAlways, PTL DEF Spec
<1>. QED
  BY <1>2 DEF MovementBounded, Step

(* No update takes the baseline past the click rate it has observed: the   *)
(* new log-odds lie between the old ones and those of the rate             *)
(* (weight_update_service.py, 291-398 and 503-525).                        *)
THEOREM Baseline == Spec => BaselineBetween
<1>. DEFINE Step ==
        LET total == run'.baseline.total
            observed == SafeLogit((total.clicks * One) \div Max({1, total.impressions}))
        IN /\ Min({model.w0, observed}) <= model'.w0
           /\ model'.w0 <= Max({model.w0, observed})
<1>1. NumbersInv /\ [Next]_vars => [model' # model => Step]_vars
  <2>. SUFFICES ASSUME NumbersInv, [Next]_vars, model' # model PROVE Step
    OBVIOUS
  <2>1. Between(model.w0, model'.w0, run'.baseline.total)
    BY ModelStep
  <2>. QED
    BY <2>1 DEF Between
<1>. HIDE DEF Step
<1>2. Spec => [][model' # model => Step]_vars
  BY <1>1, InvAlways, PTL DEF Spec
<1>. QED
  BY <1>2 DEF BaselineBetween, Step
=============================================================================
