------------------------------ MODULE SumProofs ------------------------------
(***************************************************************************)
(* Facts about the sum of a function's values over a finite set, the       *)
(* library's SumFunctionOnSet.  It is a recursive function on the subsets  *)
(* of the set, so that it has the value its equation gives it is itself to *)
(* be proved: each proof by induction takes a smallest counterexample      *)
(* among the subsets.                                                      *)
(***************************************************************************)
EXTENDS Integers, FiniteSets, Functions, FiniteSetTheorems,
        WellFoundedInduction, TLAPS

(* The next element to be added, and the equation the sum is defined by.   *)
Chosen(T) == CHOOSE x \in T : TRUE

SumsUp(f, S, g) ==
    g = [T \in SUBSET S |-> IF T = {} THEN 0
                            ELSE LET x == CHOOSE x \in T : TRUE
                                 IN  f[x] + g[T \ {x}]]

(* A set of finite sets that is not empty has a member no other member is  *)
(* strictly within.                                                        *)
LEMMA SmallestSet ==
    ASSUME NEW S, IsFiniteSet(S), NEW W, W \subseteq SUBSET S, W # {}
    PROVE  \E T \in W : IsFiniteSet(T) /\ \A U \in W : U \subseteq T => U = T
<1>1. IsWellFoundedOn(StrictSubsetOrdering(S), SUBSET S)
  BY FS_StrictSubsetOrderingWellFounded, FS_FiniteSubsetsOfFinite
<1>2. PICK T \in W : \A U \in W : <<U, T>> \notin StrictSubsetOrdering(S)
  BY <1>1, WFMin
<1>3. \A U \in W : U \subseteq T => U = T
  BY <1>2 DEF StrictSubsetOrdering
<1>4. IsFiniteSet(T)
  BY FS_Subset
<1>. QED
  BY <1>3, <1>4

LEMMA SumIsChosen ==
    ASSUME NEW f, NEW S
    PROVE  SumFunctionOnSet(f, S) = (CHOOSE g : SumsUp(f, S, g))[S]
BY Zenon DEF SumFunctionOnSet, FoldFunctionOnSet, MapThenFoldSet, SumsUp

LEMMA SumsUpAt ==
    ASSUME NEW f, NEW S, NEW g, SumsUp(f, S, g), NEW T \in SUBSET S
    PROVE  /\ T = {} => g[T] = 0
           /\ T # {} => g[T] = f[Chosen(T)] + g[T \ {Chosen(T)}]
BY DEF SumsUp, Chosen

LEMMA ChosenIn == ASSUME NEW T, T # {} PROVE Chosen(T) \in T
BY DEF Chosen

(* Whatever set it is defined on, the sum of a set is the same.            *)
LEMMA SumsAgree ==
    ASSUME NEW f, NEW S, NEW R, NEW g, NEW h, SumsUp(f, S, g), SumsUp(f, R, h),
           NEW T, IsFiniteSet(T), T \subseteq S, T \subseteq R
    PROVE  g[T] = h[T]
<1>. DEFINE W == {U \in SUBSET T : g[U] # h[U]}
<1>1. SUFFICES ASSUME W # {} PROVE FALSE
  OBVIOUS
<1>2. PICK U \in W : \A V \in W : V \subseteq U => V = U
  <2>1. W \subseteq SUBSET T
    OBVIOUS
  <2>. HIDE DEF W
  <2>. QED
    BY <1>1, <2>1, SmallestSet
<1>3. U \in SUBSET S /\ U \in SUBSET R
  OBVIOUS
<1>4. U # {}
  BY <1>3, SumsUpAt
<1>5. g[U \ {Chosen(U)}] = h[U \ {Chosen(U)}]
  BY <1>2, <1>4, ChosenIn
<1>. QED
  BY <1>3, <1>4, <1>5, SumsUpAt

LEMMA SumsExist ==
    ASSUME NEW f, NEW S, IsFiniteSet(S)
    PROVE  \E g : SumsUp(f, S, g)
<1>. DEFINE W == {U \in SUBSET S : ~ \E g : SumsUp(f, U, g)}
            Sum(V) == (CHOOSE g : SumsUp(f, V, g))[V]
<1>1. SUFFICES ASSUME W # {} PROVE FALSE
  OBVIOUS
<1>2. PICK T \in W : IsFiniteSet(T) /\ \A V \in W : V \subseteq T => V = T
  <2>1. W \subseteq SUBSET S
    OBVIOUS
  <2>. HIDE DEF W
  <2>. QED
    BY <1>1, <2>1, SmallestSet
<1>. DEFINE g == [U \in SUBSET T |->
                     IF U = {} THEN 0
                     ELSE LET x == CHOOSE x \in U : TRUE IN f[x] + Sum(U \ {x})]
<1>3. ASSUME NEW V \in SUBSET T, V # T
      PROVE  Sum(V) = g[V]
  <2>1. \E h : SumsUp(f, V, h)
    <3>1. V \notin W /\ V \in SUBSET S
      BY <1>2, <1>3
    <3>. QED
      BY <3>1
  <2>. DEFINE h == CHOOSE h : SumsUp(f, V, h)
  <2>2. SumsUp(f, V, h)
    BY <2>1, Zenon
  <2>3. Sum(V) = h[V]
    OBVIOUS
  <2>. HIDE DEF h, Sum
  <2>4. CASE V = {}
    <3>1. h[V] = 0
      BY <2>2, <2>4, SumsUpAt
    <3>2. g[V] = 0
      BY <2>4
    <3>. QED
      BY <2>3, <3>1, <3>2
  <2>5. CASE V # {}
    <3>. DEFINE R == V \ {Chosen(V)}
    <3>1. R \in SUBSET T /\ R # T /\ R \subseteq V
      BY <1>3
    <3>2. PICK r : SumsUp(f, R, r)
      BY <1>2, <3>1
    <3>3. SumsUp(f, R, CHOOSE q : SumsUp(f, R, q))
      BY <3>2, Zenon
    <3>4. Sum(R) = h[R]
      BY <2>2, <3>1, <3>3, <1>2, FS_Subset, SumsAgree DEF Sum
    <3>5. h[V] = f[Chosen(V)] + h[R]
      BY <2>2, <2>5, SumsUpAt
    <3>6. g[V] = f[Chosen(V)] + Sum(R)
      BY <2>5 DEF Chosen
    <3>. QED
      BY <2>3, <3>4, <3>5, <3>6
  <2>. QED
    BY <2>4, <2>5
<1>4. ASSUME NEW U \in SUBSET T, U # {}
      PROVE  g[U \ {Chosen(U)}] = Sum(U \ {Chosen(U)})
  BY <1>3, <1>4, ChosenIn
<1>5. SumsUp(f, T, g)
  <2>1. ASSUME NEW U \in SUBSET T
        PROVE  g[U] = IF U = {} THEN 0
                      ELSE LET x == CHOOSE x \in U : TRUE IN f[x] + g[U \ {x}]
    <3>. HIDE DEF Sum
    <3>1. CASE U = {}
      BY <3>1
    <3>2. CASE U # {}
      <4>1. g[U] = f[Chosen(U)] + Sum(U \ {Chosen(U)})
        BY <3>2 DEF Chosen
      <4>. HIDE DEF g
      <4>. QED
        BY <4>1, <3>2, <1>4 DEF Chosen
    <3>. QED
      BY <3>1, <3>2
  <2>2. g = [U \in SUBSET T |-> g[U]]
    OBVIOUS
  <2>. HIDE DEF g
  <2>. QED
    BY <2>1, <2>2 DEF SumsUp
<1>. QED
  BY <1>5

(* The equation of the sum.                                                *)
LEMMA SumEquation ==
    ASSUME NEW f, NEW S, IsFiniteSet(S)
    PROVE  /\ S = {} => SumFunctionOnSet(f, S) = 0
           /\ S # {} => SumFunctionOnSet(f, S)
                          = f[Chosen(S)] + SumFunctionOnSet(f, S \ {Chosen(S)})
<1>. DEFINE g == CHOOSE g : SumsUp(f, S, g)
            R == S \ {Chosen(S)}
            h == CHOOSE h : SumsUp(f, R, h)
<1>1. SumsUp(f, S, g)
  BY SumsExist, Zenon
<1>2. IsFiniteSet(R)
  BY FS_Subset
<1>3. SumsUp(f, R, h)
  BY <1>2, SumsExist, Zenon
<1>4. SumFunctionOnSet(f, S) = g[S] /\ SumFunctionOnSet(f, R) = h[R]
  BY SumIsChosen, Zenon
<1>. HIDE DEF g, h
<1>5. g[R] = h[R]
  BY <1>1, <1>2, <1>3, SumsAgree
<1>. QED
  BY <1>1, <1>4, <1>5, SumsUpAt

-----------------------------------------------------------------------------
(* What the equation gives for integers.                                   *)

LEMMA SumOfNone == ASSUME NEW f PROVE SumFunctionOnSet(f, {}) = 0
BY SumEquation, FS_EmptySet

LEMMA SumInt ==
    ASSUME NEW f, NEW S, IsFiniteSet(S), \A x \in S : f[x] \in Int
    PROVE  SumFunctionOnSet(f, S) \in Int
<1>. DEFINE W == {U \in SUBSET S : SumFunctionOnSet(f, U) \notin Int}
<1>1. SUFFICES ASSUME W # {} PROVE FALSE
  OBVIOUS
<1>2. PICK T \in W : IsFiniteSet(T) /\ \A V \in W : V \subseteq T => V = T
  <2>1. W \subseteq SUBSET S
    OBVIOUS
  <2>. HIDE DEF W
  <2>. QED
    BY <1>1, <2>1, SmallestSet
<1>3. T # {}
  BY SumOfNone
<1>4. SumFunctionOnSet(f, T \ {Chosen(T)}) \in Int
  <2>1. T \ {Chosen(T)} \notin W
    BY <1>2, <1>3, ChosenIn
  <2>. QED
    BY <2>1
<1>. QED
  BY <1>2, <1>3, <1>4, SumEquation, ChosenIn

(* Any element can be added last.                                          *)
LEMMA SumSplit ==
    ASSUME NEW f, NEW S, IsFiniteSet(S), \A x \in S : f[x] \in Int, NEW e \in S
    PROVE  SumFunctionOnSet(f, S) = f[e] + SumFunctionOnSet(f, S \ {e})
<1>. DEFINE Sum(U) == SumFunctionOnSet(f, U)
            Splits(U) == \A x \in U : Sum(U) = f[x] + Sum(U \ {x})
            W == {U \in SUBSET S : ~Splits(U)}
<1>1. SUFFICES ASSUME W # {} PROVE FALSE
  BY Zenon
<1>2. PICK T \in W : IsFiniteSet(T) /\ \A V \in W : V \subseteq T => V = T
  <2>1. W \subseteq SUBSET S
    OBVIOUS
  <2>. HIDE DEF W
  <2>. QED
    BY <1>1, <2>1, SmallestSet
<1>3. T \in SUBSET S /\ \A V \in SUBSET T : V # T => Splits(V)
  <2>. HIDE DEF Splits
  <2>. QED
    BY <1>2
<1>4. PICK x \in T : Sum(T) # f[x] + Sum(T \ {x})
  BY <1>2
<1>5. PICK c : c = Chosen(T)
  OBVIOUS
<1>6. c \in T /\ f[x] \in Int /\ f[c] \in Int
  BY <1>3, <1>4, <1>5, ChosenIn
<1>7. Sum(T) = f[c] + Sum(T \ {c})
  BY <1>2, <1>4, <1>5, SumEquation
<1>8. c # x
  BY <1>4, <1>7
<1>9. PICK rest : rest = (T \ {c}) \ {x} /\ rest = (T \ {x}) \ {c}
  OBVIOUS
<1>10. Sum(T \ {c}) = f[x] + Sum(rest)
  <2>1. Splits(T \ {c})
    <3>. HIDE DEF Splits
    <3>. QED
      BY <1>3, <1>6
  <2>. QED
    BY <2>1, <1>4, <1>8, <1>9
<1>11. Sum(T \ {x}) = f[c] + Sum(rest)
  <2>1. Splits(T \ {x})
    <3>. HIDE DEF Splits
    <3>. QED
      BY <1>3, <1>4
  <2>. QED
    BY <2>1, <1>6, <1>8, <1>9
<1>12. Sum(rest) \in Int
  BY <1>2, <1>3, <1>9, FS_Subset, SumInt
<1>. HIDE DEF Sum
<1>. QED
  BY <1>4, <1>6, <1>7, <1>10, <1>11, <1>12

(* Functions that agree on the set have the same sum.                      *)
LEMMA SumSame ==
    ASSUME NEW f, NEW g, NEW S, IsFiniteSet(S), \A x \in S : f[x] = g[x]
    PROVE  SumFunctionOnSet(f, S) = SumFunctionOnSet(g, S)
<1>. DEFINE W == {U \in SUBSET S : SumFunctionOnSet(f, U) # SumFunctionOnSet(g, U)}
<1>1. SUFFICES ASSUME W # {} PROVE FALSE
  OBVIOUS
<1>2. PICK T \in W : IsFiniteSet(T) /\ \A V \in W : V \subseteq T => V = T
  <2>1. W \subseteq SUBSET S
    OBVIOUS
  <2>. HIDE DEF W
  <2>. QED
    BY <1>1, <2>1, SmallestSet
<1>3. T # {}
  BY SumOfNone
<1>4. SumFunctionOnSet(f, T \ {Chosen(T)}) = SumFunctionOnSet(g, T \ {Chosen(T)})
  <2>1. T \ {Chosen(T)} \notin W
    BY <1>2, <1>3, ChosenIn
  <2>. QED
    BY <2>1
<1>. QED
  BY <1>2, <1>3, <1>4, SumEquation, ChosenIn

(* The sum of larger values is larger.                                     *)
LEMMA SumMonotonic ==
    ASSUME NEW f, NEW g, NEW S, IsFiniteSet(S),
           \A x \in S : f[x] \in Int /\ g[x] \in Int /\ f[x] <= g[x]
    PROVE  SumFunctionOnSet(f, S) <= SumFunctionOnSet(g, S)
<1>. DEFINE W == {U \in SUBSET S :
                     ~(SumFunctionOnSet(f, U) <= SumFunctionOnSet(g, U))}
<1>1. SUFFICES ASSUME W # {} PROVE FALSE
  OBVIOUS
<1>2. PICK T \in W : IsFiniteSet(T) /\ \A V \in W : V \subseteq T => V = T
  <2>1. W \subseteq SUBSET S
    OBVIOUS
  <2>. HIDE DEF W
  <2>. QED
    BY <1>1, <2>1, SmallestSet
<1>3. T # {}
  BY SumOfNone
<1>4. PICK c \in T : c = Chosen(T)
  BY <1>3, ChosenIn
<1>5. PICK rest : rest = T \ {c} /\ rest \in SUBSET S /\ IsFiniteSet(rest)
  <2>1. T \ {c} \in SUBSET S /\ IsFiniteSet(T \ {c})
    BY <1>2, FS_Subset
  <2>. QED
    BY <2>1
<1>6. SumFunctionOnSet(f, rest) <= SumFunctionOnSet(g, rest)
  <2>1. rest \notin W
    BY <1>2, <1>4, <1>5
  <2>. QED
    BY <2>1, <1>5
<1>7. /\ SumFunctionOnSet(f, T) = f[c] + SumFunctionOnSet(f, rest)
      /\ SumFunctionOnSet(g, T) = g[c] + SumFunctionOnSet(g, rest)
  BY <1>2, <1>3, <1>4, <1>5, SumEquation
<1>8. SumFunctionOnSet(f, rest) \in Int /\ SumFunctionOnSet(g, rest) \in Int
  BY <1>5, SumInt
<1>9. f[c] \in Int /\ g[c] \in Int /\ f[c] <= g[c]
  OBVIOUS
<1>10. SumFunctionOnSet(f, T) <= SumFunctionOnSet(g, T)
  BY <1>6, <1>7, <1>8, <1>9
<1>. QED
  BY <1>10

(* A sum of as many equal values.                                          *)
LEMMA SumConstant ==
    ASSUME NEW c \in Int, NEW S, IsFiniteSet(S)
    PROVE  SumFunctionOnSet([x \in S |-> c], S) = c * Cardinality(S)
<1>. DEFINE f == [x \in S |-> c]
            W == {U \in SUBSET S : SumFunctionOnSet(f, U) # c * Cardinality(U)}
<1>1. SUFFICES ASSUME W # {} PROVE FALSE
  OBVIOUS
<1>2. PICK T \in W : IsFiniteSet(T) /\ \A V \in W : V \subseteq T => V = T
  <2>1. W \subseteq SUBSET S
    OBVIOUS
  <2>. HIDE DEF W
  <2>. QED
    BY <1>1, <2>1, SmallestSet
<1>3. T # {}
  <2>1. SumFunctionOnSet(f, {}) = 0 /\ c * Cardinality({}) = 0
    BY SumOfNone, FS_EmptySet
  <2>. QED
    BY <1>2, <2>1
<1>4. PICK x \in T : x = Chosen(T)
  BY <1>3, ChosenIn
<1>5. PICK rest : rest = T \ {x} /\ rest \in SUBSET S
  OBVIOUS
<1>6. SumFunctionOnSet(f, rest) = c * Cardinality(rest)
  <2>1. rest \notin W
    BY <1>2, <1>4, <1>5
  <2>. QED
    BY <2>1, <1>5
<1>7. SumFunctionOnSet(f, T) = f[x] + SumFunctionOnSet(f, rest)
  BY <1>2, <1>3, <1>4, <1>5, SumEquation
<1>8. Cardinality(rest) = Cardinality(T) - 1 /\ Cardinality(T) \in Nat
  BY <1>2, <1>4, <1>5, FS_RemoveElement, FS_CardinalityType
<1>9. SumFunctionOnSet(f, T) = c + c * Cardinality(rest)
  BY <1>4, <1>6, <1>7
<1>10. c + c * (Cardinality(T) - 1) = c * Cardinality(T)
  BY <1>8
<1>. QED
  BY <1>8, <1>9, <1>10

LEMMA SumOfZeros ==
    ASSUME NEW S, IsFiniteSet(S)
    PROVE  SumFunction([x \in S |-> 0]) = 0
<1>1. SumFunctionOnSet([x \in S |-> 0], S) = 0 * Cardinality(S)
  BY SumConstant
<1>2. 0 * Cardinality(S) = 0
  BY FS_CardinalityType
<1>. QED
  BY <1>1, <1>2 DEF SumFunction

(* A function whose values change in one place only.                       *)
LEMMA SumChanged ==
    ASSUME NEW f, NEW g, NEW S, IsFiniteSet(S), NEW e \in S,
           \A x \in S : f[x] \in Int /\ g[x] \in Int,
           \A x \in S \ {e} : f[x] = g[x]
    PROVE  SumFunctionOnSet(g, S) = SumFunctionOnSet(f, S) + (g[e] - f[e])
<1>1. /\ SumFunctionOnSet(f, S) = f[e] + SumFunctionOnSet(f, S \ {e})
      /\ SumFunctionOnSet(g, S) = g[e] + SumFunctionOnSet(g, S \ {e})
  BY SumSplit
<1>2. IsFiniteSet(S \ {e})
  BY FS_Subset
<1>3. SumFunctionOnSet(f, S \ {e}) = SumFunctionOnSet(g, S \ {e})
  BY <1>2, SumSame
<1>4. SumFunctionOnSet(f, S \ {e}) \in Int
  BY <1>2, SumInt
<1>. QED
  BY <1>1, <1>3, <1>4

LEMMA SumOfEqual ==
    ASSUME NEW c \in Int, NEW S, IsFiniteSet(S), NEW f, \A x \in S : f[x] = c
    PROVE  SumFunctionOnSet(f, S) = c * Cardinality(S)
<1>. DEFINE g == [x \in S |-> c]
<1>1. \A x \in S : f[x] = g[x]
  OBVIOUS
<1>2. SumFunctionOnSet(g, S) = c * Cardinality(S)
  BY SumConstant
<1>. HIDE DEF g
<1>. QED
  BY <1>1, <1>2, SumSame

(* The sum of a sum of functions.                                          *)
LEMMA SumPlus ==
    ASSUME NEW f, NEW g, NEW h, NEW S, IsFiniteSet(S),
           \A x \in S : f[x] \in Int /\ g[x] \in Int /\ h[x] = f[x] + g[x]
    PROVE  SumFunctionOnSet(h, S) = SumFunctionOnSet(f, S) + SumFunctionOnSet(g, S)
<1>. DEFINE W == {U \in SUBSET S : SumFunctionOnSet(h, U)
                     # SumFunctionOnSet(f, U) + SumFunctionOnSet(g, U)}
<1>1. SUFFICES ASSUME W # {} PROVE FALSE
  OBVIOUS
<1>2. PICK T \in W : IsFiniteSet(T) /\ \A V \in W : V \subseteq T => V = T
  <2>1. W \subseteq SUBSET S
    OBVIOUS
  <2>. HIDE DEF W
  <2>. QED
    BY <1>1, <2>1, SmallestSet
<1>3. T # {}
  <2>1. SumFunctionOnSet(h, {}) = SumFunctionOnSet(f, {}) + SumFunctionOnSet(g, {})
    BY SumOfNone
  <2>. QED
    BY <1>2, <2>1
<1>4. PICK c \in T : c = Chosen(T)
  BY <1>3, ChosenIn
<1>5. PICK rest : rest = T \ {c} /\ rest \in SUBSET S /\ IsFiniteSet(rest)
  <2>1. T \ {c} \in SUBSET S /\ IsFiniteSet(T \ {c})
    BY <1>2, FS_Subset
  <2>. QED
    BY <2>1
<1>6. SumFunctionOnSet(h, rest)
          = SumFunctionOnSet(f, rest) + SumFunctionOnSet(g, rest)
  <2>1. rest \notin W
    BY <1>2, <1>4, <1>5
  <2>. QED
    BY <2>1, <1>5
<1>7. /\ SumFunctionOnSet(f, T) = f[c] + SumFunctionOnSet(f, rest)
      /\ SumFunctionOnSet(g, T) = g[c] + SumFunctionOnSet(g, rest)
      /\ SumFunctionOnSet(h, T) = h[c] + SumFunctionOnSet(h, rest)
  BY <1>2, <1>3, <1>4, <1>5, SumEquation
<1>8. SumFunctionOnSet(f, rest) \in Int /\ SumFunctionOnSet(g, rest) \in Int
  BY <1>5, SumInt
<1>9. f[c] \in Int /\ g[c] \in Int /\ h[c] = f[c] + g[c]
  OBVIOUS
<1>10. SumFunctionOnSet(h, T) = SumFunctionOnSet(f, T) + SumFunctionOnSet(g, T)
  BY <1>6, <1>7, <1>8, <1>9
<1>. QED
  BY <1>10

(* Zeros add nothing.                                                      *)
LEMMA SumWithin ==
    ASSUME NEW f, NEW S, IsFiniteSet(S), NEW R, R \subseteq S,
           \A x \in S : f[x] \in Int /\ (x \notin R => f[x] = 0)
    PROVE  SumFunctionOnSet(f, S) = SumFunctionOnSet(f, R)
<1>. DEFINE W == {U \in SUBSET S : SumFunctionOnSet(f, U)
                     # SumFunctionOnSet(f, U \cap R)}
<1>1. SUFFICES ASSUME W # {} PROVE FALSE
  <2>1. S \cap R = R
    OBVIOUS
  <2>. QED
    BY <1>1, <2>1
<1>2. PICK T \in W : IsFiniteSet(T) /\ \A V \in W : V \subseteq T => V = T
  <2>1. W \subseteq SUBSET S
    OBVIOUS
  <2>. HIDE DEF W
  <2>. QED
    BY <1>1, <2>1, SmallestSet
<1>3. T # {}
  <2>1. {} \cap R = {}
    OBVIOUS
  <2>. QED
    BY <1>2, <2>1
<1>4. PICK c \in T : TRUE
  BY <1>3
<1>5. PICK rest : rest = T \ {c} /\ rest \in SUBSET S
  OBVIOUS
<1>6. SumFunctionOnSet(f, rest) = SumFunctionOnSet(f, rest \cap R)
  <2>1. rest \notin W
    BY <1>2, <1>4, <1>5
  <2>. QED
    BY <2>1, <1>5
<1>7. SumFunctionOnSet(f, T) = f[c] + SumFunctionOnSet(f, rest)
  <2>1. \A x \in T : f[x] \in Int
    OBVIOUS
  <2>. QED
    BY <1>2, <1>5, <2>1, SumSplit
<1>8. SumFunctionOnSet(f, rest) \in Int
  BY <1>2, <1>5, FS_Subset, SumInt
<1>9. CASE c \in R
  <2>1. c \in T \cap R /\ rest \cap R = (T \cap R) \ {c}
    BY <1>4, <1>5, <1>9
  <2>2. IsFiniteSet(T \cap R)
    BY <1>2, FS_Subset
  <2>3. \A x \in T \cap R : f[x] \in Int
    OBVIOUS
  <2>4. SumFunctionOnSet(f, T \cap R) = f[c] + SumFunctionOnSet(f, (T \cap R) \ {c})
    BY <2>1, <2>2, <2>3, SumSplit
  <2>5. SumFunctionOnSet(f, T) = SumFunctionOnSet(f, T \cap R)
    BY <1>6, <1>7, <2>1, <2>4
  <2>. QED
    BY <1>2, <2>5
<1>10. CASE c \notin R
  <2>1. rest \cap R = T \cap R /\ f[c] = 0
    BY <1>4, <1>5, <1>10
  <2>2. SumFunctionOnSet(f, rest) = SumFunctionOnSet(f, T \cap R)
    BY <1>6, <2>1
  <2>3. SumFunctionOnSet(f, T) = SumFunctionOnSet(f, rest)
    BY <1>7, <1>8, <2>1
  <2>. QED
    BY <1>2, <2>2, <2>3
<1>. QED
  BY <1>9, <1>10

(* A sum over listed elements.                                             *)
LEMMA SumWithFirst ==
    ASSUME NEW f, NEW e, NEW S, IsFiniteSet(S), e \notin S, f[e] \in Int,
           \A x \in S : f[x] \in Int
    PROVE  /\ IsFiniteSet({e} \cup S)
           /\ SumFunctionOnSet(f, {e} \cup S) = f[e] + SumFunctionOnSet(f, S)
<1>. DEFINE T == {e} \cup S
<1>1. e \in T /\ T \ {e} = S /\ \A x \in T : f[x] \in Int
  OBVIOUS
<1>2. IsFiniteSet(T)
  <2>1. IsFiniteSet(S \cup {e})
    BY FS_AddElement
  <2>2. T = S \cup {e}
    OBVIOUS
  <2>. QED
    BY <2>1, <2>2
<1>. HIDE DEF T
<1>3. SumFunctionOnSet(f, T) = f[e] + SumFunctionOnSet(f, S)
  BY <1>1, <1>2, SumSplit
<1>. QED
  BY <1>2, <1>3 DEF T
=============================================================================
