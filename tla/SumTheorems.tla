----------------------------- MODULE SumTheorems ------------------------------
(***************************************************************************)
(* Lemmas about the sum of a function over a finite set, SumFunctionOnSet  *)
(* of the community modules: that it is an integer, that it does not       *)
(* depend on the order in which it is taken, and what one change makes of  *)
(* it.  The induction is by least counterexample, a set, because a theorem *)
(* that takes a predicate as its parameter cannot be instantiated.         *)
(***************************************************************************)
EXTENDS Integers, Functions, FiniteSetTheorems, TLAPS

\* Every set of subsets of a finite set has a least element.
LEMMA LeastSet ==
  ASSUME NEW D, IsFiniteSet(D), NEW T, T \subseteq SUBSET D, T # {}
  PROVE  \E s \in T : \A t \in T : t \subseteq s => t = s
<1>1. IsWellFoundedOn(StrictSubsetOrdering(D), SUBSET D)
  BY FS_StrictSubsetOrderingWellFounded, FS_FiniteSubsetsOfFinite
<1>2. PICK s \in T : \A t \in T : <<t, s>> \notin StrictSubsetOrdering(D)
  BY <1>1, WFMin
<1> QED  BY <1>2 DEF StrictSubsetOrdering

\* So has every set of numbers: the intervals up to its members are finite sets.
LEMMA LeastNumber ==
  ASSUME NEW T, T \subseteq Nat, T # {}
  PROVE  \E n \in T : \A m \in T : n <= m
<1>1. PICK top \in T : TRUE
  OBVIOUS
<1> DEFINE Upto == {t \in SUBSET (0..top) : \E m \in T : t = 0..m}
<1>2. Upto \subseteq SUBSET (0..top) /\ 0..top \in Upto
  BY <1>1
<1>3. IsFiniteSet(0..top)
  BY <1>1, FS_Interval
<1>4. PICK s \in Upto : \A t \in Upto : t \subseteq s => t = s
  <2> DEFINE all == 0..top
  <2>1. IsFiniteSet(all) /\ Upto \subseteq SUBSET all /\ Upto # {}
    BY <1>2, <1>3
  <2> HIDE DEF Upto, all
  <2> QED  BY <2>1, LeastSet
<1>5. PICK n \in T : s = 0..n
  OBVIOUS
<1>6. ASSUME NEW m \in T, m < n PROVE FALSE
  <2>1. m \in Nat /\ n \in Nat
    OBVIOUS
  <2>2. 0..m \subseteq 0..n
    BY <1>6, <2>1
  <2>3. 0..m \in Upto
    BY <1>4, <1>5, <2>2
  <2>4. 0..m = 0..n
    BY <1>4, <1>5, <2>2, <2>3
  <2>5. n \in 0..n /\ n \notin 0..m
    BY <1>6, <2>1
  <2> QED  BY <2>4, <2>5
<1>7. ASSUME NEW m \in T PROVE n <= m
  BY <1>6, <1>7
<1> QED  BY <1>7

-----------------------------------------------------------------------------
(* The recursion a sum is defined by.                                      *)

Pick(s) == CHOOSE x \in s : TRUE
Value(f, g, s) == IF s = {} THEN 0 ELSE f[Pick(s)] + g[s \ {Pick(s)}]
Recursion(f, D, g) == g = [s \in SUBSET D |-> Value(f, g, s)]

LEMMA SumUnfolds ==
  ASSUME NEW f, NEW D
  PROVE  SumFunctionOnSet(f, D) = (CHOOSE g : Recursion(f, D, g))[D]
BY Zenon DEF SumFunctionOnSet, FoldFunctionOnSet, MapThenFoldSet, Pick, Value, Recursion

LEMMA PickIn == ASSUME NEW s, s # {} PROVE Pick(s) \in s
BY DEF Pick

\* There is a function that does what is asked of it up to the size n.
Partial(f, D, n, g) ==
    /\ g \in [SUBSET D -> Int]
    /\ \A s \in SUBSET D : Cardinality(s) <= n => g[s] = Value(f, g, s)

LEMMA PartialStep ==
  ASSUME NEW D, IsFiniteSet(D), NEW f, \A x \in D : f[x] \in Int, NEW n \in Nat,
         NEW g, Partial(f, D, n, g)
  PROVE  \E h : Partial(f, D, n + 1, h)
<1> DEFINE h == [s \in SUBSET D |-> IF Cardinality(s) <= n THEN g[s] ELSE Value(f, g, s)]
<1>0. g \in [SUBSET D -> Int]
  BY DEF Partial
<1>1. ASSUME NEW s \in SUBSET D
      PROVE  /\ Cardinality(s) \in Nat /\ IsFiniteSet(s)
             /\ s # {} => /\ Pick(s) \in D /\ s \ {Pick(s)} \in SUBSET D
                          /\ Cardinality(s \ {Pick(s)}) = Cardinality(s) - 1
  <2>1. IsFiniteSet(s) /\ Cardinality(s) \in Nat
    BY FS_Subset, FS_CardinalityType
  <2>2. ASSUME s # {} PROVE Cardinality(s \ {Pick(s)}) = Cardinality(s) - 1
    BY <2>1, <2>2, PickIn, FS_RemoveElement
  <2> QED  BY <2>1, <2>2, PickIn
<1>2. ASSUME NEW s \in SUBSET D PROVE Value(f, g, s) \in Int
  <2>1. CASE s = {}
    BY <2>1 DEF Value
  <2>2. CASE s # {}
    <3>1. f[Pick(s)] \in Int
      BY <1>1, <2>2
    <3>2. g[s \ {Pick(s)}] \in Int
      BY <1>0, <1>1, <2>2
    <3>3. f[Pick(s)] + g[s \ {Pick(s)}] \in Int
      BY <3>1, <3>2
    <3> QED  BY <2>2, <3>3 DEF Value
  <2> QED  BY <2>1, <2>2
<1>3. h \in [SUBSET D -> Int]
  BY <1>0, <1>2
<1>4. ASSUME NEW s \in SUBSET D, Cardinality(s) <= n + 1
      PROVE  h[s] = Value(f, h, s)
  <2>1. h[s] = Value(f, g, s)
    BY <1>1 DEF Partial
  <2>2. CASE s = {}
    BY <2>1, <2>2 DEF Value
  <2>3. CASE s # {}
    <3>1. h[s \ {Pick(s)}] = g[s \ {Pick(s)}]
      BY <1>1, <1>4, <2>3
    <3> HIDE DEF h
    <3> QED  BY <2>1, <2>3, <3>1 DEF Value
  <2> QED  BY <2>2, <2>3
<1> HIDE DEF h
<1> QED  BY <1>3, <1>4 DEF Partial

LEMMA PartialBase ==
  ASSUME NEW D, IsFiniteSet(D), NEW f
  PROVE  \E g : Partial(f, D, 0, g)
<1> DEFINE g == [s \in SUBSET D |-> 0]
<1>1. ASSUME NEW s \in SUBSET D, Cardinality(s) <= 0 PROVE s = {}
  <2>1. IsFiniteSet(s) /\ Cardinality(s) \in Nat
    BY FS_Subset, FS_CardinalityType
  <2>2. Cardinality(s) = 0
    BY <1>1, <2>1
  <2> QED  BY <2>1, <2>2, FS_EmptySet
<1>2. g \in [SUBSET D -> Int] /\ \A s \in SUBSET D : Cardinality(s) <= 0 => g[s] = Value(f, g, s)
  BY <1>1 DEF Value
<1> QED  BY <1>2 DEF Partial

LEMMA FoldExists ==
  ASSUME NEW D, IsFiniteSet(D), NEW f, \A x \in D : f[x] \in Int
  PROVE  \E g : Recursion(f, D, g) /\ g \in [SUBSET D -> Int]
<1> DEFINE Bad == {n \in Nat : ~ \E g : Partial(f, D, n, g)}
<1>1. Bad = {}
  <2>1. SUFFICES ASSUME Bad # {} PROVE FALSE
    OBVIOUS
  <2>2. PICK n \in Bad : \A m \in Bad : n <= m
    <3>1. Bad \subseteq Nat
      OBVIOUS
    <3> HIDE DEF Bad
    <3> QED  BY <2>1, <3>1, LeastNumber
  <2>3. n # 0
    BY PartialBase
  <2>4. n - 1 \in Nat /\ n - 1 \notin Bad
    BY <2>2, <2>3
  <2>5. PICK g : Partial(f, D, n - 1, g)
    BY <2>4
  <2>6. \E h : Partial(f, D, (n - 1) + 1, h)
    BY <2>4, <2>5, PartialStep
  <2> QED  BY <2>6
<1>2. Cardinality(D) \in Nat
  BY FS_CardinalityType
<1>3. PICK g : Partial(f, D, Cardinality(D), g)
  BY <1>1, <1>2
<1>4. \A s \in SUBSET D : Cardinality(s) <= Cardinality(D)
  BY FS_Subset
<1>5. g \in [SUBSET D -> Int] /\ \A s \in SUBSET D : g[s] = Value(f, g, s)
  BY <1>3, <1>4 DEF Partial
<1>6. g = [s \in SUBSET D |-> Value(f, g, s)]
  BY <1>5
<1> QED  BY <1>5, <1>6 DEF Recursion

\* It is the only one, whatever larger set it is defined for.
LEMMA FoldIsOne ==
  ASSUME NEW D, IsFiniteSet(D), NEW f, NEW g, Recursion(f, D, g),
         NEW E \in SUBSET D, NEW h, Recursion(f, E, h)
  PROVE  h[E] = g[E]
<1>1. \A s \in SUBSET D : g[s] = Value(f, g, s)
  BY DEF Recursion
<1>2. \A s \in SUBSET E : h[s] = Value(f, h, s)
  BY DEF Recursion
<1> DEFINE Bad == {s \in SUBSET E : h[s] # g[s]}
<1>3. SUFFICES ASSUME Bad # {} PROVE FALSE
  OBVIOUS
<1>4. PICK s \in Bad : \A t \in Bad : t \subseteq s => t = s
  <2>1. Bad \subseteq SUBSET E /\ IsFiniteSet(E)
    BY FS_Subset
  <2> HIDE DEF Bad
  <2> QED  BY <1>3, <2>1, LeastSet
<1>5. s # {}
  BY <1>1, <1>2 DEF Value
<1>6. Pick(s) \in s
  BY <1>5, PickIn
<1>7. h[s \ {Pick(s)}] = g[s \ {Pick(s)}]
  BY <1>4, <1>6
<1>8. h[s] = g[s]
  BY <1>1, <1>2, <1>5, <1>7 DEF Value
<1> QED  BY <1>8

-----------------------------------------------------------------------------
(* What a sum is.                                                          *)

\* g holds the sum of every part of D.
Tells(f, D, g) ==
    /\ g \in [SUBSET D -> Int]
    /\ \A s \in SUBSET D : g[s] = SumFunctionOnSet(f, s) /\ g[s] = Value(f, g, s)

\* One and the same function does for every part of a finite set.
LEMMA SumIsFold ==
  ASSUME NEW D, IsFiniteSet(D), NEW f, \A x \in D : f[x] \in Int
  PROVE  \E g : Tells(f, D, g)
<1>1. PICK g : Recursion(f, D, g) /\ g \in [SUBSET D -> Int]
  BY FoldExists
<1>2. ASSUME NEW s \in SUBSET D PROVE g[s] = SumFunctionOnSet(f, s)
  <2>1. IsFiniteSet(s) /\ \A x \in s : f[x] \in Int
    BY FS_Subset
  <2>2. \E h : Recursion(f, s, h)
    BY <2>1, FoldExists
  <2> DEFINE h == CHOOSE h : Recursion(f, s, h)
  <2>3. Recursion(f, s, h)
    BY <2>2
  <2>4. SumFunctionOnSet(f, s) = h[s]
    BY SumUnfolds
  <2> HIDE DEF h
  <2> QED  BY <1>1, <2>3, <2>4, FoldIsOne
<1>3. \A s \in SUBSET D : g[s] = Value(f, g, s)
  BY <1>1 DEF Recursion
<1> QED  BY <1>1, <1>2, <1>3 DEF Tells

LEMMA SumIsInt ==
  ASSUME NEW D, IsFiniteSet(D), NEW f, \A x \in D : f[x] \in Int
  PROVE  SumFunctionOnSet(f, D) \in Int
<1>1. PICK g : Tells(f, D, g)
  BY SumIsFold
<1>2. D \in SUBSET D
  OBVIOUS
<1> QED  BY <1>1, <1>2 DEF Tells

LEMMA SumOfNone ==
  ASSUME NEW f
  PROVE  SumFunctionOnSet(f, {}) = 0
<1>1. IsFiniteSet({})
  BY FS_EmptySet
<1>2. PICK g : Tells(f, {}, g)
  <2>1. \A x \in {} : f[x] \in Int
    OBVIOUS
  <2> QED  BY <1>1, <2>1, SumIsFold
<1> QED  BY <1>2 DEF Tells, Value

\* Any member may be the one that is added last.
LEMMA SumTakesAny ==
  ASSUME NEW D, IsFiniteSet(D), NEW f, \A x \in D : f[x] \in Int, NEW x \in D
  PROVE  SumFunctionOnSet(f, D) = f[x] + SumFunctionOnSet(f, D \ {x})
<1>1. PICK g : Tells(f, D, g)
  BY SumIsFold
<1> DEFINE Bad == {s \in SUBSET D : \E y \in s : g[s] # f[y] + g[s \ {y}]}
<1>2. Bad = {}
  <2>1. SUFFICES ASSUME Bad # {} PROVE FALSE
    OBVIOUS
  <2>2. PICK s \in Bad : \A t \in Bad : t \subseteq s => t = s
    <3>1. Bad \subseteq SUBSET D
      OBVIOUS
    <3> HIDE DEF Bad
    <3> QED  BY <2>1, <3>1, LeastSet
  <2>3. PICK y \in s : g[s] # f[y] + g[s \ {y}]
    BY <2>2
  <2> DEFINE p == Pick(s)
  <2>4. p \in s
    BY <2>3, PickIn
  <2>5. g[s] = f[p] + g[s \ {p}]
    BY <1>1, <2>2, <2>4 DEF Tells, Value
  <2>6. p # y
    BY <2>3, <2>5
  <2> HIDE DEF p
  <2>7. g[s \ {p}] = f[y] + g[(s \ {p}) \ {y}]
    <3>1. s \ {p} \in SUBSET D /\ s \ {p} # s /\ s \ {p} \subseteq s
      BY <2>2, <2>4
    <3>2. y \in s \ {p}
      BY <2>3, <2>6
    <3> QED  BY <2>2, <3>1, <3>2
  <2>8. g[s \ {y}] = f[p] + g[(s \ {y}) \ {p}]
    <3>1. s \ {y} \in SUBSET D /\ s \ {y} # s /\ s \ {y} \subseteq s
      BY <2>2, <2>3
    <3>2. p \in s \ {y}
      BY <2>4, <2>6
    <3> QED  BY <2>2, <3>1, <3>2
  <2>9. (s \ {y}) \ {p} = (s \ {p}) \ {y}
    OBVIOUS
  <2>10. PICK i \in Int, j \in Int, k \in Int :
           f[p] = i /\ f[y] = j /\ g[(s \ {p}) \ {y}] = k
    BY <1>1, <2>2, <2>3, <2>4 DEF Tells
  <2>11. g[s] = i + (j + k) /\ g[s \ {y}] = i + k
    BY <2>5, <2>7, <2>8, <2>9, <2>10
  <2>12. f[y] + g[s \ {y}] = j + (i + k)
    BY <2>10, <2>11
  <2>13. i + (j + k) = j + (i + k)
    OBVIOUS
  <2> QED  BY <2>3, <2>11, <2>12, <2>13
<1>3. D \in SUBSET D /\ D \ {x} \in SUBSET D
  OBVIOUS
<1> QED  BY <1>1, <1>2, <1>3 DEF Tells

\* Functions that agree have the same sum.
LEMMA SumsAgree ==
  ASSUME NEW D, IsFiniteSet(D), NEW f, \A x \in D : f[x] \in Int,
         NEW h, \A x \in D : h[x] = f[x]
  PROVE  SumFunctionOnSet(h, D) = SumFunctionOnSet(f, D)
<1>1. PICK g : Tells(f, D, g)
  BY SumIsFold
<1>2. \A x \in D : h[x] \in Int
  OBVIOUS
<1>3. PICK k : Tells(h, D, k)
  BY <1>2, SumIsFold
<1> DEFINE Bad == {s \in SUBSET D : k[s] # g[s]}
<1>4. Bad = {}
  <2>1. SUFFICES ASSUME Bad # {} PROVE FALSE
    OBVIOUS
  <2>2. PICK s \in Bad : \A t \in Bad : t \subseteq s => t = s
    <3>1. Bad \subseteq SUBSET D
      OBVIOUS
    <3> HIDE DEF Bad
    <3> QED  BY <2>1, <3>1, LeastSet
  <2>3. s # {}
    BY <1>1, <1>3, <2>2 DEF Tells, Value
  <2>4. Pick(s) \in s
    BY <2>3, PickIn
  <2>5. k[s \ {Pick(s)}] = g[s \ {Pick(s)}]
    BY <2>2, <2>4
  <2>6. g[s] = f[Pick(s)] + g[s \ {Pick(s)}] /\ k[s] = h[Pick(s)] + k[s \ {Pick(s)}]
    BY <1>1, <1>3, <2>2, <2>3 DEF Tells, Value
  <2> QED  BY <2>2, <2>4, <2>5, <2>6
<1>5. D \in SUBSET D
  OBVIOUS
<1> QED  BY <1>1, <1>3, <1>4, <1>5 DEF Tells

LEMMA SumOfZeros ==
  ASSUME NEW D, IsFiniteSet(D), NEW f, \A x \in D : f[x] = 0
  PROVE  SumFunctionOnSet(f, D) = 0
<1>1. \A x \in D : f[x] \in Int
  OBVIOUS
<1>2. PICK g : Tells(f, D, g)
  BY <1>1, SumIsFold
<1> DEFINE Bad == {s \in SUBSET D : g[s] # 0}
<1>3. Bad = {}
  <2>1. SUFFICES ASSUME Bad # {} PROVE FALSE
    OBVIOUS
  <2>2. PICK s \in Bad : \A t \in Bad : t \subseteq s => t = s
    <3>1. Bad \subseteq SUBSET D
      OBVIOUS
    <3> HIDE DEF Bad
    <3> QED  BY <2>1, <3>1, LeastSet
  <2>3. s # {}
    BY <1>2, <2>2 DEF Tells, Value
  <2>4. Pick(s) \in s
    BY <2>3, PickIn
  <2>5. g[s \ {Pick(s)}] = 0
    BY <2>2, <2>4
  <2>6. g[s] = f[Pick(s)] + g[s \ {Pick(s)}]
    BY <1>2, <2>2, <2>3 DEF Tells, Value
  <2> QED  BY <2>2, <2>4, <2>5, <2>6
<1>4. D \in SUBSET D
  OBVIOUS
<1> QED  BY <1>2, <1>3, <1>4 DEF Tells

\* One change of a function is one change of its sum.
LEMMA SumMovesWith ==
  ASSUME NEW D, IsFiniteSet(D), NEW f, \A x \in D : f[x] \in Int,
         NEW h, NEW x \in D, NEW by \in Int, h[x] = f[x] + by,
         \A y \in D \ {x} : h[y] = f[y]
  PROVE  SumFunctionOnSet(h, D) = SumFunctionOnSet(f, D) + by
<1>1. IsFiniteSet(D \ {x}) /\ \A y \in D \ {x} : f[y] \in Int
  BY FS_RemoveElement
<1>2. SumFunctionOnSet(h, D \ {x}) = SumFunctionOnSet(f, D \ {x})
  BY <1>1, SumsAgree
<1>3. \A y \in D : h[y] \in Int
  OBVIOUS
<1>4. SumFunctionOnSet(f, D) = f[x] + SumFunctionOnSet(f, D \ {x})
  BY SumTakesAny
<1>5. SumFunctionOnSet(h, D) = h[x] + SumFunctionOnSet(h, D \ {x})
  BY <1>3, SumTakesAny
<1>6. SumFunctionOnSet(f, D \ {x}) \in Int /\ f[x] \in Int
  BY <1>1, SumIsInt
<1> QED  BY <1>2, <1>4, <1>5, <1>6

\* A quotient is within one divisor of what it divides.
LEMMA QuotientBounds ==
  ASSUME NEW a \in Int, NEW b \in Nat \ {0}
  PROVE  /\ a \div b \in Int
         /\ b * (a \div b) <= a /\ a < b * (a \div b) + b
OBVIOUS
=============================================================================
