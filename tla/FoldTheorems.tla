----------------------------- MODULE FoldTheorems -----------------------------
(***************************************************************************)
(* Facts about the folds the models use: sums over finite sets.  Induction *)
(* is stated for sets instead of predicates, so that it can be cited.      *)
(***************************************************************************)
EXTENDS Integers, Functions, FiniteSetsExt, FiniteSetTheorems, TLAPS

-----------------------------------------------------------------------------
(* Induction *)

\* A set that has 0, and the successor of all it has, has every natural number.
LEMMA NatInductive ==
  ASSUME NEW Good \in SUBSET Nat, 0 \in Good, \A n \in Good : n + 1 \in Good
  PROVE  Good = Nat
<1> DEFINE R == OpToRel(<, Nat)
           Bad == Nat \ Good
<1>1. IsWellFoundedOn(R, Nat)
  BY NatLessThanWellFounded
<1>2. \A x \in Nat, y \in Nat : <<x, y>> \in R <=> x < y
  BY DEF OpToRel
<1> HIDE DEF R
<1>3. SUFFICES ASSUME Bad # {}
               PROVE  FALSE
  OBVIOUS
<1>4. Bad \subseteq Nat
  OBVIOUS
<1> HIDE DEF Bad
<1>5. PICK x \in Bad : \A y \in Bad : ~(<<y, x>> \in R)
  BY <1>1, <1>3, <1>4, WFMin
<1>6. x \in Nat /\ x \notin Good /\ x # 0
  BY DEF Bad
<1>7. x - 1 \in Nat /\ x - 1 < x
  BY <1>6
<1>8. x - 1 \notin Bad
  BY <1>2, <1>5, <1>6, <1>7
<1>9. x - 1 \in Good
  BY <1>7, <1>8 DEF Bad
<1>10. (x - 1) + 1 \in Good
  BY <1>9
<1> QED
  BY <1>6, <1>10

-----------------------------------------------------------------------------
(* Sums *)

Picked(T) == CHOOSE x \in T : TRUE

\* h[T] is the sum of f over T, taken in the order of MapThenFoldSet.
IsSum(h, f, S) ==
  h = [T \in SUBSET S |-> IF T = {} THEN 0 ELSE f[Picked(T)] + h[T \ {Picked(T)}]]

LEMMA PickedIn == ASSUME NEW T, T # {} PROVE Picked(T) \in T
BY DEF Picked

\* A set of subsets of a finite set that has the empty one, and every one from
\* which the element that is picked leads to another it has, has them all.
LEMMA SubsetInductive ==
  ASSUME NEW S, IsFiniteSet(S), NEW Good \in SUBSET (SUBSET S), {} \in Good,
         \A T \in SUBSET S : T # {} /\ T \ {Picked(T)} \in Good => T \in Good
  PROVE  Good = SUBSET S
<1> DEFINE Sizes == {n \in Nat : \A T \in SUBSET S : Cardinality(T) = n => T \in Good}
<1>1. \A T \in SUBSET S : IsFiniteSet(T) /\ Cardinality(T) \in Nat
  BY FS_Subset, FS_CardinalityType
<1>2. 0 \in Sizes
  BY <1>1, FS_EmptySet
<1>3. ASSUME NEW n \in Sizes PROVE n + 1 \in Sizes
  <2>1. n \in Nat /\ n + 1 \in Nat /\ n + 1 # 0
    OBVIOUS
  <2>2. ASSUME NEW T \in SUBSET S, Cardinality(T) = n + 1
        PROVE  T \in Good
    <3>1. T # {}
      BY <2>1, <2>2, FS_EmptySet
    <3>2. Cardinality(T \ {Picked(T)}) = Cardinality(T) - 1
      BY <1>1, <3>1, PickedIn, FS_RemoveElement
    <3>3. Cardinality(T \ {Picked(T)}) = n
      BY <2>1, <2>2, <3>2
    <3>4. T \ {Picked(T)} \in SUBSET S
      OBVIOUS
    <3>5. T \ {Picked(T)} \in Good
      BY <3>3, <3>4
    <3> QED
      BY <3>1, <3>5
  <2> QED
    BY <2>1, <2>2
<1>4. Sizes \in SUBSET Nat
  OBVIOUS
<1> HIDE DEF Sizes
<1>5. Sizes = Nat
  BY <1>2, <1>3, <1>4, NatInductive
<1> QED
  BY <1>1, <1>5 DEF Sizes

LEMMA SumOfNone == ASSUME NEW h, NEW f, NEW S, IsSum(h, f, S) PROVE h[{}] = 0
BY DEF IsSum

LEMMA SumOfMore ==
  ASSUME NEW h, NEW f, NEW S, IsSum(h, f, S), NEW T \in SUBSET S, T # {}
  PROVE  h[T] = f[Picked(T)] + h[T \ {Picked(T)}]
BY DEF IsSum

\* Every function has its sums over a finite set.
LEMMA SumExists ==
  ASSUME NEW S, IsFiniteSet(S), NEW f
  PROVE  \E h : IsSum(h, f, S)
<1> DEFINE Small(n) == {T \in SUBSET S : Cardinality(T) <= n}
           Eqn(h, n) == h = [T \in Small(n) |->
                               IF T = {} THEN 0 ELSE f[Picked(T)] + h[T \ {Picked(T)}]]
           Sizes == {n \in Nat : \E h : Eqn(h, n)}
<1>1. \A T \in SUBSET S : IsFiniteSet(T) /\ Cardinality(T) \in Nat
  BY FS_Subset, FS_CardinalityType
<1>2. 0 \in Sizes
  <2> DEFINE h == [T \in Small(0) |-> 0]
  <2>1. \A T \in Small(0) : T = {}
    BY <1>1, FS_EmptySet
  <2>2. Eqn(h, 0)
    BY <2>1
  <2> QED
    BY <2>2
<1>3. ASSUME NEW n \in Sizes PROVE n + 1 \in Sizes
  <2>1. PICK g : Eqn(g, n)
    OBVIOUS
  <2>2. n \in Nat /\ n + 1 \in Nat
    OBVIOUS
  <2> DEFINE h == [T \in Small(n + 1) |->
                     IF T = {} THEN 0 ELSE f[Picked(T)] + g[T \ {Picked(T)}]]
  <2>3. ASSUME NEW T \in Small(n + 1), T # {}
        PROVE  T \ {Picked(T)} \in Small(n)
    <3>1. Cardinality(T \ {Picked(T)}) = Cardinality(T) - 1
      BY <1>1, <2>3, PickedIn, FS_RemoveElement
    <3>2. Cardinality(T) \in Nat /\ Cardinality(T) <= n + 1
      BY <1>1
    <3> QED
      BY <2>2, <3>1, <3>2
  <2>4. ASSUME NEW T \in Small(n)
        PROVE  T \in Small(n + 1) /\ h[T] = g[T]
    <3>1. Cardinality(T) \in Nat /\ Cardinality(T) <= n
      BY <1>1
    <3>2. T \in Small(n + 1)
      BY <2>2, <3>1
    <3>3. h[T] = IF T = {} THEN 0 ELSE f[Picked(T)] + g[T \ {Picked(T)}]
      BY <3>2
    <3>4. g[T] = IF T = {} THEN 0 ELSE f[Picked(T)] + g[T \ {Picked(T)}]
      BY <2>1
    <3> QED
      BY <3>2, <3>3, <3>4
  <2> HIDE DEF Small
  <2>5. \A T \in Small(n + 1) : T # {} => g[T \ {Picked(T)}] = h[T \ {Picked(T)}]
    BY <2>3, <2>4
  <2>6. Eqn(h, n + 1)
    BY <2>5
  <2> HIDE DEF h, Eqn
  <2> QED
    BY <2>2, <2>6
<1>4. Sizes \in SUBSET Nat
  OBVIOUS
<1>5. Cardinality(S) \in Nat
  BY <1>1
<1>6. Small(Cardinality(S)) = SUBSET S
  BY FS_Subset
<1> HIDE DEF Sizes
<1>7. Cardinality(S) \in Sizes
  BY <1>2, <1>3, <1>4, <1>5, NatInductive
<1>8. PICK h : Eqn(h, Cardinality(S))
  BY <1>7 DEF Sizes
<1>9. IsSum(h, f, S)
  BY <1>6, <1>8 DEF IsSum
<1> QED
  BY <1>9

\* A sum of integers is an integer.
LEMMA SumTyped ==
  ASSUME NEW S, IsFiniteSet(S), NEW f \in [S -> Int], NEW h, IsSum(h, f, S)
  PROVE  h \in [SUBSET S -> Int]
<1> DEFINE Good == {T \in SUBSET S : h[T] \in Int}
<1>1. {} \in Good
  BY SumOfNone
<1>2. ASSUME NEW T \in SUBSET S, T # {}, T \ {Picked(T)} \in Good
      PROVE  T \in Good
  <2>1. f[Picked(T)] \in Int
    BY <1>2, PickedIn
  <2>2. h[T] = f[Picked(T)] + h[T \ {Picked(T)}]
    BY <1>2, SumOfMore
  <2>3. h[T \ {Picked(T)}] \in Int
    BY <1>2
  <2> QED
    BY <2>1, <2>2, <2>3
<1>3. Good \in SUBSET (SUBSET S)
  OBVIOUS
<1> HIDE DEF Good
<1>4. Good = SUBSET S
  BY <1>1, <1>2, <1>3, SubsetInductive
<1>5. h = [T \in SUBSET S |-> h[T]]
  BY DEF IsSum
<1> QED
  BY <1>4, <1>5 DEF Good

\* SumFunction takes such sums.
LEMMA SumFunctionIs ==
  ASSUME NEW S, IsFiniteSet(S), NEW f, DOMAIN f = S
  PROVE  \E h : IsSum(h, f, S) /\ SumFunction(f) = h[S]
<1> DEFINE Body(h) == [T \in SUBSET S |->
                         IF T = {} THEN 0
                         ELSE f[CHOOSE x \in T : TRUE] + h[T \ {CHOOSE x \in T : TRUE}]]
           chosen == CHOOSE h : h = Body(h)
<1>1. PICK h : IsSum(h, f, S)
  BY SumExists
<1>2. \A k : IsSum(k, f, S) <=> k = Body(k)
  BY DEF IsSum, Picked
<1> HIDE DEF Body
<1>3. chosen = Body(chosen)
  <2>1. \E k : k = Body(k)
    BY <1>1, <1>2
  <2> QED
    BY <2>1, Zenon
<1>4. SumFunction(f) = chosen[S]
  BY DEF Body, SumFunction, SumFunctionOnSet, FoldFunctionOnSet, MapThenFoldSet
<1> QED
  BY <1>2, <1>3, <1>4

\* A sum of integers, as SumFunction takes it, is an integer.
LEMMA SumFunctionTyped ==
  ASSUME NEW S, IsFiniteSet(S), NEW f \in [S -> Int]
  PROVE  SumFunction(f) \in Int
<1>1. PICK h : IsSum(h, f, S) /\ SumFunction(f) = h[S]
  BY SumFunctionIs
<1>2. h \in [SUBSET S -> Int]
  BY <1>1, SumTyped
<1> QED
  BY <1>1, <1>2

\* A sum of which one summand changes, changes by as much.
THEOREM SumChanged ==
  ASSUME NEW S, IsFiniteSet(S), NEW a \in S,
         NEW f \in [S -> Int], NEW g \in [S -> Int], \A x \in S : x # a => g[x] = f[x]
  PROVE  /\ SumFunction(f) \in Int
         /\ SumFunction(g) = SumFunction(f) + (g[a] - f[a])
<1>1. PICK h : IsSum(h, f, S) /\ SumFunction(f) = h[S]
  BY SumFunctionIs
<1>2. PICK k : IsSum(k, g, S) /\ SumFunction(g) = k[S]
  BY SumFunctionIs
<1> DEFINE Good == {T \in SUBSET S : k[T] = h[T] + IF a \in T THEN g[a] - f[a] ELSE 0}
<1>3. \A T \in SUBSET S : h[T] \in Int /\ k[T] \in Int
  <2>1. h \in [SUBSET S -> Int]
    BY <1>1, SumTyped
  <2>2. k \in [SUBSET S -> Int]
    BY <1>2, SumTyped
  <2> QED
    BY <2>1, <2>2
<1>4. {} \in Good
  BY <1>1, <1>2, SumOfNone
<1>5. ASSUME NEW T \in SUBSET S, T # {}, T \ {Picked(T)} \in Good
      PROVE  T \in Good
  <2> DEFINE x == Picked(T)
  <2>1. x \in T /\ x \in S /\ T \ {x} \in SUBSET S
    BY <1>5, PickedIn
  <2>2. h[T] = f[x] + h[T \ {x}] /\ k[T] = g[x] + k[T \ {x}]
    <3>1. T \in SUBSET S /\ T # {} /\ IsSum(h, f, S) /\ IsSum(k, g, S)
      BY <1>1, <1>2, <1>5
    <3>2. h[T] = f[Picked(T)] + h[T \ {Picked(T)}]
      BY ONLY <3>1, SumOfMore
    <3>3. k[T] = g[Picked(T)] + k[T \ {Picked(T)}]
      BY ONLY <3>1, SumOfMore
    <3> QED
      BY <3>2, <3>3
  <2> HIDE DEF x
  <2>3. k[T \ {x}] = h[T \ {x}] + IF a \in T \ {x} THEN g[a] - f[a] ELSE 0
    BY <1>5 DEF x
  <2>4. h[T \ {x}] \in Int /\ f[x] \in Int /\ g[x] \in Int /\ f[a] \in Int /\ g[a] \in Int
    BY <1>3, <2>1
  <2>5. CASE x = a
    BY <2>1, <2>2, <2>3, <2>4, <2>5
  <2>6. CASE x # a
    <3>1. g[x] = f[x]
      BY <2>1, <2>6
    <3>2. a \in T \ {x} <=> a \in T
      BY <2>6
    <3> QED
      BY <2>2, <2>3, <2>4, <3>1, <3>2
  <2> QED
    BY <2>5, <2>6
<1>6. Good \in SUBSET (SUBSET S)
  OBVIOUS
<1> HIDE DEF Good
<1>7. Good = SUBSET S
  BY <1>4, <1>5, <1>6, SubsetInductive
<1>8. S \in Good
  BY <1>7
<1> QED
  BY <1>1, <1>2, <1>3, <1>8 DEF Good

\* A sum of zeros is zero.
THEOREM SumOfZeros ==
  ASSUME NEW S, IsFiniteSet(S), NEW f \in [S -> {0}]
  PROVE  SumFunction(f) = 0
<1>1. PICK h : IsSum(h, f, S) /\ SumFunction(f) = h[S]
  BY SumFunctionIs
<1> DEFINE Good == {T \in SUBSET S : h[T] = 0}
<1>2. {} \in Good
  BY <1>1, SumOfNone
<1>3. ASSUME NEW T \in SUBSET S, T # {}, T \ {Picked(T)} \in Good
      PROVE  T \in Good
  <2>1. f[Picked(T)] = 0
    BY <1>3, PickedIn
  <2>2. h[T] = f[Picked(T)] + h[T \ {Picked(T)}]
    BY <1>1, <1>3, SumOfMore
  <2>3. h[T \ {Picked(T)}] = 0
    BY <1>3
  <2> QED
    BY <2>1, <2>2, <2>3
<1>4. Good \in SUBSET (SUBSET S)
  OBVIOUS
<1> HIDE DEF Good
<1>5. Good = SUBSET S
  BY <1>2, <1>3, <1>4, SubsetInductive
<1> QED
  BY <1>1, <1>5 DEF Good

\* A sum of positive numbers is positive.
THEOREM SumPositive ==
  ASSUME NEW S, IsFiniteSet(S), S # {}, NEW f \in [S -> Nat \ {0}]
  PROVE  SumFunction(f) \in Nat \ {0}
<1>1. PICK h : IsSum(h, f, S) /\ SumFunction(f) = h[S]
  BY SumFunctionIs
<1> DEFINE Good == {T \in SUBSET S : h[T] \in Nat /\ (T # {} => h[T] > 0)}
<1>2. {} \in Good
  BY <1>1, SumOfNone
<1>3. ASSUME NEW T \in SUBSET S, T # {}, T \ {Picked(T)} \in Good
      PROVE  T \in Good
  <2>1. f[Picked(T)] \in Nat \ {0}
    BY <1>3, PickedIn
  <2>2. h[T] = f[Picked(T)] + h[T \ {Picked(T)}]
    BY <1>1, <1>3, SumOfMore
  <2>3. h[T \ {Picked(T)}] \in Nat
    BY <1>3
  <2> QED
    BY <2>1, <2>2, <2>3
<1>4. Good \in SUBSET (SUBSET S)
  OBVIOUS
<1> HIDE DEF Good
<1>5. Good = SUBSET S
  BY <1>2, <1>3, <1>4, SubsetInductive
<1>6. S \in Good
  BY <1>5
<1> QED
  BY <1>1, <1>6 DEF Good

\* What holds between the summands and their weights holds between the sums.
THEOREM SumWithin ==
  ASSUME NEW S, IsFiniteSet(S), NEW lo \in Int, NEW hi \in Int,
         NEW f \in [S -> Int], NEW w \in [S -> Int],
         \A x \in S : lo * w[x] <= f[x] /\ f[x] <= hi * w[x]
  PROVE  /\ SumFunction(f) \in Int /\ SumFunction(w) \in Int
         /\ lo * SumFunction(w) <= SumFunction(f) /\ SumFunction(f) <= hi * SumFunction(w)
<1>1. PICK h : IsSum(h, f, S) /\ SumFunction(f) = h[S]
  BY SumFunctionIs
<1>2. PICK k : IsSum(k, w, S) /\ SumFunction(w) = k[S]
  BY SumFunctionIs
<1> DEFINE Good == {T \in SUBSET S : lo * k[T] <= h[T] /\ h[T] <= hi * k[T]}
<1>3. \A T \in SUBSET S : h[T] \in Int /\ k[T] \in Int
  <2>1. h \in [SUBSET S -> Int]
    BY <1>1, SumTyped
  <2>2. k \in [SUBSET S -> Int]
    BY <1>2, SumTyped
  <2> QED
    BY <2>1, <2>2
<1>4. {} \in Good
  <2>1. h[{}] = 0 /\ k[{}] = 0
    BY <1>1, <1>2, SumOfNone
  <2> QED
    BY <2>1
<1>5. ASSUME NEW T \in SUBSET S, T # {}, T \ {Picked(T)} \in Good
      PROVE  T \in Good
  <2> DEFINE x == Picked(T)
  <2>1. x \in T /\ x \in S /\ T \ {x} \in SUBSET S
    BY <1>5, PickedIn
  <2>2. h[T] = f[x] + h[T \ {x}] /\ k[T] = w[x] + k[T \ {x}]
    <3>1. T \in SUBSET S /\ T # {} /\ IsSum(h, f, S) /\ IsSum(k, w, S)
      BY <1>1, <1>2, <1>5
    <3> QED
      BY ONLY <3>1, SumOfMore
  <2> HIDE DEF x
  <2>3. /\ h[T \ {x}] \in Int /\ k[T \ {x}] \in Int /\ f[x] \in Int /\ w[x] \in Int
    BY <1>3, <2>1
  <2>4. /\ lo * w[x] <= f[x] /\ f[x] <= hi * w[x]
    BY <2>1
  <2>5. /\ lo * k[T \ {x}] <= h[T \ {x}] /\ h[T \ {x}] <= hi * k[T \ {x}]
    BY <1>5 DEF x
  <2>6. \A c, m, n \in Int : c * (m + n) = c * m + c * n /\ c * m \in Int
    OBVIOUS
  <2>7. /\ lo * k[T] = lo * w[x] + lo * k[T \ {x}]
        /\ hi * k[T] = hi * w[x] + hi * k[T \ {x}]
    BY <2>2, <2>3, <2>6
  <2>8. /\ lo * w[x] \in Int /\ hi * w[x] \in Int
        /\ lo * k[T \ {x}] \in Int /\ hi * k[T \ {x}] \in Int
    BY <2>3, <2>6
  <2> QED
    BY <2>2, <2>3, <2>4, <2>5, <2>7, <2>8
<1>6. Good \in SUBSET (SUBSET S)
  OBVIOUS
<1> HIDE DEF Good
<1>7. Good = SUBSET S
  BY <1>4, <1>5, <1>6, SubsetInductive
<1>8. S \in Good
  BY <1>7
<1> QED
  BY <1>1, <1>2, <1>3, <1>8 DEF Good

-----------------------------------------------------------------------------
(* Extremes *)

\* The least and the greatest of two integers.
LEMMA LeastOfTwo ==
  ASSUME NEW m \in Int, NEW n \in Int
  PROVE  Min({m, n}) \in Int /\ Min({m, n}) <= m /\ Min({m, n}) <= n
<1>1. \E x \in {m, n} : \A y \in {m, n} : x <= y
  OBVIOUS
<1>2. /\ Min({m, n}) \in {m, n}
      /\ \A y \in {m, n} : Min({m, n}) <= y
  BY <1>1 DEF Min
<1> QED
  BY <1>2

LEMMA GreatestOfTwo ==
  ASSUME NEW m \in Int, NEW n \in Int
  PROVE  Max({m, n}) \in {m, n} /\ Max({m, n}) >= m /\ Max({m, n}) >= n
<1>1. \E x \in {m, n} : \A y \in {m, n} : x >= y
  OBVIOUS
<1>2. /\ Max({m, n}) \in {m, n}
      /\ \A y \in {m, n} : Max({m, n}) >= y
  BY <1>1 DEF Max
<1> QED
  BY <1>2

\* Clamped between zero and a cap, an integer is between them.
LEMMA Clamped ==
  ASSUME NEW cap \in Nat, NEW n \in Int
  PROVE  Max({0, Min({cap, n})}) \in 0 .. cap
<1> DEFINE m == Min({cap, n})
<1>1. m \in Int /\ m <= cap
  BY LeastOfTwo
<1> HIDE DEF m
<1>2. 0 \in Int
  OBVIOUS
<1>3. Max({0, m}) \in {0, m} /\ Max({0, m}) >= 0
  BY ONLY <1>1, <1>2, GreatestOfTwo
<1> QED
  BY <1>1, <1>3 DEF m

\* A finite set of integers that is not empty has a least and a greatest one.
THEOREM ExtremesExist ==
  ASSUME NEW S \in SUBSET Int, IsFiniteSet(S), S # {}
  PROVE  /\ Min(S) \in S /\ \A x \in S : Min(S) <= x
         /\ Max(S) \in S /\ \A x \in S : x <= Max(S)
<1> DEFINE Bounded(T) == /\ \E m \in T : \A x \in T : m <= x
                         /\ \E m \in T : \A x \in T : m >= x
           Good == {T \in SUBSET S : T = {} \/ Bounded(T)}
<1>1. {} \in Good
  OBVIOUS
<1>2. ASSUME NEW T \in SUBSET S, T # {}, T \ {Picked(T)} \in Good
      PROVE  T \in Good
  <2> DEFINE x == Picked(T)
  <2>1. x \in T /\ x \in Int /\ \A y \in T : y = x \/ y \in T \ {x}
    BY <1>2, PickedIn
  <2>2. CASE T \ {x} = {}
    BY <2>1, <2>2
  <2>3. CASE Bounded(T \ {x})
    <3> HIDE DEF x
    <3>1. PICK m \in T \ {x}, n \in T \ {x} : \A y \in T \ {x} : m <= y /\ n >= y
      BY <2>3
    <3>2. m \in Int /\ n \in Int /\ \A y \in T : y \in Int
      OBVIOUS
    <3>3. \E p \in T : \A y \in T : p <= y
      <4>1. CASE m <= x
        BY <2>1, <3>1, <4>1
      <4>2. CASE ~(m <= x)
        BY <2>1, <3>1, <3>2, <4>2
      <4> QED
        BY <4>1, <4>2
    <3>4. \E p \in T : \A y \in T : p >= y
      <4>1. CASE n >= x
        BY <2>1, <3>1, <4>1
      <4>2. CASE ~(n >= x)
        BY <2>1, <3>1, <3>2, <4>2
      <4> QED
        BY <4>1, <4>2
    <3> QED
      BY <3>3, <3>4
  <2> QED
    BY <1>2, <2>2, <2>3
<1>3. Good \in SUBSET (SUBSET S)
  OBVIOUS
<1> HIDE DEF Good
<1>4. Good = SUBSET S
  BY <1>1, <1>2, <1>3, SubsetInductive
<1>5. Bounded(S)
  BY <1>4 DEF Good
<1>6. /\ \E m \in S : \A x \in S : m <= x
      /\ \E m \in S : \A x \in S : m >= x
  BY <1>5
<1>7. Min(S) \in S /\ \A x \in S : Min(S) <= x
  BY <1>6 DEF Min
<1>8. Max(S) \in S /\ \A x \in S : Max(S) >= x
  BY <1>6 DEF Max
<1> QED
  BY <1>7, <1>8

=============================================================================
