------------------------------ MODULE DataLemmas ------------------------------
(***************************************************************************)
(* Induction over numbers and finite sets, with the claim given as a set,  *)
(* and what it says of the operators the models are built from: folds, the *)
(* sum of a function's values (SumFunctionOnSet) and the listings of       *)
(* Listing.                                                                *)
(***************************************************************************)
EXTENDS Listing, FiniteSetTheorems, SequenceTheorems, WellFoundedInduction, TLAPS

\* A set of numbers has a least one.
LEMMA LeastNumber ==
  ASSUME NEW T \in SUBSET Nat, T # {}
  PROVE  \E n \in T : \A k \in T : n <= k
<1> DEFINE R == OpToRel(<, Nat)
<1>1. IsWellFoundedOn(R, Nat)
  BY NatLessThanWellFounded
<1>2. \A a, b \in Nat : a < b => <<a, b>> \in R
  BY DEF OpToRel
<1> HIDE DEF R
<1>3. PICK n \in T : \A k \in T : ~(<<k, n>> \in R)
  BY <1>1, WFMin
<1>4. ASSUME NEW k \in T PROVE n <= k
  <2>1. n \in Nat /\ k \in Nat
    OBVIOUS
  <2>2. ~(k < n)
    BY <1>2, <1>3, <2>1
  <2> QED
    BY <2>1, <2>2
<1> QED
  BY <1>4

\* What holds of zero and of a number's successor holds of every number.
LEMMA NumberInduction ==
  ASSUME NEW T, 0 \in T, \A n \in Nat : n \in T => n + 1 \in T
  PROVE  Nat \subseteq T
<1> DEFINE Bad == {n \in Nat : n \notin T}
<1>1. ASSUME Bad # {} PROVE FALSE
  <2>1. PICK n \in Bad : \A k \in Bad : n <= k
    BY <1>1, LeastNumber
  <2>2. n - 1 \in Nat /\ ~(n <= n - 1)
    OBVIOUS
  <2>3. n - 1 \in T
    BY <2>1, <2>2
  <2> QED
    BY <2>2, <2>3
<1> QED
  BY <1>1

\* What holds of a set whenever it holds of the set without any one of its elements.
LEMMA SubsetInduction ==
  ASSUME NEW S, IsFiniteSet(S), NEW Good,
         \A s \in SUBSET S : (\A x \in s : s \ {x} \in Good) => s \in Good
  PROVE  S \in Good
<1> DEFINE Bad == {n \in Nat : \E s \in SUBSET S : s \notin Good /\ Cardinality(s) = n}
<1>1. ASSUME Bad # {} PROVE FALSE
  <2>1. PICK n \in Bad : \A k \in Bad : n <= k
    BY <1>1, LeastNumber
  <2>2. PICK s \in SUBSET S : s \notin Good /\ Cardinality(s) = n
    BY <2>1
  <2>3. PICK x \in s : s \ {x} \notin Good
    BY <2>2
  <2>4. IsFiniteSet(s)
    BY FS_Subset
  <2>5. Cardinality(s) \in Nat /\ Cardinality(s \ {x}) \in Nat
    BY <2>4, FS_RemoveElement, FS_CardinalityType
  <2>6. Cardinality(s \ {x}) = Cardinality(s) - 1
    BY <2>4, FS_RemoveElement
  <2>7. n - 1 \in Nat /\ Cardinality(s \ {x}) = n - 1
    BY <2>2, <2>5, <2>6
  <2>8. n - 1 \in Bad
    BY <2>3, <2>7
  <2>9. n \in Nat
    BY <2>1
  <2> QED
    BY <2>1, <2>8, <2>9
<1>2. Cardinality(S) \in Nat
  BY FS_CardinalityType
<1> QED
  BY <1>1, <1>2

-----------------------------------------------------------------------------
(* The recursive function behind a sum.                                    *)

Picked(s) == CHOOSE x \in s : TRUE

\* The equation of a fold over sets: `step' takes what `pick' picks of a set, and what there is of the rest.
Unfolds(g, base, pick, step, D) == g = [s \in D |-> IF s = {} THEN base ELSE step[pick[s]][g[s \ {pick[s]}]]]
Folds(S, V, base, pick, step) == \E g \in [SUBSET S -> V] : Unfolds(g, base, pick, step, SUBSET S)

\* The equation of the sum, for the sets of a family.
Adds(g, f, D) == g = [s \in D |-> IF s = {} THEN 0 ELSE f[Picked(s)] + g[s \ {Picked(s)}]]

LEMMA SumIsSolution ==
  ASSUME NEW f, NEW S
  PROVE  SumFunctionOnSet(f, S) = (CHOOSE g : Adds(g, f, SUBSET S))[S]
  BY DEF SumFunctionOnSet, FoldFunctionOnSet, MapThenFoldSet, Adds, Picked

Small(S, n) == {s \in SUBSET S : Cardinality(s) <= n}

LEMMA SmallSets ==
  ASSUME NEW S, IsFiniteSet(S)
  PROVE  /\ Small(S, 0) = {{}} /\ Small(S, Cardinality(S)) = SUBSET S
         /\ \A n \in Nat : \A s \in Small(S, n) : s \in Small(S, n + 1)
         /\ \A n \in Nat : \A s \in Small(S, n + 1) : \A x \in s : s \ {x} \in Small(S, n) /\ x \in S
<1>1. \A s \in SUBSET S : IsFiniteSet(s) /\ Cardinality(s) \in Nat /\ Cardinality(s) <= Cardinality(S)
  BY FS_Subset, FS_CardinalityType
<1>2. Small(S, 0) = {{}}
  BY <1>1, FS_EmptySet DEF Small
<1>3. Small(S, Cardinality(S)) = SUBSET S
  BY <1>1 DEF Small
<1>4. \A n \in Nat : \A s \in Small(S, n) : s \in Small(S, n + 1)
  BY <1>1 DEF Small
<1>5. ASSUME NEW n \in Nat, NEW s \in Small(S, n + 1), NEW x \in s PROVE s \ {x} \in Small(S, n) /\ x \in S
  <2>1. IsFiniteSet(s) /\ Cardinality(s) <= n + 1 /\ Cardinality(s) \in Nat /\ s \in SUBSET S
    BY <1>1 DEF Small
  <2>2. Cardinality(s \ {x}) = Cardinality(s) - 1
    BY <2>1, FS_RemoveElement
  <2>3. Cardinality(s \ {x}) <= n
    BY <2>1, <2>2
  <2> QED
    BY <2>1, <2>3 DEF Small
<1> QED
  BY <1>2, <1>3, <1>4, <1>5

\* A fold whose steps stay among the values has a solution ...
LEMMA FoldExists ==
  ASSUME NEW S, IsFiniteSet(S), NEW V, NEW base \in V,
         NEW pick, \A s \in SUBSET S : s # {} => pick[s] \in s,
         NEW step \in [S -> [V -> V]]
  PROVE  Folds(S, V, base, pick, step)
<1> DEFINE Has(n) == \E g \in [Small(S, n) -> V] : Unfolds(g, base, pick, step, Small(S, n))
<1>1. Small(S, 0) = {{}} /\ Small(S, Cardinality(S)) = SUBSET S
  BY SmallSets
<1>2. Has(0)
  <2> DEFINE g == [s \in {{}} |-> base]
  <2>1. g \in [Small(S, 0) -> V]
    BY <1>1
  <2>2. Unfolds(g, base, pick, step, Small(S, 0))
    BY <1>1 DEF Unfolds
  <2> QED
    BY <2>1, <2>2
<1>3. ASSUME NEW n \in Nat, Has(n) PROVE Has(n + 1)
  <2>1. PICK g \in [Small(S, n) -> V] : Unfolds(g, base, pick, step, Small(S, n))
    BY <1>3
  <2> DEFINE h == [s \in Small(S, n + 1) |-> IF s = {} THEN base ELSE step[pick[s]][g[s \ {pick[s]}]]]
  <2>2. ASSUME NEW s \in Small(S, n + 1), s # {}
        PROVE  s \ {pick[s]} \in Small(S, n) /\ pick[s] \in S
    <3>1. s \in SUBSET S
      BY DEF Small
    <3>2. pick[s] \in s
      BY <2>2, <3>1
    <3>3. \A x \in s : s \ {x} \in Small(S, n) /\ x \in S
      BY SmallSets, Zenon
    <3> QED
      BY <3>2, <3>3
  <2>3. h \in [Small(S, n + 1) -> V]
    <3>1. ASSUME NEW s \in Small(S, n + 1), s # {} PROVE step[pick[s]][g[s \ {pick[s]}]] \in V
      BY <2>2, <3>1
    <3> QED
      BY <3>1
  <2>4. ASSUME NEW s \in Small(S, n) PROVE s \in Small(S, n + 1) /\ h[s] = g[s]
    <3>1. s \in Small(S, n + 1)
      BY SmallSets
    <3>2. g[s] = IF s = {} THEN base ELSE step[pick[s]][g[s \ {pick[s]}]]
      BY <2>1 DEF Unfolds
    <3> QED
      BY <3>1, <3>2
  <2>5. ASSUME NEW s \in Small(S, n + 1) PROVE h[s] = IF s = {} THEN base ELSE step[pick[s]][h[s \ {pick[s]}]]
    <3> HIDE DEF h
    <3>1. CASE s = {}
      BY <3>1 DEF h
    <3>2. CASE s # {}
      <4>1. s \ {pick[s]} \in Small(S, n)
        BY <2>2, <3>2
      <4>2. h[s \ {pick[s]}] = g[s \ {pick[s]}]
        BY <2>4, <4>1
      <4>3. h[s] = step[pick[s]][g[s \ {pick[s]}]]
        BY <3>2 DEF h
      <4> QED
        BY <3>2, <4>2, <4>3
    <3> QED
      BY <3>1, <3>2
  <2>6. Unfolds(h, base, pick, step, Small(S, n + 1))
    <3>1. DOMAIN h = Small(S, n + 1) /\ h = [s \in DOMAIN h |-> h[s]]
      OBVIOUS
    <3> HIDE DEF h
    <3> QED
      BY <2>5, <3>1 DEF Unfolds
  <2> QED
    BY <2>3, <2>6
<1>4. \A n \in Nat : Has(n)
  <2> HIDE DEF Has
  <2> DEFINE T == {n \in Nat : Has(n)}
  <2>1. 0 \in T /\ \A n \in Nat : n \in T => n + 1 \in T
    BY <1>2, <1>3
  <2> HIDE DEF T
  <2>2. Nat \subseteq T
    BY <2>1, NumberInduction
  <2> QED
    BY <2>2 DEF T
<1>5. Cardinality(S) \in Nat
  BY FS_CardinalityType
<1>6. Has(Cardinality(S))
  BY <1>4, <1>5
<1> QED
  BY <1>1, <1>6 DEF Has, Folds

\* ... so has the sum ...
LEMMA SolutionExists ==
  ASSUME NEW S, IsFiniteSet(S), NEW f, \A x \in S : f[x] \in Int
  PROVE  \E g \in [SUBSET S -> Int] : Adds(g, f, SUBSET S)
<1> DEFINE pick == [s \in SUBSET S |-> Picked(s)]
           step == [x \in S |-> [v \in Int |-> f[x] + v]]
<1>1. \A s \in SUBSET S : pick[s] = Picked(s) /\ (s # {} => pick[s] \in s)
  BY DEF Picked
<1>2. step \in [S -> [Int -> Int]] /\ \A x \in S : \A v \in Int : step[x][v] = f[x] + v
  OBVIOUS
<1> HIDE DEF pick, step
<1>3. PICK g \in [SUBSET S -> Int] : Unfolds(g, 0, pick, step, SUBSET S)
  <2>1. 0 \in Int /\ step \in [S -> [Int -> Int]] /\ \A s \in SUBSET S : s # {} => pick[s] \in s
    BY <1>1, <1>2
  <2>2. Folds(S, Int, 0, pick, step)
    BY <2>1, FoldExists, Zenon
  <2> QED
    BY <2>2 DEF Folds
<1>4. ASSUME NEW s \in SUBSET S PROVE g[s] = IF s = {} THEN 0 ELSE f[Picked(s)] + g[s \ {Picked(s)}]
  <2>1. g[s] = IF s = {} THEN 0 ELSE step[pick[s]][g[s \ {pick[s]}]]
    BY <1>3 DEF Unfolds
  <2>2. s # {} => Picked(s) \in S /\ g[s \ {Picked(s)}] \in Int
    BY <1>1
  <2> QED
    BY <1>1, <1>2, <2>1, <2>2
<1>5. g = [s \in SUBSET S |-> g[s]]
  OBVIOUS
<1> QED
  BY <1>4, <1>5 DEF Adds

\* ... and no two of them differ on a common part.
LEMMA SolutionUnique ==
  ASSUME NEW S, IsFiniteSet(S), NEW T \in SUBSET S, NEW f, NEW g, NEW h,
         Adds(g, f, SUBSET S), Adds(h, f, SUBSET T)
  PROVE  g[T] = h[T]
<1> DEFINE Good == {s \in SUBSET T : g[s] = h[s]}
<1>1. IsFiniteSet(T)
  BY FS_Subset
<1>2. ASSUME NEW s \in SUBSET T, \A x \in s : s \ {x} \in Good PROVE s \in Good
  <2>1. /\ g[s] = IF s = {} THEN 0 ELSE f[Picked(s)] + g[s \ {Picked(s)}]
        /\ h[s] = IF s = {} THEN 0 ELSE f[Picked(s)] + h[s \ {Picked(s)}]
    BY DEF Adds
  <2>2. s # {} => Picked(s) \in s
    BY DEF Picked
  <2>3. s # {} => g[s \ {Picked(s)}] = h[s \ {Picked(s)}]
    BY <1>2, <2>2
  <2> QED
    BY <2>1, <2>3
<1>3. T \in Good
  <2> HIDE DEF Good
  <2> QED
    BY <1>1, <1>2, SubsetInduction
<1> QED
  BY <1>3

-----------------------------------------------------------------------------
(* Sums.                                                                   *)

LEMMA EmptySum == ASSUME NEW f PROVE SumFunctionOnSet(f, {}) = 0
<1>1. PICK g \in [SUBSET {} -> Int] : Adds(g, f, SUBSET {})
  BY SolutionExists, FS_EmptySet
<1>2. Adds(CHOOSE h : Adds(h, f, SUBSET {}), f, SUBSET {})
  BY <1>1
<1> QED
  BY <1>2, SumIsSolution DEF Adds

\* The sum of a set is that of the element it chooses and of the others.
LEMMA SumUnfolds ==
  ASSUME NEW S, IsFiniteSet(S), S # {}, NEW f, \A x \in S : f[x] \in Int
  PROVE  /\ Picked(S) \in S
         /\ SumFunctionOnSet(f, S) = f[Picked(S)] + SumFunctionOnSet(f, S \ {Picked(S)})
<1> DEFINE T == S \ {Picked(S)}
           g == CHOOSE i : Adds(i, f, SUBSET S)
           h == CHOOSE i : Adds(i, f, SUBSET T)
<1>1. Picked(S) \in S
  BY DEF Picked
<1>2. T \in SUBSET S /\ IsFiniteSet(T)
  BY FS_Subset
<1>3. Adds(g, f, SUBSET S)
  BY SolutionExists
<1>4. \E i : Adds(i, f, SUBSET T)
  BY <1>2, SolutionExists
<1>5. Adds(h, f, SUBSET T)
  BY <1>4
<1>6. SumFunctionOnSet(f, S) = g[S] /\ SumFunctionOnSet(f, T) = h[T]
  BY SumIsSolution
<1> HIDE DEF g, h
<1>7. g[T] = h[T]
  BY <1>2, <1>3, <1>5, SolutionUnique
<1>8. g[S] = f[Picked(S)] + g[T]
  BY <1>3 DEF Adds
<1> QED
  BY <1>1, <1>6, <1>7, <1>8

LEMMA SumType ==
  ASSUME NEW S, IsFiniteSet(S), NEW f, \A x \in S : f[x] \in Int
  PROVE  SumFunctionOnSet(f, S) \in Int
<1> DEFINE g == CHOOSE i : Adds(i, f, SUBSET S)
<1>1. PICK h \in [SUBSET S -> Int] : Adds(h, f, SUBSET S)
  BY SolutionExists
<1>2. Adds(g, f, SUBSET S)
  BY <1>1
<1>3. SumFunctionOnSet(f, S) = g[S]
  BY SumIsSolution
<1> HIDE DEF g
<1>4. g[S] = h[S]
  BY <1>1, <1>2, SolutionUnique
<1> QED
  BY <1>3, <1>4

\* ... and of any one element and of the others.
LEMMA SumSplits ==
  ASSUME NEW S, IsFiniteSet(S), NEW f, \A x \in S : f[x] \in Int, NEW a \in S
  PROVE  SumFunctionOnSet(f, S) = f[a] + SumFunctionOnSet(f, S \ {a})
<1> DEFINE Sum(s) == SumFunctionOnSet(f, s)
           Good == {s \in SUBSET S : \A x \in s : Sum(s) = f[x] + Sum(s \ {x})}
<1> HIDE DEF Sum
<1>1. ASSUME NEW s \in SUBSET S, \A x \in s : s \ {x} \in Good, NEW x \in s
      PROVE  Sum(s) = f[x] + Sum(s \ {x})
  <2> DEFINE y == Picked(s)
  <2>1. IsFiniteSet(s) /\ \A z \in s : f[z] \in Int
    BY FS_Subset
  <2>2. y \in s /\ Sum(s) = f[y] + Sum(s \ {y})
    BY <2>1, SumUnfolds DEF Sum
  <2> HIDE DEF y
  <2>3. CASE x = y
    BY <2>2, <2>3
  <2>4. CASE x # y
    <3>1. s \ {y} \in Good /\ s \ {x} \in Good /\ x \in s \ {y} /\ y \in s \ {x}
      BY <1>1, <2>2, <2>4
    <3>2. Sum(s \ {y}) = f[x] + Sum((s \ {y}) \ {x}) /\ Sum(s \ {x}) = f[y] + Sum((s \ {x}) \ {y})
      BY <3>1
    <3>3. (s \ {y}) \ {x} = (s \ {x}) \ {y}
      OBVIOUS
    <3>4. IsFiniteSet((s \ {x}) \ {y}) /\ \A z \in (s \ {x}) \ {y} : f[z] \in Int
      BY <2>1, FS_Subset
    <3>5. Sum((s \ {x}) \ {y}) \in Int
      BY <3>4, SumType DEF Sum
    <3>6. f[x] \in Int /\ f[y] \in Int
      BY <2>1, <2>2
    <3>7. Sum((s \ {y}) \ {x}) = Sum((s \ {x}) \ {y})
      BY <3>3
    <3> QED
      BY <2>2, <3>2, <3>5, <3>6, <3>7
  <2> QED
    BY <2>3, <2>4
<1>2. ASSUME NEW s \in SUBSET S, \A x \in s : s \ {x} \in Good PROVE s \in Good
  BY <1>1, <1>2
<1>3. S \in Good
  <2> HIDE DEF Good
  <2> QED
    BY <1>2, SubsetInduction
<1> QED
  BY <1>3 DEF Sum

\* A sum depends on the values of its elements only.
LEMMA SumAgrees ==
  ASSUME NEW S, IsFiniteSet(S), NEW f, NEW h, \A x \in S : f[x] \in Int /\ h[x] = f[x]
  PROVE  SumFunctionOnSet(h, S) = SumFunctionOnSet(f, S)
<1> DEFINE Good == {s \in SUBSET S : SumFunctionOnSet(h, s) = SumFunctionOnSet(f, s)}
<1>1. ASSUME NEW s \in SUBSET S, \A x \in s : s \ {x} \in Good PROVE s \in Good
  <2>1. CASE s = {}
    BY <2>1, EmptySum
  <2>2. CASE s # {}
    <3>1. IsFiniteSet(s) /\ \A x \in s : f[x] \in Int /\ h[x] \in Int /\ h[x] = f[x]
      BY FS_Subset
    <3>2. /\ Picked(s) \in s
          /\ SumFunctionOnSet(f, s) = f[Picked(s)] + SumFunctionOnSet(f, s \ {Picked(s)})
          /\ SumFunctionOnSet(h, s) = h[Picked(s)] + SumFunctionOnSet(h, s \ {Picked(s)})
      BY <2>2, <3>1, SumUnfolds
    <3>3. SumFunctionOnSet(h, s \ {Picked(s)}) = SumFunctionOnSet(f, s \ {Picked(s)})
      BY <1>1, <3>2
    <3>4. h[Picked(s)] = f[Picked(s)]
      BY <3>1, <3>2
    <3> QED
      BY <3>2, <3>3, <3>4
  <2> QED
    BY <2>1, <2>2
<1>2. S \in Good
  <2> HIDE DEF Good
  <2> QED
    BY <1>1, SubsetInduction
<1> QED
  BY <1>2

\* The sum of losses of at least one each.
LEMMA SumOfLosses ==
  ASSUME NEW S, IsFiniteSet(S), NEW f, \A x \in S : f[x] \in Int /\ f[x] <= -1
  PROVE  SumFunctionOnSet(f, S) <= -Cardinality(S)
<1> DEFINE Good == {s \in SUBSET S : SumFunctionOnSet(f, s) <= -Cardinality(s)}
<1>1. ASSUME NEW s \in SUBSET S, \A x \in s : s \ {x} \in Good PROVE s \in Good
  <2>1. CASE s = {}
    BY <2>1, EmptySum, FS_EmptySet
  <2>2. CASE s # {}
    <3>1. IsFiniteSet(s) /\ \A x \in s : f[x] \in Int /\ f[x] <= -1
      BY FS_Subset
    <3>2. Picked(s) \in s /\ SumFunctionOnSet(f, s) = f[Picked(s)] + SumFunctionOnSet(f, s \ {Picked(s)})
      BY <2>2, <3>1, SumUnfolds
    <3>3. SumFunctionOnSet(f, s \ {Picked(s)}) <= -Cardinality(s \ {Picked(s)})
      BY <1>1, <3>2
    <3>4. Cardinality(s \ {Picked(s)}) = Cardinality(s) - 1 /\ Cardinality(s) \in Nat
      BY <3>1, <3>2, FS_RemoveElement, FS_CardinalityType
    <3>5. IsFiniteSet(s \ {Picked(s)}) /\ \A x \in s \ {Picked(s)} : f[x] \in Int
      BY <3>1, FS_Subset
    <3>6. SumFunctionOnSet(f, s \ {Picked(s)}) \in Int /\ f[Picked(s)] \in Int /\ f[Picked(s)] <= -1
      BY <3>1, <3>2, <3>5, SumType
    <3> QED
      BY <3>2, <3>3, <3>4, <3>6
  <2> QED
    BY <2>1, <2>2
<1>2. S \in Good
  <2> HIDE DEF Good
  <2> QED
    BY <1>1, SubsetInduction
<1> QED
  BY <1>2

-----------------------------------------------------------------------------
(* Folds from the first to the last.                                       *)

LEMMA PlacesAreFinite ==
  ASSUME NEW n \in Nat, NEW s \in SUBSET (1..n)
  PROVE  IsFiniteSet(s) /\ Cardinality(s) \in Nat
<1>1. IsFiniteSet(1..n)
  BY FS_Interval
<1>2. IsFiniteSet(s)
  BY <1>1, FS_Subset
<1> QED
  BY <1>2, FS_CardinalityType

\* The greatest of some places, of which the others are left.
LEMMA LatestIn ==
  ASSUME NEW n \in Nat, NEW s \in SUBSET (1..n), s # {}
  PROVE  Max(s) \in s /\ \A y \in s : y <= Max(s)
<1> DEFINE T == {k \in Nat : \E x \in s : k = n - x}
<1>1. T # {} /\ T \in SUBSET Nat
  <2>1. \A x \in s : x \in 1..n /\ n - x \in Nat
    OBVIOUS
  <2> QED
    BY <2>1
<1>2. PICK k \in T : \A i \in T : k <= i
  BY <1>1, LeastNumber
<1>3. PICK x \in s : k = n - x
  BY <1>2
<1>4. ASSUME NEW y \in s PROVE x >= y /\ y <= x
  <2>1. n - y \in T /\ x \in 1..n /\ y \in 1..n
    OBVIOUS
  <2>2. n - x <= n - y
    BY <1>2, <1>3, <2>1
  <2> QED
    BY <2>1, <2>2
<1>5. Max(s) \in s /\ \A y \in s : Max(s) >= y
  BY <1>4 DEF Max
<1>6. Max(s) \in Int /\ \A y \in s : y \in Int
  <2>1. Max(s) \in 1..n /\ \A y \in s : y \in 1..n
    BY <1>5
  <2> QED
    BY <2>1
<1>7. ASSUME NEW y \in s PROVE y <= Max(s)
  <2>1. y \in Int /\ Max(s) \in Int /\ Max(s) >= y
    BY <1>5, <1>6
  <2> QED
    BY <2>1
<1> QED
  BY <1>5, <1>7

\* The last of the first places.
LEMMA LastOfFirst ==
  ASSUME NEW n \in Nat, NEW i \in 1..n
  PROVE  Max(1..i) = i /\ (1..i) \ {i} = 1..i - 1 /\ 1..i \in SUBSET (1..n) /\ 1..i # {} /\ i - 1 \in 0..n
<1>1. 1..i \in SUBSET (1..n) /\ i \in 1..i /\ (1..i) \ {i} = 1..i - 1
  OBVIOUS
<1>2. Max(1..i) \in 1..i /\ i <= Max(1..i)
  BY <1>1, LatestIn
<1>3. Max(1..i) = i
  BY <1>2
<1> QED
  BY <1>1, <1>3

\* What holds at the start and after a place whenever it held before it holds at the end.
LEMMA Stepwise ==
  ASSUME NEW n \in Nat, NEW T, 0 \in T, \A i \in 1..n : i - 1 \in T => i \in T
  PROVE  n \in T
<1> DEFINE U == {i \in Nat : i <= n => i \in T}
<1>1. 0 \in U
  OBVIOUS
<1>2. ASSUME NEW i \in Nat, i \in U PROVE i + 1 \in U
  <2>1. CASE i + 1 <= n
    <3>1. i + 1 \in 1..n /\ (i + 1) - 1 = i /\ i <= n
      BY <2>1
    <3>2. i \in T
      BY <1>2, <3>1
    <3> QED
      BY <3>1, <3>2
  <2>2. CASE ~(i + 1 <= n)
    BY <2>2
  <2> QED
    BY <2>1, <2>2
<1>3. Nat \subseteq U
  <2> HIDE DEF U
  <2> QED
    BY <1>1, <1>2, NumberInduction
<1> QED
  BY <1>3

\* The equation of a fold over some places, in their order.
Walks(g, base, step, places) ==
    g = [s \in SUBSET places |-> IF s = {} THEN base ELSE step[Max(s)][g[s \ {Max(s)}]]]
Walked(V, base, step, places) == \E g \in [SUBSET places -> V] : Walks(g, base, step, places)

LEMMA WalkExists ==
  ASSUME NEW n \in Nat, NEW places \in SUBSET (1..n), NEW V, NEW base \in V, NEW step \in [places -> [V -> V]]
  PROVE  Walked(V, base, step, places)
<1> DEFINE pick == [s \in SUBSET places |-> Max(s)]
<1>1. ASSUME NEW s \in SUBSET places PROVE pick[s] = Max(s) /\ (s # {} => pick[s] \in s)
  <2>1. s \in SUBSET (1..n)
    OBVIOUS
  <2> QED
    BY <2>1, LatestIn
<1>2. IsFiniteSet(places)
  BY PlacesAreFinite
<1> HIDE DEF pick
<1>3. Folds(places, V, base, pick, step)
  <2>1. \A s \in SUBSET places : s # {} => pick[s] \in s
    BY <1>1
  <2> QED
    BY <1>2, <2>1, FoldExists, Zenon
<1>4. PICK g \in [SUBSET places -> V] : Unfolds(g, base, pick, step, SUBSET places)
  BY <1>3 DEF Folds
<1>5. ASSUME NEW s \in SUBSET places
      PROVE  g[s] = IF s = {} THEN base ELSE step[Max(s)][g[s \ {Max(s)}]]
  <2>1. g[s] = IF s = {} THEN base ELSE step[pick[s]][g[s \ {pick[s]}]]
    BY <1>4 DEF Unfolds
  <2> QED
    BY <1>1, <2>1
<1>6. g = [s \in SUBSET places |-> g[s]]
  OBVIOUS
<1> QED
  BY <1>5, <1>6 DEF Walks, Walked

-----------------------------------------------------------------------------
(* Listings.                                                               *)

Lists(listed, numbers) ==
    /\ listed \in [1..Cardinality(numbers) -> numbers] /\ Cardinality(numbers) \in Nat
    /\ \A i, j \in 1..Cardinality(numbers) : i < j => listed[i] < listed[j]
    /\ \A x \in numbers : \E i \in 1..Cardinality(numbers) : listed[i] = x

Appends(g, numbers) == g = [s \in SUBSET numbers |-> IF s = {} THEN <<>> ELSE Append(g[s \ {Max(s)}], Max(s))]

LEMMA AscendingIsWalk ==
  ASSUME NEW numbers
  PROVE  Ascending(numbers) = (CHOOSE g : Appends(g, numbers))[numbers]
  BY DEF Ascending, MapThenFoldSet, Appends

\* One more, greater than all the others, comes last.
LEMMA ListingGrows ==
  ASSUME NEW n \in Nat, NEW s \in SUBSET (1..n), NEW m \in s, \A y \in s : y <= m,
         NEW listed, Lists(listed, s \ {m})
  PROVE  Lists(Append(listed, m), s)
<1> DEFINE c == Cardinality(s)
           new == Append(listed, m)
<1>1. IsFiniteSet(s)
  BY PlacesAreFinite
<1>2. c \in Nat /\ Cardinality(s \ {m}) = c - 1 /\ c - 1 \in Nat
  <2>1. IsFiniteSet(s \ {m})
    BY <1>1, FS_Subset
  <2> QED
    BY <1>1, <2>1, FS_RemoveElement, FS_CardinalityType
<1> HIDE DEF c
<1>3. listed \in [1..c - 1 -> s \ {m}]
  BY <1>2 DEF Lists
<1>4. listed \in Seq(s) /\ Len(listed) = c - 1
  <2>1. listed \in [1..c - 1 -> s]
    BY <1>3
  <2> QED
    BY <1>2, <2>1, SeqDef, LenProperties
<1>5. new \in [1..c -> s] /\ new[c] = m /\ \A i \in 1..c - 1 : new[i] = listed[i]
  <2>1. Len(listed) + 1 = c
    BY <1>2, <1>4
  <2>2. new \in Seq(s) /\ Len(new) = c /\ new[c] = m /\ \A i \in 1..c - 1 : new[i] = listed[i]
    BY <1>4, <2>1, AppendProperties
  <2> QED
    BY <2>2, LenProperties
<1> HIDE DEF new
<1>6. ASSUME NEW i \in 1..c, NEW j \in 1..c, i < j PROVE new[i] < new[j]
  <2>1. i \in 1..c - 1 /\ new[i] = listed[i] /\ listed[i] \in s \ {m}
    <3>1. i \in 1..c - 1
      BY <1>2, <1>6
    <3> QED
      BY <1>3, <1>5, <3>1
  <2>2. CASE j \in 1..c - 1
    BY <1>2, <1>5, <1>6, <2>1, <2>2 DEF Lists
  <2>3. CASE j = c
    <3>1. listed[i] <= m /\ listed[i] # m
      BY <2>1
    <3>2. listed[i] \in 1..n /\ m \in 1..n
      BY <2>1
    <3> QED
      BY <1>5, <2>1, <2>3, <3>1, <3>2
  <2>4. j \in 1..c - 1 \/ j = c
    BY <1>2
  <2> QED
    BY <2>2, <2>3, <2>4
<1>7. ASSUME NEW x \in s PROVE \E i \in 1..c : new[i] = x
  <2>1. CASE x = m
    <3>1. c \in 1..c
      <4>1. c - 1 \in Nat
        BY <1>2
      <4> QED
        BY <4>1, <1>2
    <3> QED
      BY <1>5, <2>1, <3>1
  <2>2. CASE x # m
    <3>1. PICK i \in 1..c - 1 : listed[i] = x
      BY <1>2, <2>2 DEF Lists
    <3>2. i \in 1..c
      BY <1>2
    <3> QED
      BY <1>5, <3>1, <3>2
  <2> QED
    BY <2>1, <2>2
<1> QED
  BY <1>2, <1>5, <1>6, <1>7 DEF Lists, c, new

\* Ascending lists the numbers, each once, in their order.
LEMMA AscendingLists ==
  ASSUME NEW n \in Nat, NEW numbers \in SUBSET (1..n)
  PROVE  Lists(Ascending(numbers), numbers)
<1> DEFINE V == Seq(1..n)
           step == [i \in numbers |-> [v \in V |-> Append(v, i)]]
           g == CHOOSE h : Appends(h, numbers)
<1>1. IsFiniteSet(numbers)
  BY PlacesAreFinite
<1>2. step \in [numbers -> [V -> V]] /\ \A i \in numbers : \A v \in V : step[i][v] = Append(v, i)
  BY AppendProperties
<1>3. <<>> \in V
  BY EmptySeq
<1>4. ASSUME NEW s \in SUBSET numbers, s # {} PROVE Max(s) \in s /\ \A y \in s : y <= Max(s)
  <2>1. s \in SUBSET (1..n)
    OBVIOUS
  <2> QED
    BY <1>4, <2>1, LatestIn
<1> HIDE DEF step, V
<1>5. Walked(V, <<>>, step, numbers)
  BY <1>2, <1>3, WalkExists, Zenon
<1>6. PICK h \in [SUBSET numbers -> V] : Walks(h, <<>>, step, numbers)
  BY <1>5 DEF Walked
<1>7. Appends(h, numbers)
  <2>1. ASSUME NEW s \in SUBSET numbers PROVE h[s] = IF s = {} THEN <<>> ELSE Append(h[s \ {Max(s)}], Max(s))
    <3>1. h[s] = IF s = {} THEN <<>> ELSE step[Max(s)][h[s \ {Max(s)}]]
      BY <1>6 DEF Walks
    <3>2. s # {} => Max(s) \in numbers /\ h[s \ {Max(s)}] \in V
      BY <1>4
    <3> QED
      BY <1>2, <3>1, <3>2
  <2>2. h = [s \in SUBSET numbers |-> h[s]]
    OBVIOUS
  <2> QED
    BY <2>1, <2>2 DEF Appends
<1>8. Appends(g, numbers)
  BY <1>7
<1> HIDE DEF g
<1> DEFINE Good == {s \in SUBSET numbers : Lists(g[s], s)}
<1>9. ASSUME NEW s \in SUBSET numbers, \A x \in s : s \ {x} \in Good PROVE s \in Good
  <2>1. g[s] = IF s = {} THEN <<>> ELSE Append(g[s \ {Max(s)}], Max(s))
    BY <1>8 DEF Appends
  <2>2. CASE s = {}
    <3>1. Cardinality(s) = 0
      BY <2>2, FS_EmptySet
    <3>2. g[s] = <<>> /\ 1..Cardinality(s) = {}
      BY <2>1, <2>2, <3>1
    <3>3. g[s] \in [1..Cardinality(s) -> s]
      BY <2>2, <3>2
    <3>4. Cardinality(s) \in Nat
      BY <3>1
    <3> QED
      BY <2>2, <3>2, <3>3, <3>4 DEF Lists
  <2>3. CASE s # {}
    <3>1. Max(s) \in s /\ \A y \in s : y <= Max(s)
      BY <1>4, <2>3
    <3>2. Lists(g[s \ {Max(s)}], s \ {Max(s)})
      BY <1>9, <3>1
    <3>3. s \in SUBSET (1..n)
      OBVIOUS
    <3>4. Lists(Append(g[s \ {Max(s)}], Max(s)), s)
      BY <3>1, <3>2, <3>3, ListingGrows
    <3> QED
      BY <2>1, <2>3, <3>4
  <2> QED
    BY <2>2, <2>3
<1>10. numbers \in Good
  <2> HIDE DEF Good
  <2> QED
    BY <1>1, <1>9, SubsetInduction
<1> QED
  BY <1>10, AscendingIsWalk DEF g

LEMMA FilteredIs ==
  ASSUME NEW s, NEW places
  PROVE  Filtered(s, places) = [k \in DOMAIN Ascending(places) |-> s[Ascending(places)[k]]]
  BY DEF Filtered

\* What is kept is as many elements as there are places, each at one of them, in their order.
LEMMA FilteredLists ==
  ASSUME NEW n \in Nat, NEW places \in SUBSET (1..n), NEW s
  PROVE  /\ Cardinality(places) \in Nat /\ DOMAIN Filtered(s, places) = 1..Cardinality(places)
         /\ Lists(Ascending(places), places)
         /\ \A k \in 1..Cardinality(places) : Filtered(s, places)[k] = s[Ascending(places)[k]]
<1>1. Lists(Ascending(places), places)
  BY AscendingLists
<1>2. DOMAIN Ascending(places) = 1..Cardinality(places) /\ Cardinality(places) \in Nat
  BY <1>1 DEF Lists
<1> QED
  BY <1>1, <1>2, FilteredIs

LEMMA FilteredType ==
  ASSUME NEW n \in Nat, NEW places \in SUBSET (1..n), NEW T, NEW s, \A i \in places : s[i] \in T
  PROVE  Filtered(s, places) \in Seq(T) /\ Len(Filtered(s, places)) = Cardinality(places)
<1> DEFINE c == Cardinality(places)
           kept == Filtered(s, places)
<1>1. c \in Nat /\ DOMAIN kept = 1..c /\ \A k \in 1..c : kept[k] = s[Ascending(places)[k]]
  BY FilteredLists
<1>2. \A k \in 1..c : Ascending(places)[k] \in places
  BY FilteredLists DEF Lists
<1>3. kept = [k \in DOMAIN kept |-> kept[k]]
  BY FilteredIs
<1> HIDE DEF c, kept
<1>4. kept \in [1..c -> T]
  <2>1. \A k \in 1..c : kept[k] \in T
    BY <1>1, <1>2
  <2> QED
    BY <1>1, <1>3, <2>1
<1>5. kept \in Seq(T) /\ Len(kept) = c
  BY <1>1, <1>4, SeqDef, LenProperties
<1> QED
  BY <1>5 DEF c, kept

\* ... of which the last is the greatest.
LEMMA LastListed ==
  ASSUME NEW numbers, NEW listed, Lists(listed, numbers), numbers \in SUBSET Int, Cardinality(numbers) # 0
  PROVE  listed[Cardinality(numbers)] \in numbers /\ \A x \in numbers : x <= listed[Cardinality(numbers)]
<1> DEFINE c == Cardinality(numbers)
<1>1. c \in Nat /\ c \in 1..c
  BY DEF Lists
<1>2. \A i \in 1..c : listed[i] \in numbers /\ listed[i] \in Int
  BY DEF Lists
<1>3. ASSUME NEW x \in numbers PROVE x <= listed[c]
  <2>1. PICK i \in 1..c : listed[i] = x
    BY DEF Lists
  <2>2. CASE i = c
    BY <1>2, <2>1, <2>2
  <2>3. CASE i # c
    <3>1. i < c
      BY <1>1, <2>3
    <3>2. listed[i] < listed[c]
      BY <1>1, <3>1 DEF Lists
    <3> QED
      BY <1>1, <1>2, <2>1, <3>2
  <2> QED
    BY <2>2, <2>3
<1> QED
  BY <1>1, <1>2, <1>3

Joined(U, S, part) == {u \in U : \E x \in S : u \in part[x]}
Parted(U, S, part) ==
    /\ \A x \in S : part[x] \in SUBSET U
    /\ \A x, y \in S : x # y => part[x] \cap part[y] = {}

\* The sizes of parts that have nothing in common sum up to that of the whole.
LEMMA SumOfParts ==
  ASSUME NEW S, IsFiniteSet(S), NEW U, IsFiniteSet(U), NEW part, Parted(U, S, part), NEW f, \A x \in S : f[x] = Cardinality(part[x])
  PROVE  SumFunctionOnSet(f, S) = Cardinality(Joined(U, S, part))
<1> DEFINE whole(s) == {u \in U : \E x \in s : u \in part[x]}
           Good == {s \in SUBSET S : SumFunctionOnSet(f, s) = Cardinality(whole(s))}
<1>1. \A x \in S : f[x] \in Int /\ IsFiniteSet(part[x])
  BY FS_Subset, FS_CardinalityType DEF Parted
<1>2. ASSUME NEW s \in SUBSET S, \A x \in s : s \ {x} \in Good PROVE s \in Good
  <2>1. CASE s = {}
    <3>1. whole(s) = {}
      BY <2>1
    <3>2. Cardinality(whole(s)) = 0
      BY <3>1, FS_EmptySet
    <3> QED
      BY <2>1, <3>2, EmptySum
  <2>2. CASE s # {}
    <3> DEFINE x == Picked(s)
               rest == s \ {x}
    <3>1. IsFiniteSet(s) /\ \A y \in s : f[y] \in Int
      BY <1>1, FS_Subset
    <3>2. x \in s /\ SumFunctionOnSet(f, s) = f[x] + SumFunctionOnSet(f, rest)
      BY <2>2, <3>1, SumUnfolds
    <3> HIDE DEF x
    <3>3. SumFunctionOnSet(f, rest) = Cardinality(whole(rest))
      BY <1>2, <3>2
    <3>4. whole(s) = part[x] \cup whole(rest)
      BY <3>2 DEF Parted
    <3>5. part[x] \cap whole(rest) = {}
      <4>1. \A y \in rest : part[x] \cap part[y] = {}
        BY <3>2 DEF Parted
      <4> QED
        BY <4>1
    <3>6. IsFiniteSet(part[x]) /\ IsFiniteSet(whole(rest))
      <4>1. whole(rest) \in SUBSET U
        OBVIOUS
      <4> HIDE DEF whole
      <4> QED
        BY <1>1, <3>2, <4>1, FS_Subset
    <3>7. Cardinality(part[x] \cup whole(rest)) = Cardinality(part[x]) + Cardinality(whole(rest))
      <4>1. Cardinality({}) = 0 /\ Cardinality(part[x]) \in Nat /\ Cardinality(whole(rest)) \in Nat
        BY <3>6, FS_EmptySet, FS_CardinalityType
      <4>2. Cardinality(part[x] \cup whole(rest)) = Cardinality(part[x]) + Cardinality(whole(rest)) - Cardinality(part[x] \cap whole(rest))
        <5> HIDE DEF whole, rest
        <5> QED
          BY <3>6, FS_Union
      <4>3. Cardinality(part[x] \cap whole(rest)) = 0
        BY <3>5, <4>1
      <4> HIDE DEF whole, rest
      <4> QED
        BY <4>1, <4>2, <4>3
    <3>8. f[x] = Cardinality(part[x])
      BY <3>2
    <3>9. SumFunctionOnSet(f, s) = Cardinality(whole(s))
      BY <3>2, <3>3, <3>4, <3>7, <3>8
    <3> QED
      BY <3>9
  <2> QED
    BY <2>1, <2>2
<1>3. S \in Good
  <2> HIDE DEF Good
  <2> QED
    BY <1>2, SubsetInduction
<1> QED
  BY <1>3 DEF Joined

\* Finitely many numbers have a greatest and a least one.
LEMMA BoundsIn ==
  ASSUME NEW S, IsFiniteSet(S), S \subseteq Int, S # {}
  PROVE  /\ Max(S) \in S /\ \A y \in S : y <= Max(S)
         /\ Min(S) \in S /\ \A y \in S : Min(S) <= y
<1> DEFINE Bounded(s) == s # {} => (\E m \in s : \A y \in s : m >= y) /\ (\E m \in s : \A y \in s : m <= y)
           Good == {s \in SUBSET S : Bounded(s)}
<1>1. ASSUME NEW s \in SUBSET S, \A x \in s : s \ {x} \in Good PROVE s \in Good
  <2>1. CASE s = {}
    BY <2>1
  <2>2. CASE s # {}
    <3>1. PICK x \in s : TRUE
      BY <2>2
    <3>2. Bounded(s \ {x}) /\ \A y \in s : y \in Int
      BY <1>1, <3>1
    <3>3. CASE s \ {x} = {}
      <4>1. \A y \in s : y = x
        BY <3>3
      <4>2. x >= x /\ x <= x
        BY <3>2
      <4> QED
        BY <4>1, <4>2
    <3>4. CASE s \ {x} # {}
      <4>1. PICK a \in s \ {x} : \A y \in s \ {x} : a >= y
        BY <3>2, <3>4
      <4>2. PICK b \in s \ {x} : \A y \in s \ {x} : b <= y
        BY <3>2, <3>4
      <4>3. \E m \in s : \A y \in s : m >= y
        <5>1. CASE x >= a
          <6>1. \A y \in s : x >= y
            BY <3>2, <4>1, <5>1
          <6> QED
            BY <6>1
        <5>2. CASE ~(x >= a)
          <6>1. \A y \in s : a >= y
            BY <3>2, <4>1, <5>2
          <6> QED
            BY <6>1
        <5> QED
          BY <5>1, <5>2
      <4>4. \E m \in s : \A y \in s : m <= y
        <5>1. CASE x <= b
          <6>1. \A y \in s : x <= y
            BY <3>2, <4>2, <5>1
          <6> QED
            BY <6>1
        <5>2. CASE ~(x <= b)
          <6>1. \A y \in s : b <= y
            BY <3>2, <4>2, <5>2
          <6> QED
            BY <6>1
        <5> QED
          BY <5>1, <5>2
      <4> QED
        BY <4>3, <4>4
    <3> QED
      BY <3>3, <3>4
  <2> QED
    BY <2>1, <2>2
<1>2. S \in Good
  <2> HIDE DEF Good
  <2> QED
    BY <1>1, SubsetInduction
<1>3. Max(S) \in S /\ \A y \in S : Max(S) >= y
  BY <1>2 DEF Max
<1>4. Min(S) \in S /\ \A y \in S : Min(S) <= y
  BY <1>2 DEF Min
<1>5. \A y \in S : y <= Max(S)
  BY <1>3
<1> QED
  BY <1>3, <1>4, <1>5

\* The first of what is listed is the least.
LEMMA FirstListed ==
  ASSUME NEW n \in Nat, NEW places \in SUBSET (1..n), places # {}
  PROVE  /\ 1 \in 1..Cardinality(places)
         /\ Ascending(places)[1] \in places /\ \A x \in places : Ascending(places)[1] <= x
<1> DEFINE c == Cardinality(places)
           at == Ascending(places)
<1>1. Lists(at, places)
  BY AscendingLists
<1> HIDE DEF at
<1>2. /\ \A i \in 1..c : at[i] \in places
      /\ \A i, j \in 1..c : i < j => at[i] < at[j]
      /\ \A x \in places : \E i \in 1..c : at[i] = x
      /\ c \in Nat
  BY <1>1 DEF Lists
<1> HIDE DEF c
<1>3. 1 \in 1..c
  <2>1. PICK x \in places : TRUE
    OBVIOUS
  <2>2. PICK i \in 1..c : at[i] = x
    BY <1>2, <2>1
  <2> QED
    BY <1>2, <2>2
<1>4. ASSUME NEW x \in places PROVE at[1] <= x
  <2>1. PICK i \in 1..c : at[i] = x
    BY <1>2
  <2>2. i = 1 \/ 1 < i
    BY <1>2
  <2>3. at[1] \in 1..n /\ at[i] \in 1..n
    BY <1>2, <1>3
  <2> QED
    BY <1>2, <1>3, <2>1, <2>2, <2>3
<1> QED
  BY <1>2, <1>3, <1>4 DEF at, c

-----------------------------------------------------------------------------
(* Sorting.                                                                *)

\* Places that come before others: a strict weak order.
Ranking(n, before) ==
    /\ before \in [1..n -> SUBSET (1..n)]
    /\ \A i \in 1..n : i \notin before[i]
    /\ \A i, j, k \in 1..n : j \in before[i] /\ k \in before[j] => k \in before[i]
    /\ \A i, j, k \in 1..n : j \in before[i] => j \in before[k] \/ k \in before[i]

\* Places that stand in a queue: a strict total order.
Queue(n, ahead) ==
    /\ ahead \in [1..n -> SUBSET (1..n)]
    /\ \A i \in 1..n : i \notin ahead[i]
    /\ \A i, j \in 1..n : i = j \/ i \in ahead[j] \/ j \in ahead[i]
    /\ \A i, j, k \in 1..n : j \in ahead[i] /\ k \in ahead[j] => k \in ahead[i]

\* The lower place goes first among equals.
Ahead(n, before) == [i \in 1..n |-> {j \in 1..n : j \in before[i] \/ (i \notin before[j] /\ j < i)}]

LEMMA RankingQueues ==
  ASSUME NEW n \in Nat, NEW before, Ranking(n, before)
  PROVE  Queue(n, Ahead(n, before))
<1> DEFINE ahead == Ahead(n, before)
<1>1. \A i, j \in 1..n : j \in ahead[i] <=> j \in before[i] \/ (i \notin before[j] /\ j < i)
  BY DEF Ahead
<1>2. ahead \in [1..n -> SUBSET (1..n)]
  BY DEF Ahead
<1> HIDE DEF ahead
<1>3. \A i \in 1..n : i \notin ahead[i]
  BY <1>1 DEF Ranking
<1>4. \A i, j \in 1..n : i = j \/ i \in ahead[j] \/ j \in ahead[i]
  <2>1. ASSUME NEW i \in 1..n, NEW j \in 1..n PROVE i = j \/ i < j \/ j < i
    OBVIOUS
  <2> QED
    BY <1>1, <2>1
<1>5. ASSUME NEW i \in 1..n, NEW j \in 1..n, NEW k \in 1..n, j \in ahead[i], k \in ahead[j] PROVE k \in ahead[i]
  <2>1. /\ j \in before[i] \/ (i \notin before[j] /\ j < i)
        /\ k \in before[j] \/ (j \notin before[k] /\ k < j)
    BY <1>1, <1>5
  <2>2. j < i /\ k < j => k < i
    OBVIOUS
  <2>3. k \in before[i] \/ (i \notin before[k] /\ k < i)
    BY <2>1, <2>2 DEF Ranking
  <2> QED
    BY <1>1, <2>3
<1> QED
  BY <1>2, <1>3, <1>4, <1>5 DEF Queue, ahead

\* Who has so many ahead.
Turn(n, ahead) == [k \in 1..n |-> CHOOSE i \in 1..n : Cardinality(ahead[i]) = k - 1]

\* A queue is one after the other, and everybody has a turn.
LEMMA TurnsComplete ==
  ASSUME NEW n \in Nat, NEW ahead, Queue(n, ahead)
  PROVE  /\ Turn(n, ahead) \in [1..n -> 1..n]
         /\ \A i \in 1..n : \E k \in 1..n : Turn(n, ahead)[k] = i
         /\ \A k, l \in 1..n : k < l => Turn(n, ahead)[k] \in ahead[Turn(n, ahead)[l]]
<1> DEFINE rank == [i \in 1..n |-> Cardinality(ahead[i]) + 1]
           at == Turn(n, ahead)
<1>1. IsFiniteSet(1..n) /\ Cardinality(1..n) = n
  BY FS_Interval
<1>2. ASSUME NEW i \in 1..n
      PROVE  ahead[i] \in SUBSET (1..n) /\ IsFiniteSet(ahead[i]) /\ Cardinality(ahead[i]) \in Nat /\ Cardinality(ahead[i]) < n
  <2>1. ahead[i] \in SUBSET ((1..n) \ {i})
    BY DEF Queue
  <2>2. IsFiniteSet((1..n) \ {i}) /\ Cardinality((1..n) \ {i}) = n - 1
    BY <1>1, FS_RemoveElement
  <2>3. IsFiniteSet(ahead[i]) /\ Cardinality(ahead[i]) <= Cardinality((1..n) \ {i})
    BY <2>1, <2>2, FS_Subset
  <2>4. Cardinality(ahead[i]) \in Nat
    BY <2>3, FS_CardinalityType
  <2> QED
    BY <2>1, <2>2, <2>3, <2>4
<1>3. ASSUME NEW i \in 1..n, NEW j \in 1..n, j \in ahead[i] PROVE Cardinality(ahead[j]) < Cardinality(ahead[i])
  <2>1. ahead[j] \cup {j} \in SUBSET ahead[i] /\ j \notin ahead[j]
    BY <1>2, <1>3 DEF Queue
  <2>2. IsFiniteSet(ahead[j] \cup {j}) /\ Cardinality(ahead[j] \cup {j}) = Cardinality(ahead[j]) + 1
    BY <1>2, <2>1, FS_AddElement
  <2>3. Cardinality(ahead[j] \cup {j}) <= Cardinality(ahead[i])
    BY <1>2, <2>1, FS_Subset
  <2>4. Cardinality(ahead[j]) \in Nat /\ Cardinality(ahead[i]) \in Nat
    BY <1>2
  <2> QED
    BY <2>2, <2>3, <2>4
<1>4. \A i, j \in 1..n : Cardinality(ahead[i]) = Cardinality(ahead[j]) => i = j
  <2>1. ASSUME NEW i \in 1..n, NEW j \in 1..n PROVE i = j \/ i \in ahead[j] \/ j \in ahead[i]
    BY DEF Queue
  <2>2. ASSUME NEW i \in 1..n, NEW j \in 1..n, Cardinality(ahead[i]) = Cardinality(ahead[j]) PROVE i = j
    <3>1. ~(Cardinality(ahead[i]) < Cardinality(ahead[j])) /\ ~(Cardinality(ahead[j]) < Cardinality(ahead[i]))
      BY <1>2, <2>2
    <3> QED
      BY <1>3, <2>1, <3>1
  <2> QED
    BY <2>2
<1>5. rank \in [1..n -> 1..n]
  <2>1. \A i \in 1..n : Cardinality(ahead[i]) + 1 \in 1..n
    BY <1>2
  <2> QED
    BY <2>1
<1>6. \A i, j \in 1..n : rank[i] = rank[j] => i = j
  <2>1. \A i \in 1..n : rank[i] = Cardinality(ahead[i]) + 1 /\ Cardinality(ahead[i]) \in Nat
    BY <1>2
  <2> HIDE DEF rank
  <2>2. \A i, j \in 1..n : rank[i] = rank[j] => Cardinality(ahead[i]) = Cardinality(ahead[j])
    BY <2>1
  <2> QED
    BY <1>4, <2>2
<1>7. rank \in Injection(1..n, 1..n)
  <2> HIDE DEF rank
  <2> QED
    BY <1>5, <1>6 DEF Injection, IsInjective
<1>8. rank \in Surjection(1..n, 1..n)
  <2> HIDE DEF rank
  <2> QED
    BY <1>1, <1>7, FS_Injection
<1>9. \A k \in 1..n : \E i \in 1..n : Cardinality(ahead[i]) = k - 1
  <2>1. \A k \in 1..n : \E i \in 1..n : rank[i] = k
    <3> HIDE DEF rank
    <3> QED
      BY <1>8 DEF Surjection
  <2>2. ASSUME NEW k \in 1..n PROVE \E i \in 1..n : Cardinality(ahead[i]) = k - 1
    <3>1. PICK i \in 1..n : rank[i] = k
      BY <2>1
    <3>2. Cardinality(ahead[i]) + 1 = k /\ Cardinality(ahead[i]) \in Nat
      BY <1>2, <3>1
    <3> QED
      BY <3>2
  <2> QED
    BY <2>2
<1>10. \A k \in 1..n : at[k] \in 1..n /\ Cardinality(ahead[at[k]]) = k - 1
  BY <1>9 DEF Turn
<1>11. at \in [1..n -> 1..n]
  BY <1>10 DEF Turn
<1> HIDE DEF at
<1>12. ASSUME NEW i \in 1..n PROVE \E k \in 1..n : at[k] = i
  <2> DEFINE k == Cardinality(ahead[i]) + 1
  <2>1. k \in 1..n /\ Cardinality(ahead[i]) = k - 1
    BY <1>2
  <2> HIDE DEF k
  <2>2. at[k] \in 1..n /\ Cardinality(ahead[at[k]]) = Cardinality(ahead[i])
    BY <1>10, <2>1
  <2> QED
    BY <1>4, <2>1, <2>2
<1>13. ASSUME NEW k \in 1..n, NEW l \in 1..n, k < l PROVE at[k] \in ahead[at[l]]
  <2>1. /\ at[k] \in 1..n /\ Cardinality(ahead[at[k]]) = k - 1
        /\ at[l] \in 1..n /\ Cardinality(ahead[at[l]]) = l - 1
    BY <1>10
  <2>2. at[k] = at[l] \/ at[k] \in ahead[at[l]] \/ at[l] \in ahead[at[k]]
    BY <2>1 DEF Queue
  <2>3. at[k] # at[l] /\ ~(Cardinality(ahead[at[l]]) < Cardinality(ahead[at[k]]))
    BY <1>13, <2>1
  <2> QED
    BY <1>3, <2>1, <2>2, <2>3
<1> QED
  BY <1>11, <1>12, <1>13 DEF at

\* Sorted places: everybody has one, and who comes before another does not stand after him.
Ordered(n, before, at) ==
    /\ at \in [1..n -> 1..n]
    /\ \A i \in 1..n : \E k \in 1..n : at[k] = i
    /\ \A k, l \in 1..n : k < l => at[l] \notin before[at[k]]

LEMMA ArrangedOrders ==
  ASSUME NEW n \in Nat, NEW before, Ranking(n, before), NEW s, DOMAIN s = 1..n
  PROVE  \E at : Ordered(n, before, at) /\ Arranged(s, Ahead(n, before)) = [k \in 1..n |-> s[at[k]]]
<1> DEFINE ahead == Ahead(n, before)
           at == Turn(n, ahead)
<1>1. Queue(n, ahead)
  BY RankingQueues
<1>2. Arranged(s, ahead) = [k \in 1..n |-> s[at[k]]]
  BY DEF Arranged, Turn
<1>3. \A i, j \in 1..n : j \in ahead[i] => i \notin before[j]
  BY DEF Ahead, Ranking
<1> HIDE DEF ahead
<1>4. /\ at \in [1..n -> 1..n]
      /\ \A i \in 1..n : \E k \in 1..n : at[k] = i
      /\ \A k, l \in 1..n : k < l => at[k] \in ahead[at[l]]
  BY <1>1, TurnsComplete
<1> HIDE DEF at
<1>5. ASSUME NEW k \in 1..n, NEW l \in 1..n, k < l PROVE at[l] \notin before[at[k]]
  <2>1. at[k] \in 1..n /\ at[l] \in 1..n /\ at[k] \in ahead[at[l]]
    BY <1>4, <1>5
  <2> QED
    BY <1>3, <2>1
<1>6. Ordered(n, before, at)
  BY <1>4, <1>5 DEF Ordered
<1> QED
  BY <1>2, <1>6 DEF ahead
=============================================================================
