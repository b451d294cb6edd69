------------------------------ MODULE SumLemmas ------------------------------
(***************************************************************************)
(* Sums over finite sets: AlertEngine's averages and Pipeline's counts of  *)
(* rows are FoldFunctionOnSet(+, 0, f, S), which Folds defines by a        *)
(* recursive function on the subsets of S.  The lemmas say what such a sum *)
(* is bounded by.  Induction over data is an induction on sets here: a set *)
(* of natural numbers has a least element, so a set of subsets that has {} *)
(* and is closed under adding the element that was picked has S.           *)
(***************************************************************************)
EXTENDS Integers, Functions, FiniteSetTheorems, WellFoundedInduction, TLAPS

\* The sum of f over S.
Total(f, S) == FoldFunctionOnSet(+, 0, f, S)

\* The element that a fold takes next.
Picked(s) == CHOOSE x \in s : TRUE

\* g is the recursive function of the fold, on the sets in T.
Adds(f, T, g) == g = [s \in T |-> IF s = {} THEN 0 ELSE f[Picked(s)] + g[s \ {Picked(s)}]]

\* A nonempty set of natural numbers has a least element.
LEMMA LeastNat ==
    ASSUME NEW T, T \subseteq Nat, T # {}
    PROVE  \E n \in T : \A m \in T : n <= m
<1> DEFINE R == {ss \in Nat \X Nat : ss[1] < ss[2]}
<1>1. IsWellFoundedOn(R, Nat)
  BY NatLessThanWellFounded DEF OpToRel
<1>2. PICK n \in T : \A m \in T : ~(<<m, n>> \in R)
  <2> HIDE DEF R
  <2> QED
    BY <1>1, WFMin
<1>3. \A m \in T : ~ (m < n)
  BY <1>2
<1> QED
  BY <1>3

\* Taking the picked element away leaves one less.
LEMMA OneLess ==
    ASSUME NEW s, IsFiniteSet(s), s # {}
    PROVE  /\ Picked(s) \in s
           /\ IsFiniteSet(s \ {Picked(s)})
           /\ Cardinality(s) \in Nat \ {0}
           /\ Cardinality(s \ {Picked(s)}) = Cardinality(s) - 1
<1>1. Picked(s) \in s
  BY DEF Picked
<1>2. Cardinality(s) \in Nat /\ Cardinality(s) # 0
  BY FS_CardinalityType, FS_EmptySet
<1> QED
  BY <1>1, <1>2, FS_RemoveElement

\* Induction over the subsets of a finite set.
LEMMA SetInduction ==
    ASSUME NEW S, IsFiniteSet(S), NEW P, {} \in P,
           \A s \in SUBSET S : s # {} /\ s \ {Picked(s)} \in P => s \in P
    PROVE  S \in P
<1> DEFINE T == {Cardinality(s) : s \in (SUBSET S) \ P}
<1>1. \A s \in SUBSET S : IsFiniteSet(s) /\ Cardinality(s) \in Nat
  BY FS_Subset, FS_CardinalityType
<1>2. T \subseteq Nat
  BY <1>1
<1>3. SUFFICES ASSUME T # {} PROVE FALSE
  OBVIOUS
<1>4. PICK n \in T : \A m \in T : n <= m
  <2> HIDE DEF T
  <2> QED
    BY <1>2, <1>3, LeastNat
<1>5. PICK s \in (SUBSET S) \ P : n = Cardinality(s)
  OBVIOUS
<1>6. s # {} /\ s \ {Picked(s)} \notin P
  BY <1>5
<1>7. Cardinality(s \ {Picked(s)}) \in T
  BY <1>6
<1>8. Cardinality(s \ {Picked(s)}) = Cardinality(s) - 1 /\ Cardinality(s) \in Nat
  BY <1>1, <1>6, OneLess
<1> HIDE DEF T
<1> QED
  BY <1>4, <1>5, <1>7, <1>8

\* The recursive function exists: on the sets of n elements at the most, for
\* every n.
LEMMA SumExists ==
    ASSUME NEW S, IsFiniteSet(S), NEW f
    PROVE  \E g : Adds(f, SUBSET S, g)
<1> DEFINE Sub(n) == {s \in SUBSET S : Cardinality(s) <= n}
           Sum(g, s) == IF s = {} THEN 0 ELSE f[Picked(s)] + g[s \ {Picked(s)}]
           T == {n \in Nat : ~ \E g : Adds(f, Sub(n), g)}
<1>1. \A s \in SUBSET S : /\ IsFiniteSet(s)
                          /\ Cardinality(s) \in Nat /\ Cardinality(s) <= Cardinality(S)
  BY FS_Subset, FS_CardinalityType
<1>2. 0 \notin T
  <2>1. Sub(0) = {{}}
    BY <1>1, FS_EmptySet
  <2>2. Adds(f, Sub(0), [s \in Sub(0) |-> 0])
    BY <2>1 DEF Adds
  <2> QED
    BY <2>2
<1>3. ASSUME NEW n \in Nat, n \notin T
      PROVE  n + 1 \notin T
  <2>1. PICK g : Adds(f, Sub(n), g)
    BY <1>3
  <2>2. \A s \in Sub(n) : g[s] = Sum(g, s)
    BY <2>1 DEF Adds
  <2> DEFINE h == [s \in Sub(n + 1) |-> Sum(g, s)]
  <2>3. \A s \in Sub(n) : s \in Sub(n + 1)
    BY <1>1
  <2>4. \A s \in Sub(n) : h[s] = g[s]
    BY <2>2, <2>3
  <2>5. ASSUME NEW s \in Sub(n + 1), s # {}
        PROVE  s \ {Picked(s)} \in Sub(n)
    BY <1>1, <2>5, OneLess
  <2>6. \A s \in Sub(n + 1) : Sum(g, s) = Sum(h, s)
    BY <2>4, <2>5
  <2>7. h = [s \in Sub(n + 1) |-> Sum(h, s)]
    <3> HIDE DEF Sub
    <3> QED
      BY <2>6, Zenon
  <2>8. Adds(f, Sub(n + 1), h)
    BY <2>7 DEF Adds
  <2> QED
    BY <2>8
<1>4. T = {}
  <2> SUFFICES ASSUME T # {} PROVE FALSE
    OBVIOUS
  <2>1. T \subseteq Nat
    OBVIOUS
  <2>2. PICK n \in T : \A m \in T : n <= m
    <3> HIDE DEF T
    <3> QED
      BY <2>1, LeastNat
  <2>3. n \in Nat /\ n # 0
    BY <1>2
  <2>4. n - 1 \in Nat /\ (n - 1) + 1 = n /\ n - 1 \notin T
    <3> HIDE DEF T
    <3> QED
      BY <2>2, <2>3
  <2> HIDE DEF T
  <2> QED
    BY <1>3, <2>4
<1>5. Sub(Cardinality(S)) = SUBSET S
  BY <1>1
<1>6. Cardinality(S) \in Nat
  BY FS_CardinalityType
<1> QED
  BY <1>4, <1>5, <1>6

\* A sum is the value of that function.
Iterates(f, S, g) ==
    /\ Total(f, S) = g[S]
    /\ g[{}] = 0
    /\ \A s \in SUBSET S : s # {} => g[s] = f[Picked(s)] + g[s \ {Picked(s)}]

LEMMA SumIterates ==
    ASSUME NEW S, IsFiniteSet(S), NEW f
    PROVE  \E g : Iterates(f, S, g)
<1> DEFINE g == CHOOSE h : Adds(f, SUBSET S, h)
<1>1. Total(f, S) = g[S]
  BY DEF Total, FoldFunctionOnSet, MapThenFoldSet, Adds, Picked
<1>2. Adds(f, SUBSET S, g)
  BY SumExists
<1> HIDE DEF g
<1>3. \A s \in SUBSET S :
          g[s] = IF s = {} THEN 0 ELSE f[Picked(s)] + g[s \ {Picked(s)}]
  BY <1>2 DEF Adds
<1> QED
  BY <1>1, <1>3 DEF Iterates

\* A sum of numbers that are lo at the least.
LEMMA SumAtLeast ==
    ASSUME NEW S, IsFiniteSet(S), NEW f, NEW lo \in Nat,
           \A i \in S : f[i] \in Nat /\ lo <= f[i]
    PROVE  /\ Total(f, S) \in Nat
           /\ lo * Cardinality(S) <= Total(f, S)
           /\ \A i \in S : f[i] <= Total(f, S)
<1>1. PICK g : Iterates(f, S, g)
  BY SumIterates, Zenon
<1> USE DEF Iterates
<1> DEFINE Bounded(s) == /\ g[s] \in Nat
                         /\ lo * Cardinality(s) <= g[s]
                         /\ \A i \in s : f[i] <= g[s]
           P == {s \in SUBSET S : Bounded(s)}
<1>2. {} \in P
  <2>1. Cardinality({}) = 0
    BY FS_EmptySet
  <2> QED
    BY <1>1, <2>1
<1>3. ASSUME NEW s \in SUBSET S, s # {}, Bounded(s \ {Picked(s)})
      PROVE  Bounded(s)
  <2>1. Picked(s) \in s /\ Cardinality(s) \in Nat /\ Cardinality(s \ {Picked(s)}) = Cardinality(s) - 1
    BY <1>3, FS_Subset, OneLess
  <2> DEFINE n == Cardinality(s)  a == f[Picked(s)]  b == g[s \ {Picked(s)}]
  <2>2. a \in Nat /\ lo <= a /\ n \in Nat
    BY <2>1
  <2>3. b \in Nat /\ lo * (n - 1) <= b
    BY <1>3, <2>1
  <2>4. g[s] = a + b
    BY <1>1, <1>3
  <2>5. lo * n <= a + b
    <3> HIDE DEF n, a, b
    <3>1. lo * n = lo * (n - 1) + lo /\ lo * (n - 1) \in Int
      BY <2>2
    <3> QED
      BY <2>2, <2>3, <3>1
  <2>6. ASSUME NEW i \in s
        PROVE  f[i] <= a + b
    <3>1. CASE i = Picked(s)
      BY <2>2, <2>3, <3>1
    <3>2. CASE i # Picked(s)
      <4>1. f[i] <= b /\ f[i] \in Nat
        BY <1>3, <3>2
      <4> HIDE DEF a, b
      <4> QED
        BY <2>2, <2>3, <4>1
    <3> QED
      BY <3>1, <3>2
  <2>7. \A i \in s : f[i] <= g[s]
    BY <2>4, <2>6
  <2>8. g[s] \in Nat /\ lo * Cardinality(s) <= g[s]
    BY <2>2, <2>3, <2>4, <2>5
  <2> QED
    BY <2>7, <2>8
<1>4. S \in P
  <2>1. \A s \in SUBSET S : s # {} /\ s \ {Picked(s)} \in P => s \in P
    BY <1>3
  <2> HIDE DEF P
  <2> QED
    BY <1>2, <2>1, SetInduction
<1> QED
  BY <1>1, <1>4

\* A sum of numbers that are hi at the most.
LEMMA SumAtMost ==
    ASSUME NEW S, IsFiniteSet(S), NEW f, NEW hi \in Nat,
           \A i \in S : f[i] \in Nat /\ f[i] <= hi
    PROVE  Total(f, S) <= hi * Cardinality(S)
<1>1. PICK g : Iterates(f, S, g)
  BY SumIterates, Zenon
<1> USE DEF Iterates
<1> DEFINE Bounded(s) == g[s] \in Nat /\ g[s] <= hi * Cardinality(s)
           P == {s \in SUBSET S : Bounded(s)}
<1>2. {} \in P
  <2>1. Cardinality({}) = 0
    BY FS_EmptySet
  <2> QED
    BY <1>1, <2>1
<1>3. ASSUME NEW s \in SUBSET S, s # {}, Bounded(s \ {Picked(s)})
      PROVE  Bounded(s)
  <2>1. Picked(s) \in s /\ Cardinality(s) \in Nat /\ Cardinality(s \ {Picked(s)}) = Cardinality(s) - 1
    BY <1>3, FS_Subset, OneLess
  <2> DEFINE n == Cardinality(s)  a == f[Picked(s)]  b == g[s \ {Picked(s)}]
  <2>2. a \in Nat /\ a <= hi /\ n \in Nat
    BY <2>1
  <2>3. b \in Nat /\ b <= hi * (n - 1)
    BY <1>3, <2>1
  <2>4. g[s] = a + b
    BY <1>1, <1>3
  <2>5. a + b <= hi * n
    <3> HIDE DEF n, a, b
    <3>1. hi * n = hi * (n - 1) + hi /\ hi * (n - 1) \in Int
      BY <2>2
    <3> QED
      BY <2>2, <2>3, <3>1
  <2> QED
    BY <2>2, <2>3, <2>4, <2>5
<1>4. S \in P
  <2>1. \A s \in SUBSET S : s # {} /\ s \ {Picked(s)} \in P => s \in P
    BY <1>3
  <2> HIDE DEF P
  <2> QED
    BY <1>2, <2>1, SetInduction
<1> QED
  BY <1>1, <1>4

=============================================================================
