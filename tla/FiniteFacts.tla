------------------------------ MODULE FiniteFacts ------------------------------
(***************************************************************************)
(* Facts about finite sets, and sums over them, that the proofs share.     *)
(*                                                                         *)
(* The induction principle is stated with the set of the good subsets and  *)
(* not with a predicate, so that a proof can instantiate it.               *)
(***************************************************************************)
EXTENDS Integers, FiniteSetsExt, FiniteSetTheorems, TLAPS

\* Induction over the subsets of a finite set, each from its strict subsets.
LEMMA StrictSubsetInduction ==
    ASSUME NEW S, IsFiniteSet(S), NEW Good,
           \A U \in SUBSET S : (\A V \in SUBSET U : V # U => V \in Good) => U \in Good
    PROVE  \A U \in SUBSET S : U \in Good
<1>. DEFINE Bad == {T \in FiniteSubsetsOf(S) : T \notin Good}
<1>1. SUFFICES ASSUME NEW U \in SUBSET S, U \notin Good
               PROVE  FALSE
  OBVIOUS
<1>2. \A V \in SUBSET S : V \in FiniteSubsetsOf(S)
  BY FS_Subset DEF FiniteSubsetsOf
<1>3. PICK T \in Bad : \A V \in Bad : ~(<<V, T>> \in StrictSubsetOrdering(S))
  <2>1. IsWellFoundedOn(StrictSubsetOrdering(S), FiniteSubsetsOf(S))
    BY FS_StrictSubsetOrderingWellFounded
  <2>2. U \in Bad /\ Bad \subseteq FiniteSubsetsOf(S)
    BY <1>1, <1>2
  <2>. HIDE DEF Bad
  <2>. QED
    BY <2>1, <2>2, WFMin
<1>4. T \in SUBSET S /\ T \notin Good
  BY DEF FiniteSubsetsOf
<1>5. \A V \in SUBSET T : V # T => V \in Good
  BY <1>2, <1>3, <1>4 DEF StrictSubsetOrdering
<1>. QED
  BY <1>4, <1>5

\* Induction over the subsets of a finite set, one element at a time.
LEMMA SubsetInduction ==
    ASSUME NEW S, IsFiniteSet(S), NEW Good, {} \in Good,
           \A T \in SUBSET S : \A x \in S \ T : T \in Good => T \cup {x} \in Good
    PROVE  S \in Good
<1>1. ASSUME NEW U \in SUBSET S, \A V \in SUBSET U : V # U => V \in Good
      PROVE  U \in Good
  <2>1. CASE U # {}
    <3>1. PICK x \in U : TRUE
      BY <2>1
    <3>2. U \ {x} \in Good /\ (U \ {x}) \cup {x} = U
      BY <1>1, <3>1
    <3>. QED
      BY <3>1, <3>2
  <2>. QED
    BY <2>1
<1>. QED
  BY <1>1, StrictSubsetInduction

\* Max is what its name says on a finite non-empty set of numbers.
LEMMA MaxOfFinite ==
    ASSUME NEW S \in SUBSET Int, IsFiniteSet(S), S # {}
    PROVE  Max(S) \in S /\ \A y \in S : Max(S) >= y
<1>. DEFINE Good == {T \in SUBSET S : T = {} \/ \E x \in T : \A y \in T : x >= y}
<1>1. {} \in Good
  OBVIOUS
<1>2. ASSUME NEW T \in SUBSET S, NEW z \in S \ T, T \in Good
      PROVE  T \cup {z} \in Good
  <2>1. CASE T = {}
    <3>1. z >= z
      OBVIOUS
    <3>. QED
      BY <2>1, <3>1
  <2>2. CASE T # {}
    <3>1. PICK x \in T : \A y \in T : x >= y
      BY <1>2, <2>2
    <3>2. CASE z >= x
      BY <3>1, <3>2
    <3>3. CASE x >= z
      BY <3>1, <3>3
    <3>. QED
      BY <3>2, <3>3
  <2>. QED
    BY <2>1, <2>2
<1>3. S \in Good
  <2>. HIDE DEF Good
  <2>. QED
    BY <1>1, <1>2, SubsetInduction
<1>4. \E x \in S : \A y \in S : x >= y
  BY <1>3
<1>. QED
  BY <1>4 DEF Max

\* Induction over the numbers up to n.
LEMMA UpToInduction ==
    ASSUME NEW n \in Nat, NEW Good, 0 \in Good,
           \A m \in 0..n : m < n /\ m \in Good => m + 1 \in Good
    PROVE  \A m \in 0..n : m \in Good
<1>. DEFINE T == {m \in 0..n : \A j \in 0..m : j \in Good}
<1>1. T \in SUBSET Int /\ IsFiniteSet(T) /\ 0 \in T
  <2>1. IsFiniteSet(0..n)
    BY FS_Interval
  <2>2. T \in SUBSET (0..n) /\ T \in SUBSET Int /\ 0 \in T
    OBVIOUS
  <2>. HIDE DEF T
  <2>3. IsFiniteSet(T)
    BY <2>1, <2>2, FS_Subset
  <2>. QED
    BY <2>2, <2>3
<1>2. Max(T) \in T /\ \A y \in T : Max(T) >= y
  <2>. HIDE DEF T
  <2>. QED
    BY <1>1, MaxOfFinite
<1>3. ASSUME Max(T) < n
      PROVE  FALSE
  <2>1. Max(T) + 1 \in Good
    BY <1>2, <1>3
  <2>2. Max(T) + 1 \in T
    BY <1>2, <1>3, <2>1
  <2>. QED
    BY <1>2, <2>2
<1>. QED
  BY <1>2, <1>3

-----------------------------------------------------------------------------
(* Sums.  MapThenSumSet takes the elements in the order CHOOSE gives them, *)
(* through a function that is defined by recursion on the subsets.  Such a *)
(* function exists, and the order does not matter.                         *)

SumOf(w, S) == MapThenSumSet(LAMBDA x : w[x], S)

Picked(T) == CHOOSE x \in T : TRUE

SumStep(w, g, T) == IF T = {} THEN 0 ELSE w[Picked(T)] + g[T \ {Picked(T)}]

SumFrom(w, S, g) == g = [T \in SUBSET S |-> SumStep(w, g, T)]

\* What recursion on the subsets computes depends on the weights alone.
LEMMA SumUnique ==
    ASSUME NEW S, NEW R \in SUBSET S, IsFiniteSet(R), NEW w, NEW v,
           \A x \in R : w[x] = v[x],
           NEW g, SumFrom(w, R, g), NEW h, SumFrom(v, S, h)
    PROVE  \A U \in SUBSET R : g[U] = h[U]
<1>. DEFINE Good == {U \in SUBSET R : g[U] = h[U]}
<1>1. ASSUME NEW U \in SUBSET R, \A V \in SUBSET U : V # U => V \in Good
      PROVE  U \in Good
  <2>1. g[U] = SumStep(w, g, U) /\ h[U] = SumStep(v, h, U)
    BY DEF SumFrom
  <2>2. CASE U = {}
    BY <2>1, <2>2 DEF SumStep
  <2>3. CASE U # {}
    <3>. DEFINE p == Picked(U)
                V == U \ {p}
    <3>1. p \in U
      BY <2>3 DEF Picked
    <3>2. V \in SUBSET U /\ V # U
      BY <3>1
    <3>3. g[V] = h[V]
      BY <1>1, <3>2
    <3>4. w[p] = v[p]
      BY <3>1
    <3>. QED
      BY <2>1, <2>3, <3>3, <3>4 DEF SumStep
  <2>. QED
    BY <2>2, <2>3
<1>2. \A U \in SUBSET R : U \in Good
  <2>. HIDE DEF Good
  <2>. QED
    BY <1>1, StrictSubsetInduction
<1>. QED
  BY <1>2

\* The recursion has a solution.
LEMMA SumExists ==
    ASSUME NEW S, IsFiniteSet(S), NEW w
    PROVE  \E g : SumFrom(w, S, g)
<1>. DEFINE Good == {U \in SUBSET S : \E g : SumFrom(w, U, g)}
<1>1. ASSUME NEW U \in SUBSET S, \A V \in SUBSET U : V # U => V \in Good
      PROVE  U \in Good
  <2>. DEFINE k(V) == CHOOSE g : SumFrom(w, V, g)
              h == [V \in SUBSET U |-> k(V)[V]]
              g == [T \in SUBSET U |-> SumStep(w, h, T)]
  <2>1. \A V \in SUBSET U : V # U => SumFrom(w, V, k(V)) /\ IsFiniteSet(V)
    BY <1>1, FS_Subset
  <2>2. \A V \in SUBSET U : h[V] = k(V)[V] /\ g[V] = SumStep(w, h, V)
    OBVIOUS
  <2>. HIDE DEF k, h
  <2>3. ASSUME NEW V \in SUBSET U, V # U
        PROVE  g[V] = h[V]
    <3>1. h[V] = SumStep(w, k(V), V)
      BY <2>1, <2>2, <2>3 DEF SumFrom
    <3>2. CASE V = {}
      BY <2>2, <3>1, <3>2 DEF SumStep
    <3>3. CASE V # {}
      <4>. DEFINE p == Picked(V)
                  W == V \ {p}
      <4>1. p \in V /\ W \in SUBSET V /\ W \in SUBSET U /\ W # U
        BY <2>3, <3>3 DEF Picked
      <4>2. k(W)[W] = k(V)[W]
        <5>1. SumFrom(w, W, k(W)) /\ SumFrom(w, V, k(V)) /\ IsFiniteSet(W)
          BY <2>1, <2>3, <4>1
        <5>. HIDE DEF W
        <5>. QED
          BY <4>1, <5>1, SumUnique
      <4>3. h[W] = k(V)[W]
        BY <2>2, <4>1, <4>2
      <4>4. SumStep(w, h, V) = w[p] + h[W] /\ SumStep(w, k(V), V) = w[p] + k(V)[W]
        BY <3>3 DEF SumStep
      <4>. QED
        BY <2>2, <3>1, <4>3, <4>4
    <3>. QED
      BY <3>2, <3>3
  <2>4. ASSUME NEW T \in SUBSET U
        PROVE  SumStep(w, h, T) = SumStep(w, g, T)
    <3>1. CASE T = {}
      BY <3>1 DEF SumStep
    <3>2. CASE T # {}
      <4>. DEFINE p == Picked(T)
                  V == T \ {p}
      <4>1. V \in SUBSET U /\ V # U
        BY <3>2 DEF Picked
      <4>2. g[V] = h[V]
        BY <2>3, <4>1
      <4>. QED
        BY <3>2, <4>2 DEF SumStep
    <3>. QED
      BY <3>1, <3>2
  <2>5. g = [T \in SUBSET U |-> SumStep(w, g, T)]
    BY <2>4
  <2>. QED
    BY <2>5 DEF SumFrom
<1>2. \A U \in SUBSET S : U \in Good
  <2>. HIDE DEF Good
  <2>. QED
    BY <1>1, StrictSubsetInduction
<1>. QED
  BY <1>2

\* MapThenSumSet is that solution.
LEMMA SumUnfolds ==
    ASSUME NEW S, IsFiniteSet(S), NEW w
    PROVE  \E g : SumFrom(w, S, g) /\ SumOf(w, S) = g[S]
<1>. DEFINE h == CHOOSE g : SumFrom(w, S, g)
<1>1. SumFrom(w, S, h)
  BY SumExists
<1>2. SumOf(w, S) = h[S]
  BY DEF SumOf, MapThenSumSet, MapThenFoldSet, SumFrom, SumStep, Picked
<1>. QED
  BY <1>1, <1>2

\* Equal weights have equal sums.
LEMMA SumCongruent ==
    ASSUME NEW S, IsFiniteSet(S), NEW w, NEW v, \A x \in S : w[x] = v[x]
    PROVE  SumOf(w, S) = SumOf(v, S)
<1>1. PICK g : SumFrom(w, S, g) /\ SumOf(w, S) = g[S]
  BY SumUnfolds
<1>2. PICK h : SumFrom(v, S, h) /\ SumOf(v, S) = h[S]
  BY SumUnfolds
<1>3. \A U \in SUBSET S : g[U] = h[U]
  <2>1. S \in SUBSET S /\ SumFrom(w, S, g) /\ SumFrom(v, S, h)
    BY <1>1, <1>2
  <2>. QED
    BY <2>1, SumUnique
<1>. QED
  BY <1>1, <1>2, <1>3

\* The empty sum.
LEMMA SumEmpty == \A w : SumOf(w, {}) = 0
<1>. SUFFICES ASSUME NEW w
              PROVE  SumOf(w, {}) = 0
  OBVIOUS
<1>1. PICK g : SumFrom(w, {}, g) /\ SumOf(w, {}) = g[{}]
  BY SumUnfolds, FS_EmptySet
<1>. QED
  BY <1>1 DEF SumFrom, SumStep

\* Any element may be taken out first.
LEMMA SumTake ==
    ASSUME NEW S, IsFiniteSet(S), NEW w, \A x \in S : w[x] \in Nat
    PROVE  /\ SumOf(w, S) \in Nat
           /\ \A x \in S : SumOf(w, S) = w[x] + SumOf(w, S \ {x})
<1>1. PICK g : SumFrom(w, S, g) /\ SumOf(w, S) = g[S]
  BY SumUnfolds
<1>. DEFINE Good == {U \in SUBSET S : g[U] \in Nat /\ \A x \in U : g[U] = w[x] + g[U \ {x}]}
<1>2. ASSUME NEW U \in SUBSET S, \A V \in SUBSET U : V # U => V \in Good
      PROVE  U \in Good
  <2>1. g[U] = SumStep(w, g, U)
    BY <1>1 DEF SumFrom
  <2>2. CASE U = {}
    BY <2>1, <2>2 DEF SumStep
  <2>3. CASE U # {}
    <3>. DEFINE p == Picked(U)
    <3>1. p \in U
      BY <2>3 DEF Picked
    <3>2. g[U] = w[p] + g[U \ {p}]
      BY <2>1, <2>3 DEF SumStep
    <3>. HIDE DEF p
    <3>3. \A x \in U : U \ {x} \in Good
      BY <1>2
    <3>4. g[U] \in Nat
      <4>1. g[U \ {p}] \in Nat /\ w[p] \in Nat
        BY <3>1, <3>3
      <4>. HIDE DEF Good
      <4>. QED
        BY <3>2, <4>1
    <3>5. ASSUME NEW x \in U, x # p
          PROVE  g[U] = w[x] + g[U \ {x}]
      <4>. DEFINE W == (U \ {p}) \ {x}
      <4>1. g[U \ {p}] = w[x] + g[W]
        BY <3>1, <3>3, <3>5
      <4>2. W = (U \ {x}) \ {p}
        OBVIOUS
      <4>3. g[U \ {x}] = w[p] + g[W]
        BY <3>1, <3>3, <3>5, <4>2
      <4>4. W \in Good
        BY <1>2, <3>1
      <4>5. g[W] \in Nat /\ w[x] \in Nat /\ w[p] \in Nat
        BY <3>1, <4>4
      <4>. HIDE DEF W, Good
      <4>. QED
        BY <3>2, <4>1, <4>3, <4>5
    <3>. QED
      BY <3>2, <3>4, <3>5
  <2>. QED
    BY <2>2, <2>3
<1>3. \A U \in SUBSET S : U \in Good
  <2>. HIDE DEF Good
  <2>. QED
    BY <1>2, StrictSubsetInduction
<1>4. ASSUME NEW x \in S
      PROVE  SumOf(w, S \ {x}) = g[S \ {x}]
  <2>. DEFINE R == S \ {x}
  <2>1. R \in SUBSET S /\ IsFiniteSet(R)
    BY FS_Subset
  <2>. HIDE DEF R
  <2>2. PICK h : SumFrom(w, R, h) /\ SumOf(w, R) = h[R]
    BY <2>1, SumUnfolds
  <2>3. SumFrom(w, S, g) /\ SumFrom(w, R, h)
    BY <1>1, <2>2
  <2>4. \A U \in SUBSET R : h[U] = g[U]
    BY <2>1, <2>3, SumUnique
  <2>. QED
    BY <2>2, <2>4 DEF R
<1>. QED
  BY <1>1, <1>3, <1>4

\* A sum splits over a subset and what is left of the set.
LEMMA SumSplit ==
    ASSUME NEW S, IsFiniteSet(S), NEW w, \A x \in S : w[x] \in Nat, NEW R \in SUBSET S
    PROVE  /\ SumOf(w, R) \in Nat /\ SumOf(w, S \ R) \in Nat
           /\ SumOf(w, S) = SumOf(w, R) + SumOf(w, S \ R)
<1>. DEFINE Good == {T \in SUBSET S : SumOf(w, S) = SumOf(w, T) + SumOf(w, S \ T)}
<1>1. \A T \in SUBSET S : IsFiniteSet(T) /\ SumOf(w, T) \in Nat
  BY FS_Subset, SumTake
<1>2. ASSUME NEW U \in SUBSET S, \A V \in SUBSET U : V # U => V \in Good
      PROVE  U \in Good
  <2>1. CASE U = {}
    <3>1. S \ U = S /\ SumOf(w, U) = 0
      BY <2>1, SumEmpty
    <3>2. SumOf(w, S) \in Nat
      BY <1>1
    <3>. QED
      BY <3>1, <3>2
  <2>2. CASE U # {}
    <3>1. PICK x \in U : TRUE
      BY <2>2
    <3>. DEFINE V == U \ {x}
                L == S \ V
    <3>2. SumOf(w, S) = SumOf(w, V) + SumOf(w, L)
      BY <1>2, <3>1
    <3>3. SumOf(w, U) = w[x] + SumOf(w, V)
      BY <1>1, <3>1, SumTake
    <3>4. L \in SUBSET S /\ x \in L /\ L \ {x} = S \ U
      BY <3>1
    <3>. HIDE DEF L
    <3>5. SumOf(w, L) = w[x] + SumOf(w, S \ U)
      <4>1. SumOf(w, L) = w[x] + SumOf(w, L \ {x})
        BY <1>1, <3>4, SumTake
      <4>. QED
        BY <3>4, <4>1
    <3>6. /\ SumOf(w, V) \in Nat /\ SumOf(w, S \ U) \in Nat /\ SumOf(w, U) \in Nat
          /\ w[x] \in Nat /\ SumOf(w, L) \in Nat
      BY <1>1, <3>1, <3>4
    <3>. HIDE DEF V, Good
    <3>7. SumOf(w, S) = SumOf(w, U) + SumOf(w, S \ U)
      BY <3>2, <3>3, <3>5, <3>6
    <3>. QED
      BY <3>7 DEF Good
  <2>. QED
    BY <2>1, <2>2
<1>3. \A U \in SUBSET S : U \in Good
  <2>. HIDE DEF Good
  <2>. QED
    BY <1>2, StrictSubsetInduction
<1>. QED
  BY <1>1, <1>3
================================================================================
