-------------------------- MODULE InductionLemmas --------------------------
(***************************************************************************)
(* What is proved by induction for the other proof modules.  The induction *)
(* is a least counterexample: the order of the naturals and the strict     *)
(* order of the subsets of a finite set are well founded, so a nonempty    *)
(* set of counterexamples would have a least one.                          *)
(***************************************************************************)
EXTENDS Integers, FiniteSets, Functions, FiniteSetTheorems, TLAPS

-----------------------------------------------------------------------------
(* The naturals.                                                            *)

\* A nonempty set of naturals has a least element.
LEMMA LeastNatural ==
  ASSUME NEW M \in SUBSET Nat, M # {}
  PROVE  \E m \in M : \A k \in M : m <= k
<1> DEFINE R == {p \in Nat \X Nat : p[1] < p[2]}
<1>1. IsWellFoundedOn(R, Nat)
  BY NatLessThanWellFounded DEF OpToRel
<1>2. \E m \in M : \A k \in M : <<k, m>> \notin R
  <2> HIDE DEF R
  <2> QED BY <1>1, WFMin
<1>3. PICK m \in M : \A k \in M : <<k, m>> \notin R
  BY <1>2
<1>4. \A k \in M : ~(k < m)
  BY <1>3
<1> QED BY <1>4

\* What holds of 0 and goes over from each number to the next holds up to any bound.
LEMMA CountUp ==
  ASSUME NEW N \in Nat, NEW Good, 0 \in Good,
         \A n \in 0..N : n + 1 \in 0..N /\ n \in Good => n + 1 \in Good
  PROVE  \A n \in 0..N : n \in Good
<1> DEFINE Bad == {n \in 0..N : n \notin Good}
<1> SUFFICES ASSUME Bad # {} PROVE FALSE
  OBVIOUS
<1>1. PICK m \in Bad : \A k \in Bad : m <= k
  <2>1. Bad \in SUBSET Nat
    OBVIOUS
  <2> HIDE DEF Bad
  <2> QED BY <2>1, LeastNatural
<1>2. m # 0 /\ m \in 0..N
  OBVIOUS
<1>3. m - 1 \in 0..N /\ m - 1 \notin Bad
  BY <1>1, <1>2
<1> QED BY <1>2, <1>3

-----------------------------------------------------------------------------
(* SumFunctionOnSet, the sum of a function over a finite set.               *)

\* The element a sum takes first.
First(T) == CHOOSE x \in T : TRUE

\* g sums f over every subset of S.
Sums(g, f, S) ==
  g = [T \in SUBSET S |-> IF T = {} THEN 0 ELSE f[First(T)] + g[T \ {First(T)}]]

\* A set of subsets that contains a subset whenever it contains all smaller ones
\* contains every subset.
LEMMA SubsetInduction ==
  ASSUME NEW S, IsFiniteSet(S), NEW Good,
         \A T \in SUBSET S : (\A U \in SUBSET T : U # T => U \in Good) => T \in Good
  PROVE  \A T \in SUBSET S : T \in Good
<1> DEFINE Bad == {T \in SUBSET S : T \notin Good}
<1> SUFFICES ASSUME Bad # {} PROVE FALSE
  OBVIOUS
<1>1. IsWellFoundedOn(StrictSubsetOrdering(S), SUBSET S)
  <2>1. IsWellFoundedOn(StrictSubsetOrdering(S), FiniteSubsetsOf(S))
    BY FS_StrictSubsetOrderingWellFounded
  <2>2. FiniteSubsetsOf(S) = SUBSET S
    BY FS_FiniteSubsetsOfFinite
  <2> QED BY <2>1, <2>2
<1>2. PICK T \in Bad : \A U \in Bad : <<U, T>> \notin StrictSubsetOrdering(S)
  <2> HIDE DEF Bad
  <2>1. Bad \subseteq SUBSET S
    BY DEF Bad
  <2> QED BY <1>1, <2>1, WFMin
<1>3. \A U \in SUBSET T : U # T => U \in Good
  <2> SUFFICES ASSUME NEW U \in SUBSET T, U # T, U \notin Good PROVE FALSE
    OBVIOUS
  <2>1. U \in Bad /\ T \in SUBSET S
    OBVIOUS
  <2>2. <<U, T>> \in StrictSubsetOrdering(S)
    BY <2>1 DEF StrictSubsetOrdering
  <2> QED BY <2>1, <2>2, <1>2
<1> QED BY <1>3

\* SumFunctionOnSet chooses a function that sums.
LEMMA SumUnfolds ==
  ASSUME NEW f, NEW S
  PROVE  SumFunctionOnSet(f, S) = (CHOOSE g : Sums(g, f, S))[S]
  BY DEF SumFunctionOnSet, FoldFunctionOnSet, MapThenFoldSet, Sums, First

\* What a function that sums returns.
LEMMA SumsAt ==
  ASSUME NEW f, NEW S, NEW g, Sums(g, f, S), NEW T \in SUBSET S
  PROVE  g[T] = IF T = {} THEN 0 ELSE f[First(T)] + g[T \ {First(T)}]
  BY DEF Sums

\* Two functions that sum agree where both are defined.
LEMMA SumsAgree ==
  ASSUME NEW f, NEW S, IsFiniteSet(S), NEW T \in SUBSET S,
         NEW g, Sums(g, f, S), NEW h, Sums(h, f, T)
  PROVE  \A U \in SUBSET T : g[U] = h[U]
<1> DEFINE Good == {U \in SUBSET T : g[U] = h[U]}
<1>1. IsFiniteSet(T)
  BY FS_Subset
<1>2. ASSUME NEW U \in SUBSET T, \A V \in SUBSET U : V # U => V \in Good
      PROVE  U \in Good
  <2>1. g[U] = IF U = {} THEN 0 ELSE f[First(U)] + g[U \ {First(U)}]
    BY DEF Sums
  <2>2. h[U] = IF U = {} THEN 0 ELSE f[First(U)] + h[U \ {First(U)}]
    BY DEF Sums
  <2>3. U # {} => g[U \ {First(U)}] = h[U \ {First(U)}]
    <3> SUFFICES ASSUME U # {} PROVE U \ {First(U)} \in Good
      OBVIOUS
    <3>1. First(U) \in U
      BY DEF First
    <3> QED BY <3>1, <1>2
  <2> QED BY <2>1, <2>2, <2>3
<1>3. \A U \in SUBSET T : U \in Good
  <2> HIDE DEF Good
  <2> QED BY <1>1, <1>2, SubsetInduction
<1> QED BY <1>3

\* A finite set has a function that sums over its subsets.
LEMMA SumsExist ==
  ASSUME NEW f, NEW S, IsFiniteSet(S)
  PROVE  \E g : Sums(g, f, S)
<1> DEFINE Good == {T \in SUBSET S : \E g : Sums(g, f, T)}
<1>1. ASSUME NEW T \in SUBSET S, \A U \in SUBSET T : U # T => U \in Good
      PROVE  T \in Good
  <2> DEFINE Part(U) == CHOOSE g : Sums(g, f, U)
             Whole == [U \in SUBSET T |->
                         IF U = {} THEN 0 ELSE f[First(U)] + Part(U \ {First(U)})[U \ {First(U)}]]
  <2>1. ASSUME NEW U \in SUBSET T, U # T PROVE Sums(Part(U), f, U)
    BY <1>1, <2>1
  <2>2. ASSUME NEW U \in SUBSET T, U # T PROVE Whole[U] = Part(U)[U]
    <3>1. Part(U)[U] = IF U = {} THEN 0 ELSE f[First(U)] + Part(U)[U \ {First(U)}]
      <4>1. Sums(Part(U), f, U)
        BY <2>1, <2>2
      <4> HIDE DEF Part
      <4> QED BY <4>1, SumsAt
    <3>2. ASSUME U # {} PROVE Part(U)[U \ {First(U)}] = Part(U \ {First(U)})[U \ {First(U)}]
      <4> DEFINE V == U \ {First(U)}
      <4>1. First(U) \in U
        BY <3>2 DEF First
      <4>2. V \in SUBSET T /\ V # T /\ V \in SUBSET U
        BY <4>1
      <4>3. Sums(Part(V), f, V) /\ Sums(Part(U), f, U)
        BY <4>2, <2>1, <2>2
      <4>4. IsFiniteSet(U)
        BY FS_Subset
      <4> HIDE DEF V, Part
      <4>5. Part(U)[V] = Part(V)[V]
        BY <4>2, <4>3, <4>4, SumsAgree
      <4> QED BY <4>5 DEF V
    <3> QED BY <3>1, <3>2
  <2>3. Sums(Whole, f, T)
    <3>1. ASSUME NEW U \in SUBSET T, U # {}
          PROVE  Whole[U \ {First(U)}] = Part(U \ {First(U)})[U \ {First(U)}]
      <4>1. First(U) \in U
        BY <3>1 DEF First
      <4>2. U \ {First(U)} \in SUBSET T /\ U \ {First(U)} # T
        BY <4>1
      <4> HIDE DEF Part, Whole
      <4> QED BY <4>2, <2>2
    <3>2. ASSUME NEW U \in SUBSET T
          PROVE  Whole[U] = IF U = {} THEN 0 ELSE f[First(U)] + Whole[U \ {First(U)}]
      <4>1. Whole[U] = IF U = {} THEN 0
                       ELSE f[First(U)] + Part(U \ {First(U)})[U \ {First(U)}]
        OBVIOUS
      <4> HIDE DEF Part, Whole
      <4> QED BY <4>1, <3>1
    <3>3. Whole = [U \in SUBSET T |-> Whole[U]]
      OBVIOUS
    <3> HIDE DEF Whole
    <3> QED BY <3>2, <3>3 DEF Sums
  <2> QED BY <2>3
<1>2. \A T \in SUBSET S : T \in Good
  <2> HIDE DEF Good
  <2> QED BY <1>1, SubsetInduction
<1> QED BY <1>2

-----------------------------------------------------------------------------
\* The empty sum.
LEMMA SumEmpty == ASSUME NEW f PROVE SumFunctionOnSet(f, {}) = 0
<1>1. PICK g : Sums(g, f, {})
  BY SumsExist, FS_EmptySet
<1>2. Sums(CHOOSE h : Sums(h, f, {}), f, {})
  BY <1>1
<1> QED BY <1>2, SumUnfolds DEF Sums

\* The sum takes its first element.
LEMMA SumFirst ==
  ASSUME NEW f, NEW S, IsFiniteSet(S), S # {}
  PROVE  /\ First(S) \in S
         /\ SumFunctionOnSet(f, S) = f[First(S)] + SumFunctionOnSet(f, S \ {First(S)})
<1> DEFINE T == S \ {First(S)}
           g == CHOOSE x : Sums(x, f, S)
           h == CHOOSE x : Sums(x, f, T)
<1>1. First(S) \in S
  BY DEF First
<1>2. IsFiniteSet(T) /\ T \in SUBSET S
  BY FS_Subset
<1>3. Sums(g, f, S) /\ Sums(h, f, T)
  BY <1>2, SumsExist
<1>4. g[T] = h[T]
  <2> HIDE DEF T, g, h
  <2> QED BY <1>2, <1>3, SumsAgree
<1>5. g[S] = f[First(S)] + g[T]
  BY <1>3 DEF Sums
<1> QED BY <1>1, <1>4, <1>5, SumUnfolds

\* A sum of naturals is a natural.
LEMMA SumType ==
  ASSUME NEW S, IsFiniteSet(S), NEW f, \A x \in S : f[x] \in Nat
  PROVE  SumFunctionOnSet(f, S) \in Nat
<1> DEFINE Good == {T \in SUBSET S : SumFunctionOnSet(f, T) \in Nat}
<1>1. ASSUME NEW T \in SUBSET S, \A U \in SUBSET T : U # T => U \in Good
      PROVE  T \in Good
  <2>1. CASE T = {}
    BY <2>1, SumEmpty
  <2>2. CASE T # {}
    <3>1. First(T) \in T /\ SumFunctionOnSet(f, T)
                              = f[First(T)] + SumFunctionOnSet(f, T \ {First(T)})
      BY <2>2, SumFirst, FS_Subset
    <3>2. SumFunctionOnSet(f, T \ {First(T)}) \in Nat
      BY <3>1, <1>1
    <3> QED BY <3>1, <3>2
  <2> QED BY <2>1, <2>2
<1>2. \A T \in SUBSET S : T \in Good
  <2> HIDE DEF Good
  <2> QED BY <1>1, SubsetInduction
<1> QED BY <1>2

\* Any element may be taken first.
LEMMA SumRemove ==
  ASSUME NEW S, IsFiniteSet(S), NEW f, \A y \in S : f[y] \in Nat, NEW x \in S
  PROVE  SumFunctionOnSet(f, S) = f[x] + SumFunctionOnSet(f, S \ {x})
<1> DEFINE Takes(T) == \A y \in T : SumFunctionOnSet(f, T) = f[y] + SumFunctionOnSet(f, T \ {y})
           Good == {T \in SUBSET S : Takes(T)}
<1>1. ASSUME NEW T \in SUBSET S, \A U \in SUBSET T : U # T => U \in Good
      PROVE  T \in Good
  <2> SUFFICES ASSUME NEW y \in T
               PROVE  SumFunctionOnSet(f, T) = f[y] + SumFunctionOnSet(f, T \ {y})
    OBVIOUS
  <2>1. IsFiniteSet(T) /\ T # {}
    BY FS_Subset
  <2>2. First(T) \in T /\ SumFunctionOnSet(f, T)
                            = f[First(T)] + SumFunctionOnSet(f, T \ {First(T)})
    BY <2>1, SumFirst
  <2>3. CASE y = First(T)
    BY <2>2, <2>3
  <2>4. CASE y # First(T)
    <3> DEFINE U == T \ {First(T)}
               V == T \ {y}
               W == U \ {y}
    <3>1. U \in Good /\ V \in Good
      BY <2>2, <1>1
    <3>2. y \in U /\ First(T) \in V /\ V \ {First(T)} = W
      BY <2>2, <2>4
    <3>3. SumFunctionOnSet(f, U) = f[y] + SumFunctionOnSet(f, W)
      BY <3>1, <3>2
    <3>4. SumFunctionOnSet(f, V) = f[First(T)] + SumFunctionOnSet(f, W)
      BY <3>1, <3>2
    <3>5. SumFunctionOnSet(f, W) \in Nat
      <4>1. IsFiniteSet(W)
        BY <2>1, FS_Subset
      <4> QED BY <4>1, SumType
    <3>6. f[y] \in Nat /\ f[First(T)] \in Nat
      BY <2>2
    <3> HIDE DEF U, V, W
    <3> QED BY <2>2, <3>3, <3>4, <3>5, <3>6 DEF U, V
  <2> QED BY <2>3, <2>4
<1>2. \A T \in SUBSET S : T \in Good
  <2> HIDE DEF Good
  <2> QED BY <1>1, SubsetInduction
<1> QED BY <1>2

\* Smaller summands have a smaller sum.
LEMMA SumMonotone ==
  ASSUME NEW S, IsFiniteSet(S), NEW f, NEW g,
         \A x \in S : f[x] \in Nat /\ g[x] \in Nat /\ f[x] <= g[x]
  PROVE  SumFunctionOnSet(f, S) <= SumFunctionOnSet(g, S)
<1> DEFINE Good == {T \in SUBSET S : SumFunctionOnSet(f, T) <= SumFunctionOnSet(g, T)}
<1>1. ASSUME NEW T \in SUBSET S, \A U \in SUBSET T : U # T => U \in Good
      PROVE  T \in Good
  <2>1. CASE T = {}
    BY <2>1, SumEmpty
  <2>2. CASE T # {}
    <3> DEFINE U == T \ {First(T)}
    <3>1. IsFiniteSet(T) /\ IsFiniteSet(U)
      BY FS_Subset
    <3>2. /\ First(T) \in T
          /\ SumFunctionOnSet(f, T) = f[First(T)] + SumFunctionOnSet(f, U)
          /\ SumFunctionOnSet(g, T) = g[First(T)] + SumFunctionOnSet(g, U)
      BY <2>2, <3>1, SumFirst
    <3>3. SumFunctionOnSet(f, U) <= SumFunctionOnSet(g, U)
      BY <3>2, <1>1
    <3>4. SumFunctionOnSet(f, U) \in Nat /\ SumFunctionOnSet(g, U) \in Nat
      <4>1. \A x \in U : f[x] \in Nat /\ g[x] \in Nat
        OBVIOUS
      <4> HIDE DEF U
      <4> QED BY <3>1, <4>1, SumType
    <3>5. f[First(T)] \in Nat /\ g[First(T)] \in Nat /\ f[First(T)] <= g[First(T)]
      BY <3>2
    <3> HIDE DEF U
    <3>6. SumFunctionOnSet(f, T) <= SumFunctionOnSet(g, T)
      BY <3>2, <3>3, <3>4, <3>5
    <3> QED BY <3>6
  <2> QED BY <2>1, <2>2
<1>2. \A T \in SUBSET S : T \in Good
  <2> HIDE DEF Good
  <2> QED BY <1>1, SubsetInduction
<1> QED BY <1>2

\* Functions that agree on a set have one sum.
LEMMA SumEqual ==
  ASSUME NEW S, IsFiniteSet(S), NEW f, NEW g,
         \A x \in S : f[x] \in Nat /\ g[x] = f[x]
  PROVE  SumFunctionOnSet(g, S) = SumFunctionOnSet(f, S)
<1>1. SumFunctionOnSet(f, S) \in Nat /\ SumFunctionOnSet(g, S) \in Nat
  BY SumType
<1>2. SumFunctionOnSet(f, S) <= SumFunctionOnSet(g, S)
  BY SumMonotone
<1>3. SumFunctionOnSet(g, S) <= SumFunctionOnSet(f, S)
  BY SumMonotone
<1> QED BY <1>1, <1>2, <1>3

\* A sum of zeros is zero.
LEMMA SumOfZeros ==
  ASSUME NEW S, IsFiniteSet(S), NEW f, \A x \in S : f[x] = 0
  PROVE  SumFunctionOnSet(f, S) = 0
<1> DEFINE Good == {T \in SUBSET S : SumFunctionOnSet(f, T) = 0}
<1>1. ASSUME NEW T \in SUBSET S, \A U \in SUBSET T : U # T => U \in Good
      PROVE  T \in Good
  <2>1. CASE T = {}
    BY <2>1, SumEmpty
  <2>2. CASE T # {}
    <3>1. First(T) \in T /\ SumFunctionOnSet(f, T)
                              = f[First(T)] + SumFunctionOnSet(f, T \ {First(T)})
      BY <2>2, SumFirst, FS_Subset
    <3> QED BY <3>1, <1>1
  <2> QED BY <2>1, <2>2
<1>2. \A T \in SUBSET S : T \in Good
  <2> HIDE DEF Good
  <2> QED BY <1>1, SubsetInduction
<1> QED BY <1>2

\* When one summand changes, the sum changes with it.
LEMMA SumChange ==
  ASSUME NEW S, IsFiniteSet(S), NEW f, NEW g, NEW x \in S,
         \A y \in S : f[y] \in Nat /\ g[y] \in Nat,
         \A y \in S : y # x => g[y] = f[y]
  PROVE  /\ SumFunctionOnSet(f, S) \in Nat
         /\ SumFunctionOnSet(g, S) = SumFunctionOnSet(f, S) - f[x] + g[x]
         /\ f[x] <= SumFunctionOnSet(f, S)
<1> DEFINE T == S \ {x}
<1>1. IsFiniteSet(T)
  BY FS_Subset
<1>2. SumFunctionOnSet(f, S) = f[x] + SumFunctionOnSet(f, T)
  BY SumRemove
<1>3. SumFunctionOnSet(g, S) = g[x] + SumFunctionOnSet(g, T)
  BY SumRemove
<1>4. SumFunctionOnSet(g, T) = SumFunctionOnSet(f, T)
  BY <1>1, SumEqual
<1>5. SumFunctionOnSet(f, T) \in Nat
  BY <1>1, SumType
<1> HIDE DEF T
<1> QED BY <1>2, <1>3, <1>4, <1>5
=============================================================================
