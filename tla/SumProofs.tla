------------------------------ MODULE SumProofs ------------------------------
(* What the sum of a function over a finite set (SumFunction of module       *)
(* Functions, a recursive function) is: facts for the modules that add up    *)
(* penalties and scores.  The library's induction theorems take an operator; *)
(* here induction is on the set of counterexamples, which has a least        *)
(* element (WFMin).                                                          *)
EXTENDS Integers, FiniteSets, Functions, FiniteSetTheorems, TLAPS

\* A set of natural numbers has a least one.
LEMMA LeastNumber ==
    ASSUME NEW S, S \subseteq Nat, S # {}
    PROVE  \E x \in S : \A y \in S : x <= y
<1> DEFINE R == {p \in Nat \X Nat : p[1] < p[2]}
<1>1. IsWellFoundedOn(R, Nat)
  BY NatLessThanWellFounded DEF OpToRel
<1>2. PICK x \in S : \A y \in S : ~(<<y, x>> \in R)
  <2> HIDE DEF R
  <2> QED BY <1>1, WFMin
<1>3. \A y \in S : ~(y < x)
  BY <1>2
<1> QED BY <1>3

\* The element the recursion takes out of a set.
Picked(s) == CHOOSE x \in s : TRUE

Rest(s) == s \ {Picked(s)}

\* g gives the partial sums of f on the subsets of S.
PartialSums(f, S, g) ==
    g = [s \in SUBSET S |-> IF s = {} THEN 0 ELSE f[Picked(s)] + g[Rest(s)]]

\* Taking one element out of a set that is not empty leaves a smaller one.
LEMMA RestSmaller ==
    ASSUME NEW s, s # {}
    PROVE  /\ Picked(s) \in s /\ Rest(s) \subseteq s /\ Rest(s) # s
           /\ s = Rest(s) \cup {Picked(s)}
  BY DEF Picked, Rest

\* A set of subsets of a finite set has a member of which no other is a part.
LEMMA SmallestSubset ==
    ASSUME NEW S, IsFiniteSet(S), NEW T, T \subseteq SUBSET S, T # {}
    PROVE  \E x \in T : \A y \in T : y \subseteq x => y = x
<1> DEFINE R == StrictSubsetOrdering(S)
<1>1. T \subseteq FiniteSubsetsOf(S)
  BY FS_Subset DEF FiniteSubsetsOf
<1>2. IsWellFoundedOn(R, FiniteSubsetsOf(S))
  BY FS_StrictSubsetOrderingWellFounded
<1>3. PICK x \in T : \A y \in T : ~(<<y, x>> \in R)
  BY <1>1, <1>2, WFMin
<1>4. \A y \in T : y \subseteq x => y = x
  BY <1>3 DEF StrictSubsetOrdering
<1> QED BY <1>4

\* Partial sums on a set and on a part of it agree.
LEMMA PartialSumsAgree ==
    ASSUME NEW f, NEW S, IsFiniteSet(S), NEW T \in SUBSET S, NEW g, NEW h,
           PartialSums(f, S, g), PartialSums(f, T, h)
    PROVE  \A s \in SUBSET T : g[s] = h[s]
<1> DEFINE Bad == {s \in SUBSET T : g[s] # h[s]}
<1> SUFFICES ASSUME Bad # {} PROVE FALSE
  OBVIOUS
<1>0. IsFiniteSet(T) /\ Bad \subseteq SUBSET T
  BY FS_Subset
<1>1. PICK s \in Bad : \A r \in Bad : r \subseteq s => r = s
  <2> HIDE DEF Bad
  <2> QED BY <1>0, SmallestSubset
<1>2. CASE s = {}
  BY <1>2 DEF PartialSums
<1>3. CASE s # {}
  <2>1. g[Rest(s)] = h[Rest(s)]
    BY <1>1, <1>3, RestSmaller
  <2>2. g[s] = f[Picked(s)] + g[Rest(s)] /\ h[s] = f[Picked(s)] + h[Rest(s)]
    BY <1>3 DEF PartialSums
  <2> QED BY <2>1, <2>2
<1> QED BY <1>2, <1>3

\* Every function has partial sums on a finite set.
LEMMA PartialSumsExist ==
    ASSUME NEW f, NEW S, IsFiniteSet(S)
    PROVE  \E g : PartialSums(f, S, g)
<1> DEFINE Bad == {T \in SUBSET S : ~\E g : PartialSums(f, T, g)}
<1> SUFFICES ASSUME Bad # {} PROVE FALSE
  OBVIOUS
<1>0. Bad \subseteq SUBSET S
  OBVIOUS
<1>1. PICK T \in Bad : \A U \in Bad : U \subseteq T => U = T
  <2> HIDE DEF Bad
  <2> QED BY <1>0, SmallestSubset
<1> DEFINE h(U) == CHOOSE g : PartialSums(f, U, g)
<1>2. ASSUME NEW U \in SUBSET T, U # T
      PROVE  PartialSums(f, U, h(U))
  BY <1>1, <1>2
<1> DEFINE G == [s \in SUBSET T |->
                   IF s = {} THEN 0 ELSE f[Picked(s)] + h(Rest(s))[Rest(s)]]
<1>3. ASSUME NEW U \in SUBSET T, U # T
      PROVE  G[U] = h(U)[U]
  <2>1. PartialSums(f, U, h(U))
    BY <1>2, <1>3
  <2>2. CASE U = {}
    BY <2>1, <2>2 DEF PartialSums
  <2>3. CASE U # {}
    <3>1. Rest(U) \in SUBSET U /\ Rest(U) # T
      BY <1>3, <2>3, RestSmaller
    <3>2. PartialSums(f, Rest(U), h(Rest(U)))
      BY <1>2, <3>1
    <3>3. h(U)[Rest(U)] = h(Rest(U))[Rest(U)]
      <4>1. U \in SUBSET S
        OBVIOUS
      <4>2. IsFiniteSet(U)
        BY <4>1, FS_Subset
      <4> HIDE DEF h, Bad, G
      <4> QED BY <2>1, <3>1, <3>2, <4>2, PartialSumsAgree
    <3>4. h(U)[U] = f[Picked(U)] + h(U)[Rest(U)]
      BY <2>1, <2>3 DEF PartialSums
    <3>5. G[U] = f[Picked(U)] + h(Rest(U))[Rest(U)]
      BY <2>3
    <3> QED BY <3>3, <3>4, <3>5
  <2> QED BY <2>2, <2>3
<1>4. ASSUME NEW s \in SUBSET T, s # {}
      PROVE  h(Rest(s))[Rest(s)] = G[Rest(s)]
  <2>1. Rest(s) \in SUBSET T /\ Rest(s) # T
    BY <1>4, RestSmaller
  <2> QED BY <1>3, <2>1
<1>5. PartialSums(f, T, G)
  <2> HIDE DEF h
  <2>1. G = [s \in SUBSET T |-> IF s = {} THEN 0 ELSE f[Picked(s)] + G[Rest(s)]]
    BY <1>4
  <2> QED BY <2>1 DEF PartialSums
<1> QED BY <1>1, <1>5

\* SumFunction is the last of the partial sums.
LEMMA SumIsPartialSum ==
    ASSUME NEW f, IsFiniteSet(DOMAIN f)
    PROVE  \E g : PartialSums(f, DOMAIN f, g) /\ SumFunction(f) = g[DOMAIN f]
<1> DEFINE D == DOMAIN f
<1>1. SumFunction(f) = (CHOOSE g : PartialSums(f, D, g))[D]
  BY DEF SumFunction, SumFunctionOnSet, FoldFunctionOnSet, MapThenFoldSet,
         PartialSums, Picked, Rest
<1>2. PartialSums(f, D, CHOOSE g : PartialSums(f, D, g))
  BY PartialSumsExist
<1> QED BY <1>1, <1>2

\* A sum of integers is an integer.
LEMMA SumType ==
    ASSUME NEW S, IsFiniteSet(S), NEW f \in [S -> Int]
    PROVE  SumFunction(f) \in Int
<1>1. PICK g : PartialSums(f, S, g) /\ SumFunction(f) = g[S]
  BY SumIsPartialSum
<1> DEFINE Bad == {s \in SUBSET S : g[s] \notin Int}
<1>2. Bad = {}
  <2> SUFFICES ASSUME Bad # {} PROVE FALSE
    OBVIOUS
  <2>0. Bad \subseteq SUBSET S
    OBVIOUS
  <2>1. PICK s \in Bad : \A r \in Bad : r \subseteq s => r = s
    <3> HIDE DEF Bad
    <3> QED BY <2>0, SmallestSubset
  <2>2. s # {}
    BY <1>1 DEF PartialSums
  <2>3. g[Rest(s)] \in Int /\ f[Picked(s)] \in Int
    BY <2>1, <2>2, RestSmaller
  <2>4. g[s] = f[Picked(s)] + g[Rest(s)]
    BY <1>1, <2>2 DEF PartialSums
  <2> QED BY <2>3, <2>4
<1> QED BY <1>1, <1>2

\* A sum of nothing but zeros is zero.
LEMMA SumZero ==
    ASSUME NEW S, IsFiniteSet(S), NEW f, f = [x \in S |-> 0]
    PROVE  SumFunction(f) = 0
<1>1. PICK g : PartialSums(f, S, g) /\ SumFunction(f) = g[S]
  BY SumIsPartialSum
<1> DEFINE h == [s \in SUBSET S |-> 0]
<1>2. PartialSums(f, S, h)
  <2>1. \A s \in SUBSET S : s # {} => Picked(s) \in S /\ Rest(s) \in SUBSET S
    BY RestSmaller
  <2> QED BY <2>1 DEF PartialSums
<1>3. g[S] = h[S]
  <2> HIDE DEF h
  <2> QED BY <1>1, <1>2, PartialSumsAgree
<1> QED BY <1>1, <1>3

\* A sum is not less than one whose terms are not greater.
LEMMA SumMonotone ==
    ASSUME NEW S, IsFiniteSet(S), NEW e \in [S -> Int], NEW f \in [S -> Int],
           \A x \in S : e[x] <= f[x]
    PROVE  SumFunction(e) <= SumFunction(f)
<1>1. PICK g : PartialSums(e, S, g) /\ SumFunction(e) = g[S]
  BY SumIsPartialSum
<1>2. PICK h : PartialSums(f, S, h) /\ SumFunction(f) = h[S]
  BY SumIsPartialSum
<1> DEFINE Bad == {s \in SUBSET S :
                     ~(g[s] \in Int /\ h[s] \in Int /\ g[s] <= h[s])}
<1>3. Bad = {}
  <2> SUFFICES ASSUME Bad # {} PROVE FALSE
    OBVIOUS
  <2>0. Bad \subseteq SUBSET S
    OBVIOUS
  <2>1. PICK s \in Bad : \A r \in Bad : r \subseteq s => r = s
    <3> HIDE DEF Bad
    <3> QED BY <2>0, SmallestSubset
  <2>2. s # {}
    BY <1>1, <1>2 DEF PartialSums
  <2>3. /\ g[Rest(s)] \in Int /\ h[Rest(s)] \in Int /\ g[Rest(s)] <= h[Rest(s)]
        /\ Picked(s) \in S
    BY <2>1, <2>2, RestSmaller
  <2>4. /\ g[s] = e[Picked(s)] + g[Rest(s)]
        /\ h[s] = f[Picked(s)] + h[Rest(s)]
    BY <1>1, <1>2, <2>2 DEF PartialSums
  <2> QED BY <2>3, <2>4
<1> QED BY <1>1, <1>2, <1>3

\* Changing one term changes the sum by as much.
LEMMA SumChange ==
    ASSUME NEW S, IsFiniteSet(S), NEW e \in [S -> Int], NEW f \in [S -> Int],
           NEW y \in S, \A x \in S \ {y} : e[x] = f[x]
    PROVE  SumFunction(f) = SumFunction(e) + (f[y] - e[y])
<1>1. PICK g : PartialSums(e, S, g) /\ SumFunction(e) = g[S]
  BY SumIsPartialSum
<1>2. PICK h : PartialSums(f, S, h) /\ SumFunction(f) = h[S]
  BY SumIsPartialSum
<1> DEFINE Right(s) ==
        /\ g[s] \in Int /\ h[s] \in Int
        /\ h[s] = g[s] + (IF y \in s THEN f[y] - e[y] ELSE 0)
           Bad == {s \in SUBSET S : ~Right(s)}
<1>3. Bad = {}
  <2> SUFFICES ASSUME Bad # {} PROVE FALSE
    OBVIOUS
  <2>0. Bad \subseteq SUBSET S
    OBVIOUS
  <2>1. PICK s \in Bad : \A r \in Bad : r \subseteq s => r = s
    <3> HIDE DEF Bad
    <3> QED BY <2>0, SmallestSubset
  <2>2. s # {}
    BY <1>1, <1>2 DEF PartialSums
  <2>3. Right(Rest(s)) /\ Picked(s) \in s /\ Picked(s) \notin Rest(s)
    BY <2>1, <2>2, RestSmaller DEF Rest
  <2>4. /\ g[s] = e[Picked(s)] + g[Rest(s)]
        /\ h[s] = f[Picked(s)] + h[Rest(s)]
        /\ e[Picked(s)] \in Int /\ f[Picked(s)] \in Int
    BY <1>1, <1>2, <2>2, <2>3 DEF PartialSums
  <2>5. CASE Picked(s) = y
    BY <2>3, <2>4, <2>5
  <2>6. CASE Picked(s) # y
    <3>1. y \in s <=> y \in Rest(s)
      BY <2>6 DEF Rest
    <3>2. e[Picked(s)] = f[Picked(s)]
      BY <2>3, <2>6
    <3> QED BY <2>3, <2>4, <3>1, <3>2
  <2> QED BY <2>5, <2>6
<1>4. Right(S)
  BY <1>3
<1> QED BY <1>1, <1>2, <1>4
=============================================================================
