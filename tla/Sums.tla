-------------------------------- MODULE Sums --------------------------------
(***************************************************************************)
(* Sums over finite sets, for the proofs: MapThenSumSet and SumFunction of *)
(* the community modules are recursive functions, and every fact about     *)
(* them is an induction over the set.  The induction is done here, once,   *)
(* in the form of a smallest counterexample, so that the lemmas speak of   *)
(* functions and sets only and can be cited like any other.                *)
(***************************************************************************)
EXTENDS Integers, FiniteSets, FiniteSetsExt, Functions, FiniteSetTheorems,
        WellFoundedInduction, TLAPS

(* The element a sum over s takes first. *)
Chosen(s) == CHOOSE x \in s : TRUE

(* g maps every subset of S to the sum of f over it. *)
IsSum(f, S, g) ==
  g = [s \in SUBSET S |-> IF s = {} THEN 0 ELSE f[Chosen(s)] + g[s \ {Chosen(s)}]]

(* The sum of f over S, as the community modules define it. *)
SumOver(f, S) == (CHOOSE g : IsSum(f, S, g))[S]

(* The sum of a function is the sum over its domain. *)
LEMMA FunIsSum ==
  ASSUME NEW f
  PROVE  SumFunction(f) = SumOver(f, DOMAIN f)
  BY DEF SumFunction, SumFunctionOnSet, FoldFunctionOnSet, MapThenFoldSet, SumOver, IsSum, Chosen

(* A collection of subsets of a finite set has a smallest one. *)
LEMMA SmallestSubset ==
  ASSUME NEW S, IsFiniteSet(S), NEW C \in SUBSET SUBSET S, C # {}
  PROVE  \E m \in C : \A u \in C : u \subseteq m => u = m
<1>1. IsWellFoundedOn(StrictSubsetOrdering(S), SUBSET S)
  BY FS_StrictSubsetOrderingWellFounded, FS_FiniteSubsetsOfFinite
<1>2. PICK m \in C : \A u \in C : <<u, m>> \notin StrictSubsetOrdering(S)
  BY <1>1, WFMin
<1>3. ASSUME NEW u \in C, u \subseteq m
      PROVE  u = m
  BY <1>2, <1>3 DEF StrictSubsetOrdering
<1> QED
  BY <1>2, <1>3

(* Induction over the subsets of a finite set: what every set inherits from *)
(* its sets with one element less, every set has.                           *)
LEMMA SubsetInduction ==
  ASSUME NEW S, IsFiniteSet(S), NEW G,
         \A T \in SUBSET S : (\A x \in T : T \ {x} \in G) => T \in G
  PROVE  SUBSET S \subseteq G
<1> DEFINE C == (SUBSET S) \ G
<1> SUFFICES ASSUME C # {}
             PROVE  FALSE
  OBVIOUS
<1>1. PICK m \in C : \A u \in C : u \subseteq m => u = m
  <2> HIDE DEF C
  <2>1. C \in SUBSET SUBSET S
    BY DEF C
  <2> QED
    BY <2>1, SmallestSubset
<1>2. ASSUME NEW x \in m
      PROVE  m \ {x} \in G
  <2>1. m \ {x} \subseteq m /\ m \ {x} # m /\ m \ {x} \in SUBSET S
    BY <1>2
  <2> QED
    BY <1>1, <2>1
<1> QED
  BY <1>1, <1>2

(* The chosen element is one of the set. *)
LEMMA ChosenIn ==
  ASSUME NEW S, S # {}
  PROVE  Chosen(S) \in S
  BY DEF Chosen

(* Two functions that sum f agree wherever both are defined. *)
LEMMA SumsAgree ==
  ASSUME NEW f, NEW A, NEW B, NEW g, NEW h, IsFiniteSet(A),
         IsSum(f, A, g), IsSum(f, B, h), NEW U \in SUBSET A, U \subseteq B
  PROVE  g[U] = h[U]
<1> DEFINE G == {T \in SUBSET U : g[T] = h[T]}
<1>1. IsFiniteSet(U)
  BY FS_Subset
<1>2. ASSUME NEW T \in SUBSET U, \A x \in T : T \ {x} \in G
      PROVE  T \in G
  <2>1. /\ g[T] = IF T = {} THEN 0 ELSE f[Chosen(T)] + g[T \ {Chosen(T)}]
        /\ h[T] = IF T = {} THEN 0 ELSE f[Chosen(T)] + h[T \ {Chosen(T)}]
    BY DEF IsSum
  <2>2. CASE T = {}
    BY <2>1, <2>2
  <2>3. CASE T # {}
    BY <1>2, <2>1, <2>3, ChosenIn
  <2> QED
    BY <2>2, <2>3
<1>3. SUBSET U \subseteq G
  <2> HIDE DEF G
  <2> QED
    BY <1>1, <1>2, SubsetInduction
<1> QED
  BY <1>3

(* There is a function that sums f over every subset of a finite set. *)
LEMMA SumExists ==
  ASSUME NEW f, NEW S, IsFiniteSet(S)
  PROVE  \E g : IsSum(f, S, g)
<1> DEFINE G == {T \in SUBSET S : \A U \in SUBSET T : \E g : IsSum(f, U, g)}
           V(U) == (CHOOSE g : IsSum(f, U, g))[U]
<1>1. ASSUME NEW T \in SUBSET S, \A x \in T : T \ {x} \in G
      PROVE  T \in G
  <2> SUFFICES ASSUME NEW U \in SUBSET T
               PROVE  \E g : IsSum(f, U, g)
    OBVIOUS
  <2> DEFINE g == [s \in SUBSET U |->
                     IF s = {} THEN 0 ELSE f[Chosen(s)] + V(s \ {Chosen(s)})]
  <2>1. ASSUME NEW W, NEW x \in T, W \subseteq T \ {x}
        PROVE  IsSum(f, W, CHOOSE h : IsSum(f, W, h)) /\ IsFiniteSet(W)
    <3>1. \E h : IsSum(f, W, h)
      BY <1>1, <2>1
    <3>2. IsFiniteSet(W)
      BY <2>1, FS_Subset
    <3> QED
      BY <3>1, <3>2
  <2>2. ASSUME NEW W, NEW x \in U, W \subseteq U \ {x}
        PROVE  g[W] = V(W)
    <3>1. CASE W = {}
      <4> DEFINE a == CHOOSE h : IsSum(f, W, h)
      <4>1. IsSum(f, W, a)
        BY <2>1, <2>2
      <4>2. a[W] = 0
        <5> HIDE DEF a
        <5> QED
          BY <4>1, <3>1 DEF IsSum
      <4> QED
        BY <4>2, <2>2, <3>1
    <3>2. CASE W # {}
      <4> DEFINE R == W \ {Chosen(W)}
                 a == CHOOSE h : IsSum(f, W, h)
                 b == CHOOSE h : IsSum(f, R, h)
      <4>1. Chosen(W) \in W
        BY <3>2, ChosenIn
      <4>2. IsSum(f, W, a) /\ IsFiniteSet(W)
        BY <2>1, <2>2
      <4>3. IsSum(f, R, b)
        BY <2>1, <2>2
      <4>4. a[R] = b[R]
        <5> HIDE DEF a, b
        <5> QED
          BY <4>2, <4>3, SumsAgree
      <4>5. a[W] = f[Chosen(W)] + a[R]
        <5> HIDE DEF a
        <5> QED
          BY <4>2, <3>2 DEF IsSum
      <4>6. g[W] = f[Chosen(W)] + V(R)
        BY <3>2, <2>2
      <4> QED
        BY <4>4, <4>5, <4>6
    <3> QED
      BY <3>1, <3>2
  <2>3. IsSum(f, U, g)
    <3>1. ASSUME NEW s \in SUBSET U, s # {}
          PROVE  g[s \ {Chosen(s)}] = V(s \ {Chosen(s)})
      <4>1. Chosen(s) \in U
        BY <3>1, ChosenIn
      <4> QED
        BY <4>1, <2>2
    <3> HIDE DEF V
    <3>2. g = [s \in SUBSET U |-> IF s = {} THEN 0 ELSE f[Chosen(s)] + g[s \ {Chosen(s)}]]
      BY <3>1
    <3> QED
      BY <3>2 DEF IsSum
  <2> QED
    BY <2>3
<1>2. SUBSET S \subseteq G
  <2> HIDE DEF G
  <2> QED
    BY <1>1, SubsetInduction
<1> QED
  BY <1>2

(* The recursive equation of a sum. *)
LEMMA SumEquation ==
  ASSUME NEW f, NEW S, IsFiniteSet(S)
  PROVE  SumOver(f, S) = IF S = {} THEN 0 ELSE f[Chosen(S)] + SumOver(f, S \ {Chosen(S)})
<1> DEFINE R == S \ {Chosen(S)}
           a == CHOOSE g : IsSum(f, S, g)
           b == CHOOSE g : IsSum(f, R, g)
<1>1. IsFiniteSet(R)
  BY FS_Subset
<1>2. IsSum(f, S, a) /\ IsSum(f, R, b)
  BY <1>1, SumExists
<1>3. a[S] = IF S = {} THEN 0 ELSE f[Chosen(S)] + a[R]
  <2> HIDE DEF a, b
  <2> QED
    BY <1>2 DEF IsSum
<1>4. a[R] = b[R]
  <2> HIDE DEF a, b
  <2> QED
    BY <1>2, SumsAgree
<1> QED
  BY <1>3, <1>4 DEF SumOver

(* A sum of natural numbers is one. *)
LEMMA SumIsNat ==
  ASSUME NEW S, IsFiniteSet(S), NEW f, \A x \in S : f[x] \in Nat
  PROVE  SumOver(f, S) \in Nat
<1> DEFINE G == {T \in SUBSET S : SumOver(f, T) \in Nat}
<1>1. ASSUME NEW T \in SUBSET S, \A x \in T : T \ {x} \in G
      PROVE  T \in G
  <2>1. IsFiniteSet(T)
    BY FS_Subset
  <2>2. SumOver(f, T) = IF T = {} THEN 0 ELSE f[Chosen(T)] + SumOver(f, T \ {Chosen(T)})
    BY <2>1, SumEquation
  <2>3. T # {} => f[Chosen(T)] \in Nat /\ SumOver(f, T \ {Chosen(T)}) \in Nat
    <3> SUFFICES ASSUME T # {}
                 PROVE  f[Chosen(T)] \in Nat /\ SumOver(f, T \ {Chosen(T)}) \in Nat
      OBVIOUS
    <3>1. Chosen(T) \in T
      BY ChosenIn
    <3> QED
      BY <1>1, <3>1
  <2> QED
    BY <2>2, <2>3
<1>2. SUBSET S \subseteq G
  <2> HIDE DEF G
  <2> QED
    BY <1>1, SubsetInduction
<1> QED
  BY <1>2

(* Any element may be taken out first. *)
LEMMA SumWithout ==
  ASSUME NEW S, IsFiniteSet(S), NEW f, \A y \in S : f[y] \in Nat, NEW x \in S
  PROVE  SumOver(f, S) = f[x] + SumOver(f, S \ {x})
<1> DEFINE G == {T \in SUBSET S : \A y \in T : SumOver(f, T) = f[y] + SumOver(f, T \ {y})}
<1>1. ASSUME NEW T \in SUBSET S
      PROVE  IsFiniteSet(T) /\ SumOver(f, T) \in Nat
  BY FS_Subset, SumIsNat
<1>2. ASSUME NEW T \in SUBSET S, \A y \in T : T \ {y} \in G, NEW y \in T
      PROVE  SumOver(f, T) = f[y] + SumOver(f, T \ {y})
  <2> DEFINE p == Chosen(T)
             R == (T \ {p}) \ {y}
  <2>1. p \in T /\ SumOver(f, T) = f[p] + SumOver(f, T \ {p})
    BY <1>1, <1>2, ChosenIn, SumEquation
  <2>2. CASE p = y
    BY <2>1, <2>2
  <2>3. CASE p # y
    <3>1. SumOver(f, T \ {p}) = f[y] + SumOver(f, R)
      BY <1>2, <2>1, <2>3
    <3>2. SumOver(f, T \ {y}) = f[p] + SumOver(f, R)
      <4>1. (T \ {y}) \ {p} = R
        OBVIOUS
      <4> HIDE DEF R, p
      <4> QED
        BY <4>1, <1>2, <2>1, <2>3
    <3>3. SumOver(f, R) \in Nat /\ f[p] \in Nat /\ f[y] \in Nat
      BY <1>1, <2>1
    <3> HIDE DEF R, p
    <3> QED
      BY <2>1, <3>1, <3>2, <3>3
  <2> QED
    BY <2>2, <2>3
<1>3. SUBSET S \subseteq G
  <2> HIDE DEF G
  <2>1. \A T \in SUBSET S : (\A y \in T : T \ {y} \in G) => T \in G
    BY <1>2 DEF G
  <2> QED
    BY <2>1, SubsetInduction
<1> QED
  BY <1>3

(* Equal terms have equal sums. *)
LEMMA SameTerms ==
  ASSUME NEW S, IsFiniteSet(S), NEW f, NEW g, \A x \in S : f[x] = g[x]
  PROVE  SumOver(f, S) = SumOver(g, S)
<1> DEFINE G == {T \in SUBSET S : SumOver(f, T) = SumOver(g, T)}
<1>1. ASSUME NEW T \in SUBSET S, \A y \in T : T \ {y} \in G
      PROVE  T \in G
  <2>1. IsFiniteSet(T)
    BY FS_Subset
  <2>2. CASE T = {}
    BY <2>1, <2>2, SumEquation
  <2>3. CASE T # {}
    <3>1. Chosen(T) \in T
      BY <2>3, ChosenIn
    <3>2. f[Chosen(T)] = g[Chosen(T)] /\ SumOver(f, T \ {Chosen(T)}) = SumOver(g, T \ {Chosen(T)})
      BY <1>1, <3>1
    <3>3. /\ SumOver(f, T) = f[Chosen(T)] + SumOver(f, T \ {Chosen(T)})
          /\ SumOver(g, T) = g[Chosen(T)] + SumOver(g, T \ {Chosen(T)})
      BY <2>1, <2>3, SumEquation
    <3> QED
      BY <3>2, <3>3
  <2> QED
    BY <2>2, <2>3
<1>2. SUBSET S \subseteq G
  <2> HIDE DEF G
  <2> QED
    BY <1>1, SubsetInduction
<1> QED
  BY <1>2

(* More and larger terms have a larger sum. *)
LEMMA MoreTerms ==
  ASSUME NEW S, IsFiniteSet(S), NEW R \in SUBSET S, NEW f, NEW g,
         \A x \in S : f[x] \in Nat /\ g[x] \in Nat, \A x \in R : f[x] <= g[x]
  PROVE  SumOver(f, R) <= SumOver(g, S)
<1> DEFINE G == {T \in SUBSET S : SumOver(f, T \cap R) <= SumOver(g, T)}
<1>1. ASSUME NEW T \in SUBSET S
      PROVE  IsFiniteSet(T) /\ SumOver(f, T) \in Nat /\ SumOver(g, T) \in Nat
  BY FS_Subset, SumIsNat
<1>2. ASSUME NEW T \in SUBSET S, \A y \in T : T \ {y} \in G
      PROVE  SumOver(f, T \cap R) <= SumOver(g, T)
  <2>1. CASE T = {}
    <3>1. SumOver(f, {}) = 0 /\ SumOver(g, {}) = 0
      BY FS_EmptySet, SumEquation
    <3> QED
      BY <2>1, <3>1
  <2>2. CASE T # {}
    <3>1. PICK x : x \in T
      BY <2>2
    <3> DEFINE U == T \ {x}
    <3>2. SumOver(f, U \cap R) <= SumOver(g, U)
      BY <1>2, <3>1
    <3>3. SumOver(g, T) = g[x] + SumOver(g, U)
      BY <1>1, <3>1, SumWithout
    <3>4. /\ SumOver(g, U) \in Nat /\ SumOver(f, U \cap R) \in Nat
          /\ f[x] \in Nat /\ g[x] \in Nat
      <4>1. U \in SUBSET S /\ U \cap R \in SUBSET S /\ x \in S
        BY <3>1
      <4> QED
        BY <1>1, <4>1
    <3>5. CASE x \in R
      <4>1. SumOver(f, T \cap R) = f[x] + SumOver(f, U \cap R)
        <5>1. U \cap R = (T \cap R) \ {x} /\ x \in T \cap R /\ T \cap R \in SUBSET S
          BY <3>1, <3>5
        <5> QED
          BY <1>1, <5>1, SumWithout
      <4>2. f[x] <= g[x]
        BY <3>5
      <4> HIDE DEF U
      <4> QED
        BY <3>2, <3>3, <3>4, <4>1, <4>2
    <3>6. CASE x \notin R
      <4>1. T \cap R = U \cap R
        BY <3>6
      <4>2. SumOver(f, T \cap R) = SumOver(f, U \cap R)
        BY <4>1
      <4> HIDE DEF U
      <4> QED
        BY <3>2, <3>3, <3>4, <4>2
    <3> QED
      BY <3>5, <3>6
  <2> QED
    BY <2>1, <2>2
<1>3. SUBSET S \subseteq G
  <2> HIDE DEF G
  <2>1. \A T \in SUBSET S : (\A y \in T : T \ {y} \in G) => T \in G
    BY <1>2 DEF G
  <2> QED
    BY <2>1, SubsetInduction
<1>4. S \in G /\ S \cap R = R
  BY <1>3
<1> QED
  BY <1>4

(* Terms that are each at most another, with a sum that is at least the     *)
(* other's, are equal to them one by one.                                   *)
LEMMA ForcedTerms ==
  ASSUME NEW S, IsFiniteSet(S), NEW f, NEW g,
         \A x \in S : f[x] \in Nat /\ g[x] \in Nat /\ f[x] <= g[x],
         SumOver(g, S) <= SumOver(f, S)
  PROVE  \A x \in S : f[x] = g[x]
<1> SUFFICES ASSUME NEW x \in S
             PROVE  f[x] = g[x]
  OBVIOUS
<1> DEFINE R == S \ {x}
<1>1. SumOver(f, S) = f[x] + SumOver(f, R) /\ SumOver(g, S) = g[x] + SumOver(g, R)
  BY SumWithout
<1>2. IsFiniteSet(R)
  BY FS_Subset
<1>3. SumOver(f, R) <= SumOver(g, R)
  BY <1>2, MoreTerms
<1>4. SumOver(f, R) \in Nat /\ SumOver(g, R) \in Nat /\ f[x] \in Nat /\ g[x] \in Nat
  BY <1>2, SumIsNat
<1> HIDE DEF R
<1> QED
  BY <1>1, <1>3, <1>4
=============================================================================
