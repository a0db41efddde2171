------------------------------ MODULE SetSums ------------------------------
(***************************************************************************)
(* What SumFunctionOnSet computes.  It adds the values in an order of its  *)
(* own choosing; here it is shown that the order does not matter, so that  *)
(* a sum may be taken apart at any element.                                *)
(*                                                                         *)
(* An induction over a finite set is stated without an operator: a set of  *)
(* counterexamples that is not empty has a smallest member (SmallestPart). *)
(***************************************************************************)
EXTENDS Integers, FiniteSets, Functions, FiniteSetTheorems, WellFoundedInduction, TLAPS

\* g gives every part of S the sum of F over it.
Additive(g, F, S) ==
  /\ g \in [SUBSET S -> Int]
  /\ g[{}] = 0
  /\ \A T \in SUBSET S : \A x \in T : g[T] = F[x] + g[T \ {x}]

\* Of the parts of a finite set that are bad, one has no bad part that is one
\* element smaller.
LEMMA SmallestPart ==
  ASSUME NEW S, IsFiniteSet(S), NEW Bad \in SUBSET (SUBSET S), Bad # {}
  PROVE  \E T \in Bad : \A x \in T : T \ {x} \notin Bad
<1>1. IsWellFoundedOn(StrictSubsetOrdering(S), SUBSET S)
  BY FS_StrictSubsetOrderingWellFounded, FS_FiniteSubsetsOfFinite
<1>2. PICK T \in Bad : \A U \in Bad : <<U, T>> \notin StrictSubsetOrdering(S)
  BY <1>1, WFMin
<1>3. ASSUME NEW x \in T, T \ {x} \in Bad PROVE FALSE
  <2>1. <<T \ {x}, T>> \in StrictSubsetOrdering(S)
    BY <1>3 DEF StrictSubsetOrdering
  <2> QED BY <1>2, <1>3, <2>1
<1> QED BY <1>2, <1>3

\* The sum over one more element.
LEMMA AdditiveExtends ==
  ASSUME NEW T, NEW x, x \notin T, NEW F, NEW g, Additive(g, F, T),
         \A y \in T \cup {x} : F[y] \in Int
  PROVE  \E h : Additive(h, F, T \cup {x})
<1> DEFINE h == [U \in SUBSET (T \cup {x}) |-> IF x \in U THEN F[x] + g[U \ {x}] ELSE g[U]]
<1>1. \A U \in SUBSET (T \cup {x}) : U \ {x} \in SUBSET T /\ (x \notin U => U \in SUBSET T)
  OBVIOUS
<1>2. h \in [SUBSET (T \cup {x}) -> Int] /\ h[{}] = 0
  BY <1>1 DEF Additive
<1>3. ASSUME NEW U \in SUBSET (T \cup {x}), NEW y \in U
      PROVE  h[U] = F[y] + h[U \ {y}]
  <2>1. U \ {y} \in SUBSET (T \cup {x})
    OBVIOUS
  <2>2. CASE y = x
    BY <2>1, <2>2
  <2>3. CASE y # x /\ x \notin U
    <3>1. U \in SUBSET T /\ x \notin U \ {y}
      BY <2>3
    <3>2. h[U] = g[U] /\ h[U \ {y}] = g[U \ {y}]
      BY <2>1, <3>1
    <3> QED BY <3>1, <3>2 DEF Additive
  <2>4. CASE y # x /\ x \in U
    <3> DEFINE V == U \ {x}
    <3>1. V \in SUBSET T /\ y \in V /\ V \ {y} \in SUBSET T /\ (U \ {y}) \ {x} = V \ {y}
      BY <2>4
    <3>2. h[U] = F[x] + g[V] /\ h[U \ {y}] = F[x] + g[V \ {y}]
      BY <2>1, <2>4, <3>1
    <3>3. g[V] = F[y] + g[V \ {y}] /\ g[V \ {y}] \in Int
      BY <3>1 DEF Additive
    <3>4. F[x] \in Int /\ F[y] \in Int
      OBVIOUS
    <3> HIDE DEF h, V
    <3> QED BY <3>2, <3>3, <3>4
  <2> QED BY <2>2, <2>3, <2>4
<1> HIDE DEF h
<1> QED BY <1>2, <1>3 DEF Additive

\* Every finite set has such sums.
LEMMA AdditiveExists ==
  ASSUME NEW S, IsFiniteSet(S), NEW F, \A x \in S : F[x] \in Int
  PROVE  \E g : Additive(g, F, S)
<1> DEFINE Bad == {T \in SUBSET S : ~\E g : Additive(g, F, T)}
<1>1. {} \notin Bad
  <2> DEFINE zero == [T \in SUBSET {} |-> 0]
  <2>1. Additive(zero, F, {})
    BY DEF Additive
  <2> QED BY <2>1
<1>2. ASSUME NEW T \in Bad, \A x \in T : T \ {x} \notin Bad PROVE FALSE
  <2>1. PICK x \in T : TRUE
    BY <1>1
  <2>2. T \ {x} \in SUBSET S /\ (T \ {x}) \cup {x} = T
    BY <2>1
  <2>3. PICK g : Additive(g, F, T \ {x})
    BY <1>2, <2>1, <2>2
  <2>4. \A y \in T : F[y] \in Int
    OBVIOUS
  <2>5. \E h : Additive(h, F, (T \ {x}) \cup {x})
    <3> HIDE DEF Bad
    <3> QED BY <2>2, <2>3, <2>4, AdditiveExtends
  <2> QED BY <2>2, <2>5
<1>3. Bad = {}
  <2> Bad \in SUBSET (SUBSET S)
    OBVIOUS
  <2> HIDE DEF Bad
  <2> QED BY <1>2, SmallestPart
<1> QED BY <1>3

\* It does not matter which element is taken first.
LEMMA SumIsAdditive ==
  ASSUME NEW S, IsFiniteSet(S), NEW F, NEW g, Additive(g, F, S)
  PROVE  SumFunctionOnSet(F, S) = g[S]
<1> DEFINE first(T) == CHOOSE x \in T : TRUE
           Sums(f) == f = [T \in SUBSET S |->
                            IF T = {} THEN 0 ELSE F[first(T)] + f[T \ {first(T)}]]
           sum == CHOOSE f : Sums(f)
<1>1. SumFunctionOnSet(F, S) = sum[S]
  BY DEF SumFunctionOnSet, FoldFunctionOnSet, MapThenFoldSet
<1>2. \A T \in SUBSET S : T # {} => first(T) \in T
  OBVIOUS
<1>3. Sums(g)
  <2>1. ASSUME NEW T \in SUBSET S
        PROVE  g[T] = IF T = {} THEN 0 ELSE F[first(T)] + g[T \ {first(T)}]
    <3> HIDE DEF first
    <3> QED BY <1>2 DEF Additive
  <2>2. g = [T \in SUBSET S |-> g[T]]
    BY DEF Additive
  <2> HIDE DEF first
  <2> QED BY <2>1, <2>2
<1>4. Sums(sum)
  <2> HIDE DEF Sums
  <2> QED BY <1>3
<1>5. \A T \in SUBSET S : sum[T] = IF T = {} THEN 0 ELSE F[first(T)] + sum[T \ {first(T)}]
  <2> HIDE DEF sum, first
  <2> QED BY <1>4
<1>6. \A T \in SUBSET S : g[T] = IF T = {} THEN 0 ELSE F[first(T)] + g[T \ {first(T)}]
  <2> HIDE DEF sum, first
  <2> QED BY <1>3
<1> DEFINE Bad == {T \in SUBSET S : sum[T] # g[T]}
<1>7. ASSUME NEW T \in Bad, \A x \in T : T \ {x} \notin Bad PROVE FALSE
  <2> HIDE DEF sum, first
  <2>1. T \in SUBSET S /\ sum[T] # g[T] /\ T # {}
    BY <1>5, <1>6
  <2>2. first(T) \in T /\ T \ {first(T)} \in SUBSET S
    BY <1>2, <2>1
  <2>3. sum[T \ {first(T)}] = g[T \ {first(T)}]
    BY <1>7, <2>2
  <2> QED BY <1>5, <1>6, <2>1, <2>3
<1>8. Bad = {}
  <2> Bad \in SUBSET (SUBSET S)
    OBVIOUS
  <2> HIDE DEF Bad
  <2> QED BY <1>7, SmallestPart
<1>9. S \in SUBSET S
  OBVIOUS
<1> HIDE DEF sum
<1> QED BY <1>1, <1>8, <1>9

------------------------------------------------------------------------------
(* What is cited elsewhere                                                  *)

\* A sum of integers is one, and nothing sums to 0.
LEMMA SumType ==
  ASSUME NEW S, IsFiniteSet(S), NEW F, \A x \in S : F[x] \in Int
  PROVE  SumFunctionOnSet(F, S) \in Int
<1>1. PICK g : Additive(g, F, S)
  BY AdditiveExists
<1>2. S \in SUBSET S
  OBVIOUS
<1>3. SumFunctionOnSet(F, S) = g[S]
  BY <1>1, SumIsAdditive
<1>4. g[S] \in Int
  BY <1>1, <1>2 DEF Additive
<1> QED BY <1>3, <1>4

LEMMA SumEmpty == ASSUME NEW F PROVE SumFunctionOnSet(F, {}) = 0
<1>1. IsFiniteSet({})
  BY FS_EmptySet
<1>2. PICK g : Additive(g, F, {})
  BY <1>1, AdditiveExists
<1>3. SumFunctionOnSet(F, {}) = g[{}]
  BY <1>1, <1>2, SumIsAdditive
<1> QED BY <1>2, <1>3 DEF Additive

\* Any element may be taken out.
LEMMA SumTake ==
  ASSUME NEW S, IsFiniteSet(S), NEW F, \A x \in S : F[x] \in Int, NEW x \in S
  PROVE  SumFunctionOnSet(F, S) = F[x] + SumFunctionOnSet(F, S \ {x})
<1>1. PICK g : Additive(g, F, S)
  BY AdditiveExists
<1> DEFINE T == S \ {x}
           h == [U \in SUBSET T |-> g[U]]
<1>2. Additive(h, F, T)
  <2>1. SUBSET T \subseteq SUBSET S /\ {} \in SUBSET T
    OBVIOUS
  <2>2. h \in [SUBSET T -> Int] /\ h[{}] = 0
    BY <1>1, <2>1 DEF Additive
  <2>3. \A U \in SUBSET T : \A y \in U : h[U] = F[y] + h[U \ {y}]
    BY <1>1, <2>1 DEF Additive
  <2> HIDE DEF h, T
  <2> QED BY <2>2, <2>3 DEF Additive
<1>3. IsFiniteSet(T)
  BY FS_RemoveElement
<1>4. SumFunctionOnSet(F, T) = g[T]
  <2>1. h[T] = g[T]
    OBVIOUS
  <2>2. SumFunctionOnSet(F, T) = h[T]
    <3> HIDE DEF h, T
    <3> QED BY <1>2, <1>3, SumIsAdditive
  <2> QED BY <2>1, <2>2
<1>5. g[S] = F[x] + g[T]
  BY <1>1 DEF Additive
<1>6. SumFunctionOnSet(F, S) = g[S]
  BY <1>1, SumIsAdditive
<1> QED BY <1>4, <1>5, <1>6

\* The sum depends on the values over the set, and is monotone in them.
LEMMA SumMonotone ==
  ASSUME NEW S, IsFiniteSet(S), NEW F, NEW G,
         \A x \in S : F[x] \in Int /\ G[x] \in Int /\ F[x] <= G[x]
  PROVE  SumFunctionOnSet(F, S) <= SumFunctionOnSet(G, S)
<1> DEFINE Bad == {T \in SUBSET S : ~(SumFunctionOnSet(F, T) <= SumFunctionOnSet(G, T))}
<1>1. ASSUME NEW T \in Bad, \A x \in T : T \ {x} \notin Bad PROVE FALSE
  <2>1. CASE T = {}
    BY <2>1, SumEmpty
  <2>2. ASSUME NEW x \in T PROVE FALSE
    <3> DEFINE U == T \ {x}
    <3>1. IsFiniteSet(T) /\ IsFiniteSet(U) /\ U \in SUBSET S /\ T \in SUBSET S
      BY FS_Subset, FS_RemoveElement
    <3>2. /\ SumFunctionOnSet(F, T) = F[x] + SumFunctionOnSet(F, U)
          /\ SumFunctionOnSet(G, T) = G[x] + SumFunctionOnSet(G, U)
      BY <3>1, SumTake
    <3>3. SumFunctionOnSet(F, U) \in Int /\ SumFunctionOnSet(G, U) \in Int
      BY <3>1, SumType
    <3>4. SumFunctionOnSet(F, U) <= SumFunctionOnSet(G, U)
      BY <1>1, <3>1
    <3>5. F[x] \in Int /\ G[x] \in Int /\ F[x] <= G[x]
      BY <3>1
    <3>6. ~(SumFunctionOnSet(F, T) <= SumFunctionOnSet(G, T))
      OBVIOUS
    <3> HIDE DEF U, Bad
    <3> QED BY <3>2, <3>3, <3>4, <3>5, <3>6
  <2> QED BY <2>1, <2>2
<1>2. Bad = {}
  <2> Bad \in SUBSET (SUBSET S)
    OBVIOUS
  <2> HIDE DEF Bad
  <2> QED BY <1>1, SmallestPart
<1>3. S \in SUBSET S
  OBVIOUS
<1> QED BY <1>2, <1>3

LEMMA SumSame ==
  ASSUME NEW S, IsFiniteSet(S), NEW F, NEW G,
         \A x \in S : F[x] \in Int /\ G[x] = F[x]
  PROVE  SumFunctionOnSet(G, S) = SumFunctionOnSet(F, S)
<1>1. SumFunctionOnSet(F, S) \in Int /\ SumFunctionOnSet(G, S) \in Int
  BY SumType
<1>2. /\ SumFunctionOnSet(F, S) <= SumFunctionOnSet(G, S)
      /\ SumFunctionOnSet(G, S) <= SumFunctionOnSet(F, S)
  BY SumMonotone
<1> QED BY <1>1, <1>2

\* Of values that are not negative, a part sums to no more than the whole.
LEMMA SumOfPart ==
  ASSUME NEW S, IsFiniteSet(S), NEW F, \A x \in S : F[x] \in Nat, NEW T \in SUBSET S
  PROVE  SumFunctionOnSet(F, T) <= SumFunctionOnSet(F, S)
<1> DEFINE Bad == {U \in SUBSET S :
                     ~(SumFunctionOnSet(F, U \cap T) <= SumFunctionOnSet(F, U))}
<1>1. ASSUME NEW U \in Bad, \A x \in U : U \ {x} \notin Bad PROVE FALSE
  <2>1. CASE U = {}
    <3>1. U \cap T = {}
      BY <2>1
    <3> QED BY <2>1, <3>1, SumEmpty
  <2>2. ASSUME NEW x \in U PROVE FALSE
    <3> DEFINE V == U \ {x}
    <3>1. /\ IsFiniteSet(U) /\ IsFiniteSet(V) /\ IsFiniteSet(U \cap T) /\ IsFiniteSet(V \cap T)
          /\ U \in SUBSET S /\ V \in SUBSET S
      BY FS_Subset
    <3>2. SumFunctionOnSet(F, U) = F[x] + SumFunctionOnSet(F, V) /\ F[x] \in Nat
      BY <3>1, SumTake
    <3>3. /\ SumFunctionOnSet(F, V) \in Int /\ SumFunctionOnSet(F, V \cap T) \in Int
      BY <3>1, SumType
    <3>4. SumFunctionOnSet(F, V \cap T) <= SumFunctionOnSet(F, V)
      BY <1>1, <3>1
    <3>5. \/ SumFunctionOnSet(F, U \cap T) = SumFunctionOnSet(F, V \cap T)
          \/ SumFunctionOnSet(F, U \cap T) = F[x] + SumFunctionOnSet(F, V \cap T)
      <4>1. CASE x \notin T
        <5>1. U \cap T = V \cap T
          BY <4>1
        <5> QED BY <5>1
      <4>2. CASE x \in T
        <5>1. (U \cap T) \ {x} = V \cap T /\ x \in U \cap T
          BY <4>2
        <5>2. \A y \in U \cap T : F[y] \in Int
          BY <3>1
        <5> HIDE DEF V
        <5> QED BY <3>1, <5>1, <5>2, SumTake
      <4> QED BY <4>1, <4>2
    <3>6. ~(SumFunctionOnSet(F, U \cap T) <= SumFunctionOnSet(F, U))
      OBVIOUS
    <3> HIDE DEF V, Bad
    <3> QED BY <3>2, <3>3, <3>4, <3>5, <3>6
  <2> QED BY <2>1, <2>2
<1>2. Bad = {}
  <2> Bad \in SUBSET (SUBSET S)
    OBVIOUS
  <2> HIDE DEF Bad
  <2> QED BY <1>1, SmallestPart
<1>3. S \in SUBSET S /\ S \cap T = T
  OBVIOUS
<1> QED BY <1>2, <1>3

LEMMA SumNat ==
  ASSUME NEW S, IsFiniteSet(S), NEW F, \A x \in S : F[x] \in Nat
  PROVE  SumFunctionOnSet(F, S) \in Nat
<1>1. {} \in SUBSET S
  OBVIOUS
<1>2. SumFunctionOnSet(F, {}) <= SumFunctionOnSet(F, S)
  BY <1>1, SumOfPart
<1>3. SumFunctionOnSet(F, S) \in Int
  BY SumType
<1> QED BY <1>2, <1>3, SumEmpty

\* One value changes by d.
LEMMA SumChange ==
  ASSUME NEW S, IsFiniteSet(S), NEW F, NEW G, NEW x \in S, NEW d \in Int,
         \A y \in S : F[y] \in Int, G[x] = F[x] + d,
         \A y \in S \ {x} : G[y] = F[y]
  PROVE  SumFunctionOnSet(G, S) = SumFunctionOnSet(F, S) + d
<1> DEFINE T == S \ {x}
<1>1. IsFiniteSet(T)
  BY FS_RemoveElement
<1>2. SumFunctionOnSet(G, T) = SumFunctionOnSet(F, T) /\ SumFunctionOnSet(F, T) \in Int
  BY <1>1, SumSame, SumType
<1>3. F[x] \in Int /\ \A y \in S : G[y] \in Int
  OBVIOUS
<1>4. /\ SumFunctionOnSet(F, S) = F[x] + SumFunctionOnSet(F, T)
      /\ SumFunctionOnSet(G, S) = G[x] + SumFunctionOnSet(G, T)
  BY <1>3, SumTake
<1> HIDE DEF T
<1> QED BY <1>2, <1>3, <1>4
=============================================================================
