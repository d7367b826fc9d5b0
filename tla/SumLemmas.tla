------------------------------ MODULE SumLemmas ------------------------------
(***************************************************************************)
(* What SumFunctionOnSet computes on a finite set of indices.  The counters*)
(* of the caches are compared with sums over what they count, and a proof  *)
(* about such a counter needs to know what an element more or less does to *)
(* the sum.                                                                *)
(*                                                                         *)
(* The induction theorems of the library take the property as an operator; *)
(* here it is a set of sets, so that an instance is a first-order formula. *)
(***************************************************************************)
EXTENDS Integers, FiniteSets, Functions, FiniteSetTheorems, WellFoundedInduction, TLAPS

(* A set of subsets that holds the empty set, and every set of which it    *)
(* holds all that is left when one element is removed, holds the whole.    *)
LEMMA SubsetInduction ==
  ASSUME NEW S, IsFiniteSet(S), NEW P, {} \in P,
         \A t \in SUBSET S : t # {} /\ (\A x \in t : t \ {x} \in P) => t \in P
  PROVE  S \in P
<1>. DEFINE Bad == {t \in SUBSET S : t \notin P}
<1>1. SUFFICES ASSUME Bad # {} PROVE FALSE
  OBVIOUS
<1>2. FiniteSubsetsOf(S) = SUBSET S
  BY FS_FiniteSubsetsOfFinite
<1>3. IsWellFoundedOn(StrictSubsetOrdering(S), SUBSET S)
  BY <1>2, FS_StrictSubsetOrderingWellFounded
<1>4. Bad \subseteq SUBSET S
  OBVIOUS
<1>. HIDE DEF Bad
<1>5. PICK t \in Bad : \A u \in Bad : ~ (<<u, t>> \in StrictSubsetOrdering(S))
  BY <1>1, <1>3, <1>4, WFMin
<1>6. ASSUME NEW x \in t PROVE t \ {x} \in P
  <2>1. t \in SUBSET S /\ t \ {x} \in SUBSET S
    BY <1>4
  <2>2. <<t \ {x}, t>> \in StrictSubsetOrdering(S)
    BY <2>1 DEF StrictSubsetOrdering
  <2>. QED  BY <1>5, <2>1, <2>2 DEF Bad
<1>. QED  BY <1>4, <1>5, <1>6 DEF Bad

-----------------------------------------------------------------------------
(* The function on the subsets of S that SumFunctionOnSet evaluates at S.  *)
Pick(t) == CHOOSE x \in t : TRUE

Sums(f, S) ==
  CHOOSE g : g = [t \in SUBSET S |-> IF t = {} THEN 0 ELSE f[Pick(t)] + g[t \ {Pick(t)}]]

IsSums(f, S, g) ==
  g = [t \in SUBSET S |-> IF t = {} THEN 0 ELSE f[Pick(t)] + g[t \ {Pick(t)}]]

LEMMA SumIsSums ==
  ASSUME NEW f, NEW S
  PROVE  SumFunctionOnSet(f, S) = Sums(f, S)[S]
BY DEF SumFunctionOnSet, FoldFunctionOnSet, MapThenFoldSet, Sums, Pick

LEMMA PickIn ==
  ASSUME NEW t, t # {}
  PROVE  Pick(t) \in t
BY DEF Pick

(* Two such functions agree on a set both are defined at.                  *)
LEMMA SumsUnique ==
  ASSUME NEW f, NEW S, NEW T, NEW g, NEW h, IsSums(f, S, g), IsSums(f, T, h),
         NEW U, U \subseteq S, U \subseteq T, IsFiniteSet(U)
  PROVE  g[U] = h[U]
<1>. DEFINE P == {t \in SUBSET U : g[t] = h[t]}
<1>1. {} \in P
  BY DEF IsSums
<1>2. ASSUME NEW t \in SUBSET U, t # {}, \A x \in t : t \ {x} \in P
      PROVE  t \in P
  <2>1. Pick(t) \in t /\ t \in SUBSET S /\ t \in SUBSET T
    BY <1>2, PickIn
  <2>2. g[t \ {Pick(t)}] = h[t \ {Pick(t)}]
    BY <1>2, <2>1
  <2>3. g[t] = f[Pick(t)] + g[t \ {Pick(t)}]
    BY <1>2, <2>1 DEF IsSums
  <2>4. h[t] = f[Pick(t)] + h[t \ {Pick(t)}]
    BY <1>2, <2>1 DEF IsSums
  <2>. QED  BY <2>2, <2>3, <2>4
<1>3. U \in P
  <2>. HIDE DEF P
  <2>. QED  BY <1>1, <1>2, SubsetInduction
<1>. QED  BY <1>3

(* There is one for every finite set.                                      *)
LEMMA SumsExists ==
  ASSUME NEW f, NEW S, IsFiniteSet(S)
  PROVE  IsSums(f, S, Sums(f, S))
<1>. DEFINE P == {t \in SUBSET S : \A u \in SUBSET t : IsSums(f, u, Sums(f, u))}
<1>1. {} \in P
  <2>1. ASSUME NEW u \in SUBSET {} PROVE IsSums(f, u, Sums(f, u))
    <3>1. u = {}
      OBVIOUS
    <3>. DEFINE g == [t \in SUBSET {} |-> 0]
    <3>2. g = [t \in SUBSET {} |-> IF t = {} THEN 0 ELSE f[Pick(t)] + g[t \ {Pick(t)}]]
      OBVIOUS
    <3>3. \E h : h = [t \in SUBSET {} |-> IF t = {} THEN 0 ELSE f[Pick(t)] + h[t \ {Pick(t)}]]
      BY <3>2
    <3>. QED  BY <3>1, <3>3 DEF IsSums, Sums
  <2>. QED  BY <2>1
<1>2. ASSUME NEW t \in SUBSET S, t # {}, \A x \in t : t \ {x} \in P
      PROVE  t \in P
  <2>1. ASSUME NEW u \in SUBSET t, u # t PROVE IsSums(f, u, Sums(f, u))
    <3>1. PICK x \in t : u \in SUBSET (t \ {x})
      BY <2>1
    <3>. QED  BY <1>2, <3>1
  <2>. DEFINE W(u) == Sums(f, u)[u]
              g    == [u \in SUBSET t |-> IF u = {} THEN 0 ELSE f[Pick(u)] + W(u \ {Pick(u)})]
  <2>2. ASSUME NEW u \in SUBSET t, u # t PROVE g[u] = W(u)
    <3>1. IsSums(f, u, Sums(f, u))
      BY <2>1, <2>2
    <3>2. CASE u = {}
      <4>1. Sums(f, u)[u] = 0
        BY <3>1, <3>2 DEF IsSums
      <4>. QED  BY <3>2, <4>1
    <3>3. CASE u # {}
      <4>. DEFINE v == u \ {Pick(u)}
      <4>1. Pick(u) \in u /\ v \in SUBSET u /\ v \in SUBSET t /\ v # t
        BY <2>2, <3>3, PickIn
      <4>2. Sums(f, u)[u] = f[Pick(u)] + Sums(f, u)[v]
        BY <3>1, <3>3 DEF IsSums
      <4>3. IsSums(f, v, Sums(f, v)) /\ IsFiniteSet(v)
        <5>1. IsFiniteSet(v)
          BY <4>1, FS_Subset
        <5>. QED  BY <2>1, <4>1, <5>1
      <4>4. Sums(f, u)[v] = Sums(f, v)[v]
        BY <3>1, <4>1, <4>3, SumsUnique
      <4>. QED  BY <3>3, <4>2, <4>4
    <3>. QED  BY <3>2, <3>3
  <2>3. g = [u \in SUBSET t |-> IF u = {} THEN 0 ELSE f[Pick(u)] + g[u \ {Pick(u)}]]
    <3>1. ASSUME NEW u \in SUBSET t, u # {}
          PROVE  g[u \ {Pick(u)}] = W(u \ {Pick(u)})
      <4>1. Pick(u) \in u
        BY <3>1, PickIn
      <4>2. u \ {Pick(u)} \in SUBSET t /\ u \ {Pick(u)} # t
        BY <4>1
      <4>. HIDE DEF g, W
      <4>. QED  BY <2>2, <4>2
    <3>. HIDE DEF W
    <3>. QED  BY <3>1
  <2>4. IsSums(f, t, Sums(f, t))
    <3>. HIDE DEF g
    <3>1. \E h : h = [u \in SUBSET t |-> IF u = {} THEN 0 ELSE f[Pick(u)] + h[u \ {Pick(u)}]]
      BY <2>3
    <3>. QED  BY <3>1 DEF IsSums, Sums
  <2>. QED  BY <2>1, <2>4
<1>3. S \in P
  <2>. HIDE DEF P
  <2>. QED  BY <1>1, <1>2, SubsetInduction
<1>. QED  BY <1>3

-----------------------------------------------------------------------------
(* What the caches' proofs use: the sum and one element, values that agree,*)
(* disjoint parts, order and bounds.                                       *)

LEMMA SumEmpty ==
  ASSUME NEW f
  PROVE  SumFunctionOnSet(f, {}) = 0
<1>1. IsSums(f, {}, Sums(f, {}))
  BY FS_EmptySet, SumsExists
<1>. QED  BY <1>1, SumIsSums DEF IsSums

(* The equation of the definition: one element, the one CHOOSE picks, and  *)
(* the rest.                                                               *)
LEMMA SumPicked ==
  ASSUME NEW f, NEW S, IsFiniteSet(S), S # {}
  PROVE  SumFunctionOnSet(f, S) = f[Pick(S)] + SumFunctionOnSet(f, S \ {Pick(S)})
<1>. DEFINE T == S \ {Pick(S)}
<1>1. IsFiniteSet(T) /\ T \in SUBSET S
  <2>1. T \in SUBSET S
    OBVIOUS
  <2>. QED  BY <2>1, FS_Subset
<1>2. IsSums(f, S, Sums(f, S)) /\ IsSums(f, T, Sums(f, T))
  BY <1>1, SumsExists
<1>3. Sums(f, S)[S] = f[Pick(S)] + Sums(f, S)[T]
  BY <1>2 DEF IsSums
<1>4. Sums(f, S)[T] = Sums(f, T)[T]
  <2>. HIDE DEF T
  <2>. QED  BY <1>1, <1>2, SumsUnique
<1>. QED  BY <1>3, <1>4, SumIsSums

LEMMA SumInt ==
  ASSUME NEW f, NEW S, IsFiniteSet(S), \A x \in S : f[x] \in Int
  PROVE  SumFunctionOnSet(f, S) \in Int
<1>. DEFINE P == {t \in SUBSET S : SumFunctionOnSet(f, t) \in Int}
<1>1. {} \in P
  BY SumEmpty
<1>2. ASSUME NEW t \in SUBSET S, t # {}, \A x \in t : t \ {x} \in P
      PROVE  t \in P
  <2>1. IsFiniteSet(t)
    BY FS_Subset
  <2>2. SumFunctionOnSet(f, t) = f[Pick(t)] + SumFunctionOnSet(f, t \ {Pick(t)})
    BY <1>2, <2>1, SumPicked
  <2>. QED  BY <1>2, <2>2, PickIn
<1>3. S \in P
  <2>. HIDE DEF P
  <2>. QED  BY <1>1, <1>2, SubsetInduction
<1>. QED  BY <1>3

(* Whichever element is taken out first.                                   *)
LEMMA SumRemove ==
  ASSUME NEW f, NEW S, IsFiniteSet(S), \A x \in S : f[x] \in Int, NEW y \in S
  PROVE  SumFunctionOnSet(f, S) = f[y] + SumFunctionOnSet(f, S \ {y})
<1>. DEFINE Sum(t) == SumFunctionOnSet(f, t)
            P == {t \in SUBSET S : \A x \in t : Sum(t) = f[x] + Sum(t \ {x})}
<1>1. {} \in P
  OBVIOUS
<1>2. ASSUME NEW t \in SUBSET S, t # {}, \A x \in t : t \ {x} \in P
      PROVE  t \in P
  <2>. SUFFICES ASSUME NEW x \in t PROVE Sum(t) = f[x] + Sum(t \ {x})
    OBVIOUS
  <2>. DEFINE p == Pick(t)
  <2>1. IsFiniteSet(t) /\ p \in t
    BY <1>2, FS_Subset, PickIn
  <2>2. Sum(t) = f[p] + Sum(t \ {p})
    BY <1>2, <2>1, SumPicked
  <2>. HIDE DEF p
  <2>3. CASE x # p
    <3>. DEFINE z == (t \ {p}) \ {x}
    <3>1. Sum(t \ {p}) = f[x] + Sum(z)
      BY <1>2, <2>1, <2>3
    <3>2. Sum(t \ {x}) = f[p] + Sum(z)
      <4>1. Sum(t \ {x}) = f[p] + Sum((t \ {x}) \ {p})
        BY <1>2, <2>1, <2>3
      <4>2. (t \ {x}) \ {p} = z
        OBVIOUS
      <4>. QED  BY <4>1, <4>2
    <3>3. Sum(z) \in Int
      <4>1. IsFiniteSet(z)
        BY <2>1, FS_Subset
      <4>. QED  BY <4>1, SumInt
    <3>4. f[x] \in Int /\ f[p] \in Int
      BY <2>1
    <3>5. Sum(t) = f[p] + (f[x] + Sum(z))
      BY <2>2, <3>1
    <3>6. f[x] + Sum(t \ {x}) = f[x] + (f[p] + Sum(z))
      BY <3>2
    <3>7. \A a, b, d \in Int : a + (b + d) = b + (a + d)
      OBVIOUS
    <3>. HIDE DEF Sum, z
    <3>. QED  BY <3>3, <3>4, <3>5, <3>6, <3>7
  <2>4. CASE x = p
    <3>. HIDE DEF Sum
    <3>. QED  BY <2>2, <2>4
  <2>. QED  BY <2>3, <2>4
<1>3. S \in P
  <2>. HIDE DEF P
  <2>. QED  BY <1>1, <1>2, SubsetInduction
<1>. QED  BY <1>3

LEMMA SumAdd ==
  ASSUME NEW f, NEW S, IsFiniteSet(S), NEW y, y \notin S,
         \A x \in S \cup {y} : f[x] \in Int
  PROVE  SumFunctionOnSet(f, S \cup {y}) = f[y] + SumFunctionOnSet(f, S)
<1>1. IsFiniteSet(S \cup {y})
  BY FS_AddElement
<1>2. (S \cup {y}) \ {y} = S
  OBVIOUS
<1>3. y \in S \cup {y}
  OBVIOUS
<1>4. SumFunctionOnSet(f, S \cup {y}) = f[y] + SumFunctionOnSet(f, (S \cup {y}) \ {y})
  BY <1>1, <1>3, SumRemove
<1>. QED  BY <1>2, <1>4

(* A sum reads its function on its set only.                               *)
LEMMA SumAgree ==
  ASSUME NEW f, NEW g, NEW S, IsFiniteSet(S), \A x \in S : f[x] = g[x]
  PROVE  SumFunctionOnSet(f, S) = SumFunctionOnSet(g, S)
<1>. DEFINE P == {t \in SUBSET S : SumFunctionOnSet(f, t) = SumFunctionOnSet(g, t)}
<1>1. {} \in P
  BY SumEmpty
<1>2. ASSUME NEW t \in SUBSET S, t # {}, \A x \in t : t \ {x} \in P
      PROVE  t \in P
  <2>1. IsFiniteSet(t) /\ Pick(t) \in t
    BY <1>2, FS_Subset, PickIn
  <2>2. SumFunctionOnSet(f, t) = f[Pick(t)] + SumFunctionOnSet(f, t \ {Pick(t)})
    BY <1>2, <2>1, SumPicked
  <2>3. SumFunctionOnSet(g, t) = g[Pick(t)] + SumFunctionOnSet(g, t \ {Pick(t)})
    BY <1>2, <2>1, SumPicked
  <2>. QED  BY <1>2, <2>1, <2>2, <2>3
<1>3. S \in P
  <2>. HIDE DEF P
  <2>. QED  BY <1>1, <1>2, SubsetInduction
<1>. QED  BY <1>3

LEMMA SumNat ==
  ASSUME NEW f, NEW S, IsFiniteSet(S), \A x \in S : f[x] \in Nat
  PROVE  SumFunctionOnSet(f, S) \in Nat
<1>. DEFINE P == {t \in SUBSET S : SumFunctionOnSet(f, t) \in Nat}
<1>1. {} \in P
  BY SumEmpty
<1>2. ASSUME NEW t \in SUBSET S, t # {}, \A x \in t : t \ {x} \in P
      PROVE  t \in P
  <2>1. IsFiniteSet(t)
    BY FS_Subset
  <2>2. SumFunctionOnSet(f, t) = f[Pick(t)] + SumFunctionOnSet(f, t \ {Pick(t)})
    BY <1>2, <2>1, SumPicked
  <2>. QED  BY <1>2, <2>2, PickIn
<1>3. S \in P
  <2>. HIDE DEF P
  <2>. QED  BY <1>1, <1>2, SubsetInduction
<1>. QED  BY <1>3

(* The sums over a part and over what is left of it.                       *)
LEMMA SumSplit ==
  ASSUME NEW f, NEW S, IsFiniteSet(S), \A x \in S : f[x] \in Int, NEW T, T \subseteq S
  PROVE  SumFunctionOnSet(f, S) = SumFunctionOnSet(f, S \ T) + SumFunctionOnSet(f, T)
<1>. DEFINE Sum(t) == SumFunctionOnSet(f, t)
            P == {t \in SUBSET T : Sum((S \ T) \cup t) = Sum(S \ T) + Sum(t)}
<1>1. IsFiniteSet(T) /\ IsFiniteSet(S \ T)
  BY FS_Subset
<1>2. {} \in P
  <2>1. Sum(S \ T) \in Int
    BY <1>1, SumInt
  <2>2. (S \ T) \cup {} = S \ T
    OBVIOUS
  <2>. QED  BY <2>1, <2>2, SumEmpty
<1>3. ASSUME NEW t \in SUBSET T, t # {}, \A x \in t : t \ {x} \in P
      PROVE  t \in P
  <2>1. PICK x \in t : t \ {x} \in P
    BY <1>3
  <2>. DEFINE u == t \ {x}
              w == (S \ T) \cup u
  <2>2. t = u \cup {x} /\ (S \ T) \cup t = w \cup {x} /\ x \notin u /\ x \notin w
    OBVIOUS
  <2>3. IsFiniteSet(u) /\ IsFiniteSet(w)
    BY <1>1, FS_Subset
  <2>4. Sum(u \cup {x}) = f[x] + Sum(u)
    BY <2>2, <2>3, SumAdd
  <2>5. Sum(w \cup {x}) = f[x] + Sum(w)
    BY <2>2, <2>3, SumAdd
  <2>6. Sum(S \ T) \in Int /\ Sum(u) \in Int /\ f[x] \in Int
    BY <1>1, <2>3, SumInt
  <2>7. Sum(w) = Sum(S \ T) + Sum(u)
    BY <2>1
  <2>8. Sum((S \ T) \cup t) = Sum(S \ T) + Sum(t)
    <3>1. Sum(t) = f[x] + Sum(u)
      BY <2>2, <2>4
    <3>2. Sum((S \ T) \cup t) = f[x] + (Sum(S \ T) + Sum(u))
      BY <2>2, <2>5, <2>7
    <3>3. \A a, b, d \in Int : a + (b + d) = b + (a + d)
      OBVIOUS
    <3>. HIDE DEF Sum, u, w
    <3>. QED  BY <2>6, <3>1, <3>2, <3>3
  <2>. QED  BY <2>8
<1>4. T \in P
  <2>. HIDE DEF P
  <2>. QED  BY <1>1, <1>2, <1>3, SubsetInduction
<1>5. (S \ T) \cup T = S
  OBVIOUS
<1>. QED  BY <1>4, <1>5

LEMMA SumMonotonic ==
  ASSUME NEW f, NEW S, IsFiniteSet(S), \A x \in S : f[x] \in Nat, NEW T, T \subseteq S
  PROVE  SumFunctionOnSet(f, T) <= SumFunctionOnSet(f, S)
<1>1. IsFiniteSet(T) /\ IsFiniteSet(S \ T)
  BY FS_Subset
<1>2. SumFunctionOnSet(f, T) \in Nat /\ SumFunctionOnSet(f, S \ T) \in Nat
  BY <1>1, SumNat
<1>3. SumFunctionOnSet(f, S) = SumFunctionOnSet(f, S \ T) + SumFunctionOnSet(f, T)
  BY SumSplit
<1>. QED  BY <1>2, <1>3

(* A sum of values that are all at most n.                                 *)
LEMMA SumBounded ==
  ASSUME NEW f, NEW S, IsFiniteSet(S), NEW n \in Nat, \A x \in S : f[x] \in 0..n
  PROVE  SumFunctionOnSet(f, S) <= Cardinality(S) * n
<1>. DEFINE Sum(t) == SumFunctionOnSet(f, t)
            P == {t \in SUBSET S : Sum(t) <= Cardinality(t) * n}
<1>1. {} \in P
  BY SumEmpty, FS_EmptySet
<1>2. ASSUME NEW t \in SUBSET S, t # {}, \A x \in t : t \ {x} \in P
      PROVE  t \in P
  <2>1. PICK x \in t : t \ {x} \in P
    BY <1>2
  <2>2. IsFiniteSet(t) /\ IsFiniteSet(t \ {x})
    BY FS_Subset
  <2>3. Sum(t) = f[x] + Sum(t \ {x})
    BY <2>2, SumRemove
  <2>4. Cardinality(t \ {x}) = Cardinality(t) - 1
    BY <2>2, FS_RemoveElement
  <2>5. Cardinality(t) \in Nat
    BY <2>2, FS_CardinalityType
  <2>6. Sum(t \ {x}) \in Int /\ f[x] \in 0..n
    BY <2>2, SumInt
  <2>7. Sum(t \ {x}) <= (Cardinality(t) - 1) * n
    BY <2>1, <2>4
  <2>8. \A a, b \in Int : a <= n /\ b <= (Cardinality(t) - 1) * n => a + b <= Cardinality(t) * n
    BY <2>5
  <2>9. Sum(t) <= Cardinality(t) * n
    <3>. HIDE DEF Sum
    <3>. QED  BY <2>3, <2>6, <2>7, <2>8
  <2>. QED  BY <2>9
<1>3. S \in P
  <2>. HIDE DEF P
  <2>. QED  BY <1>1, <1>2, SubsetInduction
<1>. QED  BY <1>3

(* A change of one summand changes the sum by as much.                     *)
LEMMA SumUpdated ==
  ASSUME NEW f, NEW g, NEW S, IsFiniteSet(S), \A x \in S : f[x] \in Int /\ g[x] \in Int,
         NEW y \in S, \A x \in S \ {y} : g[x] = f[x]
  PROVE  SumFunctionOnSet(g, S) = SumFunctionOnSet(f, S) - f[y] + g[y]
<1>1. SumFunctionOnSet(f, S) = f[y] + SumFunctionOnSet(f, S \ {y})
  BY SumRemove
<1>2. SumFunctionOnSet(g, S) = g[y] + SumFunctionOnSet(g, S \ {y})
  BY SumRemove
<1>3. IsFiniteSet(S \ {y})
  BY FS_Subset
<1>4. SumFunctionOnSet(g, S \ {y}) = SumFunctionOnSet(f, S \ {y})
  BY <1>3, SumAgree
<1>5. SumFunctionOnSet(f, S \ {y}) \in Int
  BY <1>3, SumInt
<1>. QED  BY <1>1, <1>2, <1>4, <1>5

=============================================================================
