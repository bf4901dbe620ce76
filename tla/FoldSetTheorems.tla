-------------------------- MODULE FoldSetTheorems --------------------------
(***************************************************************************)
(* What FoldSet of the community modules computes, for a step Op that does *)
(* not depend on the order in which it meets the elements of a finite set, *)
(* and the principle of induction that FoldTheorems takes as a hypothesis. *)
(* FoldOver is FoldSet with its definition expanded.                       *)
(***************************************************************************)
EXTENDS FoldTheorems, FiniteSetTheorems, WellFoundedInduction, TLAPS

(* A set of numbers with 0 and the successors of its elements is Nat.      *)
LEMMA SetInduction ==
    ASSUME NEW S \in SUBSET Nat, 0 \in S, \A n \in S : n + 1 \in S
    PROVE  S = Nat
<1> DEFINE T == Nat \ S
<1> SUFFICES ASSUME T # {} PROVE FALSE OBVIOUS
<1> DEFINE R == OpToRel(<, Nat)
<1>0. T \subseteq Nat OBVIOUS
<1>1. \E x \in T : \A y \in T : <<y, x>> \notin R
  <2> HIDE DEF T, R
  <2>1. IsWellFoundedOn(R, Nat) BY NatLessThanWellFounded DEF R
  <2> QED BY <2>1, WFMin, <1>0
<1>2. PICK x \in T : \A y \in T : <<y, x>> \notin R BY <1>1
<1>3. x # 0 /\ x \in Nat OBVIOUS
<1>4. x - 1 \in Nat /\ x - 1 < x BY <1>3
<1>5. <<x - 1, x>> \in R BY <1>3, <1>4 DEF OpToRel
<1>6. x - 1 \in S BY <1>2, <1>4, <1>5
<1> QED BY <1>6, <1>3

(* What holds of the empty prefix and is carried to the next longer one    *)
(* holds of the whole: G are the lengths of the prefixes it holds of.      *)
LEMMA PrefixInduction ==
    ASSUME NEW n \in Nat, NEW G, 0 \in G, \A k \in G : k \in 0 .. n - 1 => k + 1 \in G
    PROVE  \A k \in 0 .. n : k \in G
<1> DEFINE S == {k \in Nat : k <= n => k \in G}
<1>1. 0 \in S OBVIOUS
<1>2. ASSUME NEW k \in S PROVE k + 1 \in S OBVIOUS
<1>3. S = Nat
  <2>1. S \in SUBSET Nat OBVIOUS
  <2> HIDE DEF S
  <2> QED BY <2>1, <1>1, <1>2, SetInduction
<1> QED BY <1>3

(* The hypothesis of the theorems about folds of sequences.                *)
LEMMA InductionHolds == Inductive
BY SetInduction DEF Inductive

----------------------------------------------------------------------------
(* An element of a set, the equation of the fold along the subsets, the    *)
(* function that solves it, and its value at the whole set.                *)
Pick(s) == CHOOSE x \in s : TRUE

Shrink(p, q, base, iter, s) ==
    IF s = {} THEN base ELSE Op(p, q, iter[s \ {Pick(s)}], Pick(s))

IsShrinking(p, q, base, S, iter) == iter = [s \in SUBSET S |-> Shrink(p, q, base, iter, s)]

Shrinking(p, q, base, S) ==
    CHOOSE iter : iter = [s \in SUBSET S |->
        IF s = {} THEN base ELSE Op(p, q, iter[s \ {CHOOSE x \in s : TRUE}], CHOOSE x \in s : TRUE)]

FoldOver(p, q, base, S) == Shrinking(p, q, base, S)[S]

(* An element taken out of a finite set makes it smaller by one.           *)
LEMMA PickShrinks ==
    ASSUME NEW S, IsFiniteSet(S), NEW s \in SUBSET S, s # {}
    PROVE  /\ Pick(s) \in s
           /\ IsFiniteSet(s) /\ IsFiniteSet(s \ {Pick(s)})
           /\ Cardinality(s) \in Nat /\ Cardinality(s \ {Pick(s)}) = Cardinality(s) - 1
           /\ Cardinality(s) > 0 /\ Cardinality(s) <= Cardinality(S)
<1>1. Pick(s) \in s BY DEF Pick
<1>2. IsFiniteSet(s) /\ Cardinality(s) <= Cardinality(S) BY FS_Subset
<1>3. Cardinality(s) \in Nat /\ IsFiniteSet(s \ {Pick(s)})
      /\ Cardinality(s \ {Pick(s)}) = Cardinality(s) - 1
  BY <1>1, <1>2, FS_RemoveElement, FS_CardinalityType
<1>4. Cardinality(s) # 0 BY <1>2, FS_EmptySet
<1> QED BY <1>1, <1>2, <1>3, <1>4

(* As for sequences, with an arbitrary element taken out at a time.        *)
LEMMA ShrinkingExists ==
    ASSUME NEW p, NEW q, NEW base, NEW S, IsFiniteSet(S)
    PROVE  \E iter : IsShrinking(p, q, base, S, iter)
<1> DEFINE Good(k, g) == /\ DOMAIN g = SUBSET S /\ g = [s \in SUBSET S |-> g[s]]
                         /\ \A s \in SUBSET S : Cardinality(s) <= k => g[s] = Shrink(p, q, base, g, s)
           Ks == {k \in Nat : \E g : Good(k, g)}
<1>0. \A s \in SUBSET S : IsFiniteSet(s) /\ Cardinality(s) \in Nat /\ Cardinality(s) <= Cardinality(S)
  BY FS_Subset, FS_CardinalityType
<1>1. 0 \in Ks
  <2> DEFINE g == [s \in SUBSET S |-> base]
  <2>1. ASSUME NEW s \in SUBSET S, Cardinality(s) <= 0 PROVE g[s] = Shrink(p, q, base, g, s)
    <3>1. s = {} BY <2>1, <1>0, FS_EmptySet
    <3> QED BY <3>1 DEF Shrink
  <2>2. Good(0, g) BY <2>1
  <2> QED BY <2>2
<1>2. ASSUME NEW k \in Ks PROVE k + 1 \in Ks
  <2>0. k \in Nat OBVIOUS
  <2>1. PICK g : Good(k, g) OBVIOUS
  <2> DEFINE B(s) == Shrink(p, q, base, g, s)
             h == [s \in SUBSET S |-> B(s)]
  <2>2. \A s \in SUBSET S : h[s] = Shrink(p, q, base, g, s) OBVIOUS
  <2>3. DOMAIN h = SUBSET S /\ h = [s \in SUBSET S |-> h[s]] OBVIOUS
  <2> HIDE DEF h, B
  <2>4. ASSUME NEW s \in SUBSET S, Cardinality(s) <= k + 1 PROVE h[s] = Shrink(p, q, base, h, s)
    <3>1. CASE s = {} BY <3>1, <2>2 DEF Shrink
    <3>2. CASE s # {}
      <4> DEFINE t == s \ {Pick(s)}
      <4>1. t \in SUBSET S /\ Cardinality(t) <= k BY <2>0, <2>4, <3>2, PickShrinks
      <4>2. g[t] = Shrink(p, q, base, g, t) BY <2>1, <4>1
      <4>3. h[t] = g[t] BY <2>2, <4>1, <4>2
      <4> QED BY <3>2, <2>2, <4>3 DEF Shrink
    <3> QED BY <3>1, <3>2
  <2>5. Good(k + 1, h) BY <2>3, <2>4
  <2>6. \E f : Good(k + 1, f)
    <3> HIDE DEF Good
    <3> QED BY <2>5
  <2>7. k + 1 \in Nat BY <2>0
  <2> HIDE DEF Good
  <2> QED BY <2>6, <2>7
<1>3. Ks = Nat
  <2> HIDE DEF Ks
  <2>1. Ks \in SUBSET Nat BY DEF Ks
  <2> QED BY <2>1, <1>1, <1>2, SetInduction
<1>4. PICK g : Good(Cardinality(S), g) BY <1>3, FS_CardinalityType
<1>5. \A s \in SUBSET S : g[s] = Shrink(p, q, base, g, s) BY <1>4, <1>0
<1>6. IsShrinking(p, q, base, S, g) BY <1>4, <1>5 DEF IsShrinking
<1> QED BY <1>6

(* The equation at one subset.                                             *)
LEMMA ShrinkingAt ==
    ASSUME NEW p, NEW q, NEW base, NEW S, IsFiniteSet(S), NEW s \in SUBSET S
    PROVE  Shrinking(p, q, base, S)[s] = Shrink(p, q, base, Shrinking(p, q, base, S), s)
<1> DEFINE F(iter) == [t \in SUBSET S |->
        IF t = {} THEN base ELSE Op(p, q, iter[t \ {CHOOSE x \in t : TRUE}], CHOOSE x \in t : TRUE)]
           it == Shrinking(p, q, base, S)
           B(t) == Shrink(p, q, base, it, t)
<1>0. ASSUME NEW iter PROVE IsShrinking(p, q, base, S, iter) <=> iter = F(iter)
  BY DEF IsShrinking, Shrink, Pick
<1>1. it = CHOOSE iter : iter = F(iter) BY DEF Shrinking
<1> HIDE DEF F, it
<1>2. \E iter : iter = F(iter) BY ShrinkingExists, <1>0
<1>3. it = F(it) BY <1>1, <1>2
<1>4. IsShrinking(p, q, base, S, it) BY <1>3, <1>0
<1>5. it = [t \in SUBSET S |-> B(t)] BY <1>4 DEF IsShrinking
<1> HIDE DEF B
<1>6. it[s] = B(s) BY <1>5
<1> QED BY <1>6 DEF it, B

(* The fold as the solution of the equation, at the whole set.             *)
LEMMA FoldOverIs ==
    ASSUME NEW p, NEW q, NEW base, NEW S
    PROVE  FoldOver(p, q, base, S) = Shrinking(p, q, base, S)[S]
BY DEF FoldOver

(* The fold of a subset is the one along which the set's is computed.      *)
LEMMA ShrinkingAgrees ==
    ASSUME NEW p, NEW q, NEW base, NEW S, IsFiniteSet(S), NEW T \in SUBSET S
    PROVE  FoldOver(p, q, base, T) = Shrinking(p, q, base, S)[T]
<1> DEFINE it == Shrinking(p, q, base, S)
           up == Shrinking(p, q, base, T)
           K == {k \in Nat : \A s \in SUBSET T : Cardinality(s) <= k => up[s] = it[s]}
<1>0. IsFiniteSet(T) BY FS_Subset
<1>1. \A s \in SUBSET T : it[s] = Shrink(p, q, base, it, s) /\ up[s] = Shrink(p, q, base, up, s)
  BY <1>0, ShrinkingAt
<1> HIDE DEF it, up
<1>2. 0 \in K
  <2>1. ASSUME NEW s \in SUBSET T, Cardinality(s) <= 0 PROVE up[s] = it[s]
    <3>1. IsFiniteSet(s) /\ Cardinality(s) \in Nat BY <1>0, FS_Subset, FS_CardinalityType
    <3>2. s = {} BY <2>1, <3>1, FS_EmptySet
    <3> QED BY <3>2, <1>1 DEF Shrink
  <2> QED BY <2>1
<1>3. ASSUME NEW k \in K PROVE k + 1 \in K
  <2>1. ASSUME NEW s \in SUBSET T, Cardinality(s) <= k + 1 PROVE up[s] = it[s]
    <3>1. CASE s = {} BY <3>1, <1>1 DEF Shrink
    <3>2. CASE s # {}
      <4> DEFINE t == s \ {Pick(s)}
      <4>1. t \in SUBSET T /\ Cardinality(t) <= k BY <1>0, <2>1, <3>2, PickShrinks
      <4>2. up[t] = it[t] BY <4>1
      <4> QED BY <3>2, <1>1, <4>2 DEF Shrink
    <3> QED BY <3>1, <3>2
  <2> QED BY <2>1
<1>4. K = Nat
  <2> HIDE DEF K
  <2>1. K \in SUBSET Nat BY DEF K
  <2> QED BY <2>1, <1>2, <1>3, SetInduction
<1>5. up[T] = it[T] BY <1>4, <1>0, FS_CardinalityType
<1> QED BY <1>5, FoldOverIs DEF up, it

(* The fold of the empty set is the base.                                  *)
LEMMA FoldOverEmpty ==
    ASSUME NEW p, NEW q, NEW base
    PROVE  FoldOver(p, q, base, {}) = base
<1>1. FoldOver(p, q, base, {}) = Shrinking(p, q, base, {})[{}] BY FoldOverIs
<1>2. Shrinking(p, q, base, {})[{}] = Shrink(p, q, base, Shrinking(p, q, base, {}), {})
  BY FS_EmptySet, ShrinkingAt
<1> QED BY <1>1, <1>2 DEF Shrink

(* No step with an element of S leaves A, and two steps can be swapped.     *)
Commutes(p, q, A, S) ==
    /\ \A a \in A : \A x \in S : Op(p, q, a, x) \in A
    /\ \A a \in A : \A x, y \in S :
          Op(p, q, Op(p, q, a, x), y) = Op(p, q, Op(p, q, a, y), x)

(* Where the order of two steps makes no difference, any element can be    *)
(* taken to be the last.                                                   *)
LEMMA FoldOverRemove ==
    ASSUME NEW p, NEW q, NEW base, NEW S, IsFiniteSet(S), NEW A, base \in A,
           Commutes(p, q, A, S)
    PROVE  /\ FoldOver(p, q, base, S) \in A
           /\ \A x \in S : FoldOver(p, q, base, S) = Op(p, q, FoldOver(p, q, base, S \ {x}), x)
<1> DEFINE it == Shrinking(p, q, base, S)
           K == {k \in Nat : \A s \in SUBSET S : Cardinality(s) <= k =>
                    it[s] \in A /\ \A x \in s : it[s] = Op(p, q, it[s \ {x}], x)}
<1>1. \A s \in SUBSET S : it[s] = Shrink(p, q, base, it, s) BY ShrinkingAt
<1>2. \A s \in SUBSET S : FoldOver(p, q, base, s) = it[s] BY ShrinkingAgrees
<1> HIDE DEF it
<1>a. /\ \A a \in A : \A x \in S : Op(p, q, a, x) \in A
      /\ \A a \in A : \A x, y \in S :
            Op(p, q, Op(p, q, a, x), y) = Op(p, q, Op(p, q, a, y), x)
  BY DEF Commutes
<1>3. 0 \in K
  <2>1. ASSUME NEW s \in SUBSET S, Cardinality(s) <= 0
        PROVE  it[s] \in A /\ \A x \in s : it[s] = Op(p, q, it[s \ {x}], x)
    <3>1. IsFiniteSet(s) /\ Cardinality(s) \in Nat BY FS_Subset, FS_CardinalityType
    <3>2. s = {} BY <2>1, <3>1, FS_EmptySet
    <3> QED BY <3>2, <1>1 DEF Shrink
  <2> QED BY <2>1
<1>4. ASSUME NEW k \in K PROVE k + 1 \in K
  <2>1. ASSUME NEW s \in SUBSET S, Cardinality(s) <= k + 1
        PROVE  it[s] \in A /\ \A x \in s : it[s] = Op(p, q, it[s \ {x}], x)
    <3>1. CASE s = {} BY <3>1, <1>1 DEF Shrink
    <3>2. CASE s # {}
      <4> DEFINE c == Pick(s)
                 t == s \ {c}
      <4>1. c \in s /\ t \in SUBSET S /\ Cardinality(t) <= k /\ IsFiniteSet(t)
        <5>1. /\ c \in s /\ IsFiniteSet(t) /\ Cardinality(s) \in Nat
              /\ Cardinality(t) = Cardinality(s) - 1
          BY <3>2, PickShrinks
        <5>2. k \in Nat OBVIOUS
        <5> HIDE DEF c
        <5> QED BY <2>1, <5>1, <5>2
      <4>2. it[s] = Op(p, q, it[t], c) BY <3>2, <1>1 DEF Shrink
      <4> HIDE DEF c
      <4>3. it[t] \in A /\ \A x \in t : it[t] = Op(p, q, it[t \ {x}], x) BY <4>1
      <4>4. it[s] \in A BY <4>1, <4>2, <4>3, <1>a
      <4>5. ASSUME NEW x \in s, x # c PROVE it[s] = Op(p, q, it[s \ {x}], x)
        <5> DEFINE u == t \ {x}
        <5>1. x \in t /\ u \in SUBSET S /\ (s \ {x}) \ {c} = u /\ c \in s \ {x} /\ s \ {x} \in SUBSET S BY <4>1, <4>5
        <5>2. Cardinality(u) <= k /\ Cardinality(s \ {x}) <= k
          <6>1. IsFiniteSet(s) BY FS_Subset
          <6>2. Cardinality(s \ {x}) = Cardinality(s) - 1 /\ Cardinality(s) \in Nat
            BY <6>1, <4>5, FS_RemoveElement, FS_CardinalityType
          <6>3. Cardinality(u) <= Cardinality(t) /\ Cardinality(u) \in Nat /\ Cardinality(t) \in Nat
            BY <4>1, FS_Subset, FS_CardinalityType
          <6> QED BY <4>1, <6>2, <6>3, <2>1
        <5>3. it[t] = Op(p, q, it[u], x) BY <4>3, <5>1
        <5>4. it[s \ {x}] = Op(p, q, it[u], c)
          <6> DEFINE v == s \ {x}
          <6>1. v \in SUBSET S /\ Cardinality(v) <= k /\ c \in v BY <5>1, <5>2
          <6>2. it[v] = Op(p, q, it[v \ {c}], c) BY <6>1
          <6> QED BY <6>2, <5>1
        <5>5. it[u] \in A BY <5>1, <5>2
        <5>6. x \in S /\ c \in S BY <4>1, <4>5
        <5> QED BY <4>2, <5>3, <5>4, <5>5, <5>6, <1>a
      <4> QED BY <4>2, <4>4, <4>5
    <3> QED BY <3>1, <3>2
  <2> QED BY <2>1
<1>5. K = Nat
  <2> HIDE DEF K
  <2>1. K \in SUBSET Nat BY DEF K
  <2> QED BY <2>1, <1>3, <1>4, SetInduction
<1>6. it[S] \in A /\ \A x \in S : it[S] = Op(p, q, it[S \ {x}], x) BY <1>5, FS_CardinalityType
<1> QED BY <1>2, <1>6
=============================================================================
