--------------------------- MODULE KvPlaneProofs ---------------------------
(***************************************************************************)
(* The KV placement plane for every size: each operation of KvPlacement    *)
(* (admit, release, preempt, reserve, publish, execute) preserves PlaneOK, *)
(* the invariant that ties reference counts, block tables, the prefix      *)
(* cache and the cold tier together.                                       *)
(***************************************************************************)
EXTENDS KvPlacement, FiniteSetTheorems, TLAPS

----------------------------------------------------------------------------
(* Orders and ranks, the places a sequence keeps, totals.                  *)

EvictStep(p, q, kv, e) == Evict(kv, e.key)
Evictions == INSTANCE FoldTheorems WITH Op <- EvictStep
AddAt(f, q, sum, x) == f[x] + sum
Sums == INSTANCE FoldSetTheorems WITH Op <- AddAt

(* A set of numbers that has 0 and the successor of each of its elements   *)
(* has all.                                                                *)
LEMMA Induction == \A S \in SUBSET Nat : (0 \in S /\ \A n \in S : n + 1 \in S) => S = Nat
BY Sums!SetInduction

(* A strict total order R on C, as a set of pairs; what is below x in it.  *)
IsOrderOn(R, C) ==
    /\ \A x \in C : <<x, x>> \notin R
    /\ \A x, y \in C : x # y => <<x, y>> \in R \/ <<y, x>> \in R
    /\ \A x, y, z \in C : <<x, y>> \in R /\ <<y, z>> \in R => <<x, z>> \in R
Below(R, C, x) == {y \in C : <<y, x>> \in R}

(* A finite set that is not empty has a greatest element.                  *)
LEMMA GreatestExists ==
    ASSUME NEW R, NEW C, IsFiniteSet(C), IsOrderOn(R, C), C # {}
    PROVE  \E m \in C : \A x \in C : x # m => <<x, m>> \in R
<1> DEFINE K == {k \in Nat : \A T \in SUBSET C : Cardinality(T) = k + 1 =>
                    \E m \in T : \A x \in T : x # m => <<x, m>> \in R}
<1>0. \A T \in SUBSET C : IsFiniteSet(T) /\ Cardinality(T) \in Nat BY FS_Subset, FS_CardinalityType
<1>1. 0 \in K
  <2> SUFFICES ASSUME NEW T \in SUBSET C, Cardinality(T) = 1
               PROVE  \E m \in T : \A x \in T : x # m => <<x, m>> \in R
      OBVIOUS
  <2>1. PICK m : T = {m} BY <1>0, FS_Singleton
  <2> QED BY <2>1
<1>2. ASSUME NEW k \in K PROVE k + 1 \in K
  <2>0. k \in Nat /\ k + 1 \in Nat OBVIOUS
  <2> SUFFICES ASSUME NEW T \in SUBSET C, Cardinality(T) = k + 2
               PROVE  \E m \in T : \A x \in T : x # m => <<x, m>> \in R
      BY <2>0
  <2>1. T # {} BY <2>0, FS_EmptySet
  <2>2. PICK a \in T : TRUE BY <2>1
  <2>3. Cardinality(T \ {a}) = k + 1 BY <1>0, <2>0, FS_RemoveElement
  <2>4. PICK m \in T \ {a} : \A x \in T \ {a} : x # m => <<x, m>> \in R BY <2>3
  <2>5. CASE <<a, m>> \in R BY <2>4, <2>5
  <2>6. CASE <<m, a>> \in R
    <3>1. \A x \in T : x # a => <<x, a>> \in R BY <2>4, <2>6 DEF IsOrderOn
    <3> QED BY <3>1
  <2> QED BY <2>4, <2>5, <2>6 DEF IsOrderOn
<1>3. K = Nat
  <2>1. K \in SUBSET Nat OBVIOUS
  <2> HIDE DEF K
  <2> QED BY <2>1, <1>1, <1>2, Sums!SetInduction
<1>4. Cardinality(C) - 1 \in Nat /\ (Cardinality(C) - 1) + 1 = Cardinality(C) BY <1>0, FS_EmptySet
<1>5. Cardinality(C) - 1 \in K BY <1>3, <1>4
<1> QED BY <1>4, <1>5

(* Every rank is taken.                                                    *)
LEMMA RankExists ==
    ASSUME NEW R, NEW C, IsFiniteSet(C), IsOrderOn(R, C), NEW n \in 1 .. Cardinality(C)
    PROVE  \E x \in C : Cardinality(Below(R, C, x)) = n - 1
<1> DEFINE K == {k \in Nat : \A T \in SUBSET C : Cardinality(T) = k =>
                    \A j \in 1 .. k : \E x \in T : Cardinality(Below(R, T, x)) = j - 1}
<1>0. \A T \in SUBSET C : IsFiniteSet(T) /\ Cardinality(T) \in Nat BY FS_Subset, FS_CardinalityType
<1>1. 0 \in K OBVIOUS
<1>2. ASSUME NEW k \in K PROVE k + 1 \in K
  <2>0. k \in Nat /\ k + 1 \in Nat OBVIOUS
  <2> SUFFICES ASSUME NEW T \in SUBSET C, Cardinality(T) = k + 1, NEW j \in 1 .. k + 1
               PROVE  \E x \in T : Cardinality(Below(R, T, x)) = j - 1
      BY <2>0
  <2>1. T # {} BY <2>0, FS_EmptySet
  <2>2. PICK m \in T : \A x \in T : x # m => <<x, m>> \in R
    <3>1. IsOrderOn(R, T) BY DEF IsOrderOn
    <3> QED BY <3>1, <1>0, <2>1, GreatestExists
  <2>3. Cardinality(T \ {m}) = k BY <1>0, <2>0, FS_RemoveElement
  <2>4. CASE j = k + 1
    <3>1. Below(R, T, m) = T \ {m} BY <2>2 DEF Below, IsOrderOn
    <3> QED BY <3>1, <2>3, <2>4, <2>0
  <2>5. CASE j \in 1 .. k
    <3>1. PICK x \in T \ {m} : Cardinality(Below(R, T \ {m}, x)) = j - 1 BY <2>3, <2>5
    <3>2. <<m, x>> \notin R BY <2>2 DEF IsOrderOn
    <3>3. Below(R, T, x) = Below(R, T \ {m}, x) BY <3>2 DEF Below
    <3> QED BY <3>1, <3>3
  <2> QED BY <2>0, <2>4, <2>5
<1>3. K = Nat
  <2>1. K \in SUBSET Nat OBVIOUS
  <2> HIDE DEF K
  <2> QED BY <2>1, <1>1, <1>2, Sums!SetInduction
<1>4. Cardinality(C) \in K BY <1>0, <1>3
<1> QED BY <1>4

(* A rank is taken once, and the order of the ranks is the order.          *)
LEMMA RankOrders ==
    ASSUME NEW R, NEW C, IsFiniteSet(C), IsOrderOn(R, C), NEW x \in C, NEW y \in C
    PROVE  /\ Cardinality(Below(R, C, x)) \in 0 .. Cardinality(C) - 1
           /\ <<x, y>> \in R => Cardinality(Below(R, C, x)) < Cardinality(Below(R, C, y))
           /\ Cardinality(Below(R, C, x)) = Cardinality(Below(R, C, y)) => x = y
           /\ Cardinality(Below(R, C, x)) < Cardinality(Below(R, C, y)) => <<x, y>> \in R
<1>0. \A T \in SUBSET C : IsFiniteSet(T) /\ Cardinality(T) \in Nat BY FS_Subset, FS_CardinalityType
<1>1. ASSUME NEW u \in C, NEW v \in C, <<u, v>> \in R
      PROVE  Cardinality(Below(R, C, u)) < Cardinality(Below(R, C, v))
  <2>1. Below(R, C, u) \cup {u} \subseteq Below(R, C, v) BY <1>1 DEF Below, IsOrderOn
  <2>2. u \notin Below(R, C, u) BY DEF Below, IsOrderOn
  <2>3. Below(R, C, u) \in SUBSET C /\ Below(R, C, v) \in SUBSET C BY DEF Below
  <2>4. Cardinality(Below(R, C, u) \cup {u}) = Cardinality(Below(R, C, u)) + 1
    BY <1>0, <2>2, <2>3, FS_AddElement
  <2>5. Cardinality(Below(R, C, u) \cup {u}) <= Cardinality(Below(R, C, v))
    BY <1>0, <2>1, <2>3, FS_Subset
  <2>6. Cardinality(Below(R, C, u)) \in Nat /\ Cardinality(Below(R, C, v)) \in Nat BY <1>0, <2>3
  <2> QED BY <2>4, <2>5, <2>6
<1>2. Below(R, C, x) \in SUBSET C /\ Below(R, C, y) \in SUBSET C BY DEF Below
<1>3. Cardinality(Below(R, C, x)) \in Nat /\ Cardinality(Below(R, C, y)) \in Nat BY <1>0, <1>2
<1>4. Cardinality(Below(R, C, x)) < Cardinality(C)
  <2>1. Below(R, C, x) \in SUBSET (C \ {x}) BY DEF Below, IsOrderOn
  <2>2. Cardinality(Below(R, C, x)) <= Cardinality(C \ {x}) BY <2>1, <1>0, FS_Subset
  <2>3. Cardinality(C \ {x}) = Cardinality(C) - 1 BY FS_RemoveElement
  <2> QED BY <2>2, <2>3, <1>0, <1>3
<1>5. x # y => <<x, y>> \in R \/ <<y, x>> \in R BY DEF IsOrderOn
<1>6. Cardinality(C) \in Nat BY <1>0
<1> QED BY <1>1, <1>3, <1>4, <1>5, <1>6

(* The n-th least of a set of numbers is in it and has n - 1 numbers below *)
(* it.                                                                     *)
LEMMA NthLeastIs ==
    ASSUME NEW S \in SUBSET Int, IsFiniteSet(S), NEW n \in 1 .. Cardinality(S)
    PROVE  NthLeast(S, n) \in S /\ Cardinality({y \in S : y < NthLeast(S, n)}) = n - 1
<1> DEFINE R == {p \in S \X S : p[1] < p[2]}
<1>1. IsOrderOn(R, S) BY DEF IsOrderOn
<1>2. \A x \in S : Below(R, S, x) = {y \in S : y < x} BY DEF Below
<1>3. PICK x \in S : Cardinality(Below(R, S, x)) = n - 1
  <2> HIDE DEF R
  <2> QED BY <1>1, RankExists
<1>4. Cardinality({y \in S : y < x}) = n - 1 BY <1>2, <1>3
<1> QED BY <1>4 DEF NthLeast

RankIn(S, x) == Cardinality({y \in S : y < x})

(* The n-th least of a set of numbers, for every n it has: increasing in   *)
(* n, and every number of the set is one.                                  *)
LEMMA NthLeastOrder ==
    ASSUME NEW S \in SUBSET Int, IsFiniteSet(S)
    PROVE  /\ \A m, n \in 1 .. Cardinality(S) : m < n => NthLeast(S, m) < NthLeast(S, n)
           /\ \A m, n \in 1 .. Cardinality(S) : NthLeast(S, m) = NthLeast(S, n) => m = n
           /\ \A x \in S : \E n \in 1 .. Cardinality(S) : NthLeast(S, n) = x
<1> DEFINE R == {p \in S \X S : p[1] < p[2]}
<1>1. IsOrderOn(R, S) BY DEF IsOrderOn
<1>2. \A x \in S : Below(R, S, x) = {y \in S : y < x} BY DEF Below
<1>3. \A x, y \in S : <<x, y>> \in R <=> x < y OBVIOUS
<1>4. \A x, y \in S :
         /\ Cardinality(Below(R, S, x)) \in 0 .. Cardinality(S) - 1
         /\ Cardinality(Below(R, S, x)) = Cardinality(Below(R, S, y)) => x = y
         /\ Cardinality(Below(R, S, x)) < Cardinality(Below(R, S, y)) => <<x, y>> \in R
  <2> HIDE DEF R
  <2> QED BY <1>1, RankOrders
<1>5. \A x \in S : Cardinality(Below(R, S, x)) = RankIn(S, x) BY <1>2 DEF RankIn
<1>55. \A x, y \in S :
         /\ RankIn(S, x) \in 0 .. Cardinality(S) - 1
         /\ RankIn(S, x) = RankIn(S, y) => x = y
         /\ RankIn(S, x) < RankIn(S, y) => x < y
  <2> HIDE DEF R
  <2> QED BY <1>5, <1>3, <1>4
<1>6. \A n \in 1 .. Cardinality(S) : NthLeast(S, n) \in S /\ RankIn(S, NthLeast(S, n)) = n - 1
  BY NthLeastIs DEF RankIn
<1>7. Cardinality(S) \in Nat BY FS_CardinalityType
<1>8. ASSUME NEW m \in 1 .. Cardinality(S), NEW n \in 1 .. Cardinality(S)
      PROVE  /\ m < n => NthLeast(S, m) < NthLeast(S, n)
             /\ NthLeast(S, m) = NthLeast(S, n) => m = n
  <2>1. m \in Int /\ n \in Int /\ (m < n => m - 1 < n - 1) /\ (m - 1 = n - 1 => m = n) BY <1>7
  <2>2. NthLeast(S, m) \in S /\ NthLeast(S, n) \in S BY <1>6
  <2>3. RankIn(S, NthLeast(S, m)) = m - 1 /\ RankIn(S, NthLeast(S, n)) = n - 1 BY <1>6
  <2> QED BY <2>1, <2>2, <2>3, <1>55
<1>9. ASSUME NEW x \in S PROVE \E n \in 1 .. Cardinality(S) : NthLeast(S, n) = x
  <2> DEFINE n == RankIn(S, x) + 1
  <2>1. n \in 1 .. Cardinality(S) /\ n - 1 = RankIn(S, x) BY <1>55, <1>7
  <2>2. NthLeast(S, n) \in S /\ RankIn(S, NthLeast(S, n)) = n - 1
    <3> HIDE DEF n
    <3> QED BY <1>6, <2>1
  <2>3. NthLeast(S, n) = x
    <3> HIDE DEF n
    <3> QED BY <2>1, <2>2, <1>55
  <2> QED BY <2>1, <2>3
<1> QED BY <1>8, <1>9

(* The n-th least of an interval.                                          *)
LEMMA NthOfInterval ==
    ASSUME NEW a \in Int, NEW b \in Int, NEW n \in 1 .. Cardinality(a .. b)
    PROVE  NthLeast(a .. b, n) = a + n - 1
<1>1. IsFiniteSet(a .. b) /\ a .. b \in SUBSET Int /\ Cardinality(a .. b) = IF a > b THEN 0 ELSE b - a + 1
  BY FS_Interval
<1> DEFINE x == NthLeast(a .. b, n)
<1>2. x \in a .. b /\ Cardinality({y \in a .. b : y < x}) = n - 1 BY <1>1, NthLeastIs
<1> HIDE DEF x
<1>3. {y \in a .. b : y < x} = a .. x - 1 BY <1>2
<1>4. Cardinality(a .. x - 1) = x - a
  <2>1. x \in Int /\ x - 1 \in Int /\ x >= a BY <1>2
  <2>2. Cardinality(a .. x - 1) = IF a > x - 1 THEN 0 ELSE x - 1 - a + 1 BY <2>1, FS_Interval
  <2> QED BY <2>1, <2>2
<1>5. n \in Int /\ x \in Int BY <1>1, <1>2
<1>6. x - a = n - 1 BY <1>2, <1>3, <1>4
<1>7. x = a + n - 1 BY <1>5, <1>6
<1> QED BY <1>7 DEF x

----------------------------------------------------------------------------
(* What is kept of a sequence.                                             *)
Places(seq, S) == {i \in DOMAIN seq : seq[i] \in S}

(* The places that Keep picks from a sequence are finitely many.           *)
LEMMA PlacesFinite ==
    ASSUME NEW T, NEW seq \in Seq(T), NEW S
    PROVE  /\ Places(seq, S) \in SUBSET (1 .. Len(seq)) /\ Places(seq, S) \in SUBSET Int
           /\ IsFiniteSet(Places(seq, S)) /\ Cardinality(Places(seq, S)) \in Nat
           /\ Cardinality(Places(seq, S)) <= Len(seq)
<1>1. DOMAIN seq = 1 .. Len(seq) /\ Len(seq) \in Nat OBVIOUS
<1>2. IsFiniteSet(1 .. Len(seq)) /\ Cardinality(1 .. Len(seq)) = Len(seq)
  <2>1. Cardinality(1 .. Len(seq)) = IF 1 > Len(seq) THEN 0 ELSE Len(seq) - 1 + 1 BY <1>1, FS_Interval
  <2> QED BY <1>1, <2>1, FS_Interval
<1>3. Places(seq, S) \in SUBSET (1 .. Len(seq)) BY <1>1 DEF Places
<1>4. IsFiniteSet(Places(seq, S)) /\ Cardinality(Places(seq, S)) <= Len(seq) BY <1>2, <1>3, FS_Subset
<1> QED BY <1>1, <1>3, <1>4, FS_CardinalityType

(* Keep in terms of the places it picks.                                   *)
LEMMA KeepIs ==
    ASSUME NEW seq, NEW S
    PROVE  Keep(seq, S) = [n \in 1 .. Cardinality(Places(seq, S)) |-> seq[NthLeast(Places(seq, S), n)]]
BY DEF Keep, Places

(* What Keep has at a place.                                               *)
LEMMA KeepAt ==
    ASSUME NEW T, NEW seq \in Seq(T), NEW S, NEW m \in DOMAIN Keep(seq, S)
    PROVE  Keep(seq, S)[m] = seq[NthLeast(Places(seq, S), m)]
<1>1. Keep(seq, S) = [n \in 1 .. Cardinality(Places(seq, S)) |-> seq[NthLeast(Places(seq, S), n)]] BY KeepIs
<1> QED BY <1>1

(* The elements of the set, in the order they are in.                      *)
LEMMA KeepInOrder ==
    ASSUME NEW T, NEW seq \in Seq(T), NEW S
    PROVE  /\ Keep(seq, S) \in Seq(T) /\ Keep(seq, S) \in Seq(T \cap S)
           /\ DOMAIN Keep(seq, S) = 1 .. Len(Keep(seq, S)) /\ Len(Keep(seq, S)) <= Len(seq)
           /\ Range(Keep(seq, S)) = Range(seq) \cap S
           /\ \A n \in DOMAIN Keep(seq, S) : NthLeast(Places(seq, S), n) \in DOMAIN seq
           /\ \A m, n \in DOMAIN Keep(seq, S) :
                 m < n => NthLeast(Places(seq, S), m) < NthLeast(Places(seq, S), n)
<1> DEFINE P == Places(seq, S)
           c == Cardinality(P)
           kept == Keep(seq, S)
<1>1. P \in SUBSET (1 .. Len(seq)) /\ P \in SUBSET Int /\ IsFiniteSet(P) /\ c \in Nat /\ c <= Len(seq) BY PlacesFinite
<1>2. kept = [n \in 1 .. c |-> seq[NthLeast(P, n)]] BY KeepIs
<1>3. \A n \in 1 .. c : NthLeast(P, n) \in P BY <1>1, NthLeastIs
<1>4. /\ \A m, n \in 1 .. c : m < n => NthLeast(P, m) < NthLeast(P, n)
      /\ \A x \in P : \E n \in 1 .. c : NthLeast(P, n) = x
  BY <1>1, NthLeastOrder
<1>5. \A i \in P : i \in DOMAIN seq /\ seq[i] \in T \cap S BY DEF Places
<1>6. \A i \in DOMAIN seq : seq[i] \in S => i \in P BY DEF Places
<1> HIDE DEF P, c, kept
<1>7. \A n \in 1 .. c : kept[n] = seq[NthLeast(P, n)] /\ kept[n] \in T \cap S BY <1>2, <1>3, <1>5
<1>8. kept \in Seq(T \cap S) /\ kept \in Seq(T) /\ DOMAIN kept = 1 .. c /\ Len(kept) = c BY <1>1, <1>2, <1>7
<1>9. Range(kept) = Range(seq) \cap S
  <2>1. ASSUME NEW x \in Range(seq) \cap S PROVE x \in Range(kept)
    <3>1. PICK i \in DOMAIN seq : seq[i] = x BY DEF Range
    <3>2. i \in P BY <3>1, <1>6
    <3>3. PICK n \in 1 .. c : NthLeast(P, n) = i BY <3>2, <1>4
    <3> QED BY <3>1, <3>3, <1>7, <1>8 DEF Range
  <2>2. ASSUME NEW x \in Range(kept) PROVE x \in Range(seq) \cap S
    <3>1. PICK n \in 1 .. c : x = kept[n] BY <1>8 DEF Range
    <3> QED BY <3>1, <1>3, <1>5, <1>7 DEF Range
  <2> QED BY <2>1, <2>2
<1>10. \A n \in 1 .. c : NthLeast(P, n) \in DOMAIN seq BY <1>3, <1>5
<1> QED BY <1>1, <1>4, <1>7, <1>8, <1>9, <1>10 DEF P, kept

(* To keep an interval of the places is to take a subsequence.             *)
LEMMA KeepInterval ==
    ASSUME NEW T, NEW seq \in Seq(T), NEW S, NEW a \in 1 .. Len(seq) + 1, NEW b \in 0 .. Len(seq),
           a <= b + 1, \A i \in DOMAIN seq : seq[i] \in S <=> a <= i /\ i <= b
    PROVE  Keep(seq, S) = SubSeq(seq, a, b)
<1>1. Places(seq, S) = a .. b BY DEF Places
<1>2. Cardinality(a .. b) = b - a + 1
  <2>1. a \in Int /\ b \in Int /\ Cardinality(a .. b) = IF a > b THEN 0 ELSE b - a + 1 BY FS_Interval
  <2> QED BY <2>1
<1>3. \A n \in 1 .. b - a + 1 : NthLeast(a .. b, n) = a + n - 1 BY <1>2, NthOfInterval
<1>4. Keep(seq, S) = [n \in 1 .. b - a + 1 |-> seq[NthLeast(a .. b, n)]] BY <1>1, <1>2, KeepIs
<1>5. Keep(seq, S) = [n \in 1 .. b - a + 1 |-> seq[a + n - 1]] BY <1>3, <1>4
<1> QED BY <1>5

----------------------------------------------------------------------------
(* Sums of a function over a finite set.                                   *)

Total(f, S) == SumFunctionOnSet(f, S)

(* A total is a fold over the set it is taken over.                        *)
LEMMA SumIsFold ==
    ASSUME NEW f, NEW S
    PROVE  Total(f, S) = Sums!FoldOver(f, {}, 0, S)
BY DEF Total, SumFunctionOnSet, FoldFunctionOnSet, MapThenFoldSet, Sums!FoldOver, Sums!Shrinking, AddAt

(* A total is a number, and any one term can be taken out of it.           *)
LEMMA SumsAdd ==
    ASSUME NEW S, IsFiniteSet(S), NEW f, \A x \in S : f[x] \in Nat
    PROVE  /\ Total(f, S) \in Nat
           /\ \A x \in S : Total(f, S) = f[x] + Total(f, S \ {x})
<1>1. Sums!Commutes(f, {}, Nat, S)
  <2>1. \A a \in Nat : \A x \in S : AddAt(f, {}, a, x) \in Nat BY DEF AddAt
  <2>2. \A a \in Nat : \A x, y \in S :
            AddAt(f, {}, AddAt(f, {}, a, x), y) = AddAt(f, {}, AddAt(f, {}, a, y), x) BY DEF AddAt
  <2> QED BY <2>1, <2>2 DEF Sums!Commutes
<1>2. 0 \in Nat OBVIOUS
<1>3. /\ Sums!FoldOver(f, {}, 0, S) \in Nat
      /\ \A x \in S : Sums!FoldOver(f, {}, 0, S) = AddAt(f, {}, Sums!FoldOver(f, {}, 0, S \ {x}), x)
  BY <1>1, <1>2, Sums!FoldOverRemove DEF IsFiniteSet, Sums!IsFiniteSet
<1> QED BY <1>3, SumIsFold DEF AddAt

(* The total over no element.                                              *)
LEMMA SumOfNone == ASSUME NEW f PROVE Total(f, {}) = 0
BY SumIsFold, Sums!FoldOverEmpty

(* Pointwise larger functions have larger sums, on larger sets too.        *)
LEMMA SumsGrow ==
    ASSUME NEW S, IsFiniteSet(S), NEW T \in SUBSET S, NEW f, NEW g,
           \A x \in S : g[x] \in Nat, \A x \in T : f[x] \in Nat /\ f[x] <= g[x]
    PROVE  Total(f, T) <= Total(g, S)
<1> DEFINE K == {k \in Nat : \A U \in SUBSET S : Cardinality(U) = k => Total(f, U \cap T) <= Total(g, U)}
<1>0. \A U \in SUBSET S : IsFiniteSet(U) /\ Cardinality(U) \in Nat /\ IsFiniteSet(U \cap T)
  BY FS_Subset, FS_CardinalityType
<1>1. 0 \in K
  <2> SUFFICES ASSUME NEW U \in SUBSET S, Cardinality(U) = 0 PROVE Total(f, U \cap T) <= Total(g, U) OBVIOUS
  <2>1. U = {} /\ U \cap T = {} BY <1>0, FS_EmptySet
  <2> QED BY <2>1, SumOfNone
<1>2. ASSUME NEW k \in K PROVE k + 1 \in K
  <2>0. k \in Nat /\ k + 1 \in Nat OBVIOUS
  <2> SUFFICES ASSUME NEW U \in SUBSET S, Cardinality(U) = k + 1 PROVE Total(f, U \cap T) <= Total(g, U)
      BY <2>0
  <2>1. U # {} BY <2>0, FS_EmptySet
  <2>2. PICK x \in U : TRUE BY <2>1
  <2>3. Cardinality(U \ {x}) = k
    <3>1. IsFiniteSet(U) BY <1>0
    <3>2. Cardinality(U \ {x}) = Cardinality(U) - 1 BY <3>1, FS_RemoveElement
    <3> QED BY <3>2, <2>0
  <2>4. Total(f, (U \ {x}) \cap T) <= Total(g, U \ {x}) BY <2>3
  <2>5. Total(g, U) = g[x] + Total(g, U \ {x}) /\ Total(g, U \ {x}) \in Nat BY <1>0, SumsAdd
  <2>6. Total(f, (U \ {x}) \cap T) \in Nat
    <3>1. IsFiniteSet((U \ {x}) \cap T) BY <1>0
    <3> QED BY <3>1, SumsAdd
  <2>7. CASE x \in T
    <3>1. (U \cap T) \ {x} = (U \ {x}) \cap T /\ x \in U \cap T BY <2>7
    <3>2. Total(f, U \cap T) = f[x] + Total(f, (U \ {x}) \cap T) 
      <4>1. IsFiniteSet(U \cap T) /\ \A y \in U \cap T : f[y] \in Nat BY <1>0
      <4>2. Total(f, U \cap T) = f[x] + Total(f, (U \cap T) \ {x}) BY <4>1, <3>1, SumsAdd
      <4> QED BY <4>2, <3>1
    <3>3. f[x] \in Nat /\ g[x] \in Nat /\ f[x] <= g[x] BY <2>7
    <3> QED BY <3>2, <3>3, <2>4, <2>5, <2>6
  <2>8. CASE x \notin T
    <3>1. U \cap T = (U \ {x}) \cap T BY <2>8
    <3>2. g[x] \in Nat OBVIOUS
    <3>3. Total(f, U \cap T) = Total(f, (U \ {x}) \cap T) BY <3>1
    <3>4. Total(f, U \cap T) \in Nat /\ Total(f, U \cap T) <= Total(g, U \ {x}) BY <2>4, <2>6, <3>3
    <3>5. Total(g, U) = g[x] + Total(g, U \ {x}) /\ Total(g, U \ {x}) \in Nat BY <2>5
    <3> HIDE DEF K
    <3> QED BY <3>2, <3>4, <3>5
  <2> QED BY <2>7, <2>8
<1>3. K = Nat
  <2>1. K \in SUBSET Nat OBVIOUS
  <2> HIDE DEF K
  <2> QED BY <2>1, <1>1, <1>2, Sums!SetInduction
<1>4. Cardinality(S) \in K BY <1>0, <1>3
<1>5. S \cap T = T OBVIOUS
<1> QED BY <1>4, <1>5

(* Equal terms have equal totals.                                          *)
LEMMA SameSum ==
    ASSUME NEW S, IsFiniteSet(S), NEW f, NEW g, \A x \in S : f[x] \in Nat /\ f[x] = g[x]
    PROVE  Total(f, S) = Total(g, S)
<1>1. Total(f, S) <= Total(g, S) /\ Total(g, S) <= Total(f, S) BY SumsGrow
<1>2. Total(f, S) \in Nat /\ Total(g, S) \in Nat BY SumsAdd
<1> QED BY <1>1, <1>2

(* Changing one summand.                                                   *)
LEMMA SumChanges ==
    ASSUME NEW S, IsFiniteSet(S), NEW f, NEW g, NEW x \in S,
           \A y \in S : f[y] \in Nat /\ g[y] \in Nat, \A y \in S \ {x} : f[y] = g[y]
    PROVE  Total(f, S) - f[x] = Total(g, S) - g[x]
<1>1. IsFiniteSet(S \ {x}) BY FS_RemoveElement
<1>2. Total(f, S \ {x}) = Total(g, S \ {x}) BY <1>1, SameSum
<1>3. Total(f, S) = f[x] + Total(f, S \ {x}) /\ Total(g, S) = g[x] + Total(g, S \ {x}) BY SumsAdd
<1>4. Total(f, S \ {x}) \in Nat /\ Total(g, S \ {x}) \in Nat /\ f[x] \in Nat /\ g[x] \in Nat BY <1>1, SumsAdd
<1> QED BY <1>2, <1>3, <1>4

----------------------------------------------------------------------------
(* The invariant of a plane.                                               *)

HotRows == [1 .. Layers -> HotBlocks]
ColdRows == [1 .. Layers -> ColdBlocks]
States == [tier : {"hot", "cold"}, table : Seq(HotRows) \cup Seq(ColdRows), order : Nat,
           last : Int, hit : Nat, arrival : Nat]
Keys == UNION {{Key(r, i) : i \in 1 .. Len(Content[r])} : r \in Requests}
Entries == [key : Keys, blocks : HotRows, pending : BOOLEAN, expires : Int]

Fields == {"hot", "cold", "req", "nextOrder", "cache", "pending", "clock", "batchId",
           "hotData", "coldData"}
IsRecord(kv) == DOMAIN kv = Fields
IsPlane(kv) ==
    /\ IsRecord(kv)
    /\ kv.hot \in [HotBlocks -> Nat] /\ kv.cold \in [ColdBlocks -> Nat]
    /\ kv.nextOrder \in Nat /\ kv.clock \in Nat /\ kv.batchId \in Nat
    /\ kv.cache \in Seq(Entries)
    /\ Live(kv) \subseteq Requests /\ kv.req \in [Live(kv) -> States]
    /\ \A r \in Live(kv) : kv.req[r].table \in Seq(IF IsHot(kv, r) THEN HotRows ELSE ColdRows)

Distinct(table) ==
    \A i, j \in DOMAIN table : \A l, m \in 1 .. Layers : table[i][l] = table[j][m] => i = j /\ l = m
NamesKey(r, i, key) == i \in 1 .. Len(Content[r]) /\ Key(r, i) = key

TablesDistinct(kv) == \A r \in Live(kv) : Distinct(kv.req[r].table)
SharedByKey(kv) ==
    \A r, s \in Live(kv) : r # s /\ IsHot(kv, r) /\ IsHot(kv, s) =>
        \A i \in DOMAIN kv.req[r].table : \A j \in DOMAIN kv.req[s].table : \A l, m \in 1 .. Layers :
            kv.req[r].table[i][l] = kv.req[s].table[j][m] =>
                l = m /\ i \in 1 .. Len(Content[r]) /\ NamesKey(s, j, Key(r, i))
ColdApart(kv) ==
    \A r, s \in Live(kv) : r # s /\ ~IsHot(kv, r) /\ ~IsHot(kv, s) =>
        TableBlocks(kv.req[r].table) \cap TableBlocks(kv.req[s].table) = {}
DistinctKeys(cache) == \A c, d \in DOMAIN cache : cache[c].key = cache[d].key => c = d
EntriesApart(entries) ==
    \A e, f \in entries : \A l, m \in 1 .. Layers : e.blocks[l] = f.blocks[m] => e = f /\ l = m
ReadsItsKey(kv, e) ==
    \A r \in Live(kv) : IsHot(kv, r) =>
        \A i \in DOMAIN kv.req[r].table : \A l, m \in 1 .. Layers :
            kv.req[r].table[i][l] = e.blocks[m] => l = m /\ NamesKey(r, i, e.key)

Readers(kv, b) == {r \in Live(kv) : IsHot(kv, r) /\ b \in TableBlocks(kv.req[r].table)}
Caches(entries, b) == \E e \in entries : b \in Range(e.blocks)
InCache(kv, b) == IF Caches(Range(kv.cache), b) THEN 1 ELSE 0
ColdOwned(kv, b) == \E r \in Live(kv) : ~IsHot(kv, r) /\ b \in TableBlocks(kv.req[r].table)

HotCounted(kv) == \A b \in HotBlocks : kv.hot[b] = Cardinality(Readers(kv, b)) + InCache(kv, b)
ColdCounted(kv) == \A b \in ColdBlocks : kv.cold[b] = IF ColdOwned(kv, b) THEN 1 ELSE 0
OrdersDiffer(kv) ==
    /\ \A r \in Live(kv) : kv.req[r].order < kv.nextOrder
    /\ \A r, s \in Live(kv) : kv.req[r].order = kv.req[s].order => r = s
CacheFits(kv) == Len(kv.cache) <= CacheBlocks \div Layers

CacheOK(kv) ==
    /\ DistinctKeys(kv.cache) /\ EntriesApart(Range(kv.cache))
    /\ \A e \in Range(kv.cache) : ReadsItsKey(kv, e)

PlaneOK(kv) ==
    /\ IsPlane(kv)
    /\ TablesDistinct(kv) /\ SharedByKey(kv) /\ ColdApart(kv)
    /\ CacheOK(kv) /\ HotCounted(kv) /\ ColdCounted(kv) /\ OrdersDiffer(kv) /\ CacheFits(kv)

----------------------------------------------------------------------------
(* The part of PlaneOK that is about the requests only.                    *)
RequestsOK(kv) ==
    /\ Live(kv) \subseteq Requests /\ kv.req \in [Live(kv) -> States]
    /\ \A r \in Live(kv) : kv.req[r].table \in Seq(IF IsHot(kv, r) THEN HotRows ELSE ColdRows)
    /\ TablesDistinct(kv) /\ SharedByKey(kv) /\ ColdApart(kv)

(* What is true of the requests depends on the request table alone.        *)
LEMMA RequestsKept ==
    ASSUME NEW kv, NEW p, p.req = kv.req, RequestsOK(kv)
    PROVE  /\ RequestsOK(p) /\ Live(p) = Live(kv)
           /\ \A r : IsHot(p, r) = IsHot(kv, r)
           /\ \A b : Readers(p, b) = Readers(kv, b)
           /\ \A b : ColdOwned(p, b) <=> ColdOwned(kv, b)
           /\ \A e : ReadsItsKey(p, e) <=> ReadsItsKey(kv, e)
           /\ p.nextOrder = kv.nextOrder => (OrdersDiffer(p) <=> OrdersDiffer(kv))
<1>1. Live(p) = Live(kv) BY DEF Live
<1>2. \A r : IsHot(p, r) = IsHot(kv, r) BY DEF IsHot
<1>3. \A b : Readers(p, b) = Readers(kv, b) BY <1>1, <1>2 DEF Readers
<1>4. \A b : ColdOwned(p, b) <=> ColdOwned(kv, b) BY <1>1, <1>2 DEF ColdOwned
<1>5. \A e : ReadsItsKey(p, e) <=> ReadsItsKey(kv, e) BY <1>1, <1>2 DEF ReadsItsKey
<1>6. p.nextOrder = kv.nextOrder => (OrdersDiffer(p) <=> OrdersDiffer(kv)) BY <1>1 DEF OrdersDiffer
<1>7. TablesDistinct(p) BY <1>1 DEF TablesDistinct, RequestsOK
<1>8. SharedByKey(p) BY <1>1, <1>2 DEF SharedByKey, RequestsOK
<1>9. ColdApart(p) BY <1>1, <1>2 DEF ColdApart, RequestsOK
<1>10. \A r \in Live(p) : p.req[r].table \in Seq(IF IsHot(p, r) THEN HotRows ELSE ColdRows)
  BY <1>1, <1>2 DEF RequestsOK
<1> QED BY <1>1, <1>2, <1>3, <1>4, <1>5, <1>6, <1>7, <1>8, <1>9, <1>10 DEF RequestsOK

(* PlaneOK, regrouped: what the operations change together.                *)
FieldsOK(kv) ==
    /\ IsRecord(kv)
    /\ kv.hot \in [HotBlocks -> Nat] /\ kv.cold \in [ColdBlocks -> Nat]
    /\ kv.nextOrder \in Nat /\ kv.clock \in Nat /\ kv.batchId \in Nat
    /\ kv.cache \in Seq(Entries)

(* The plane invariant, part by part.                                      *)
LEMMA PlaneParts ==
    ASSUME NEW kv
    PROVE  PlaneOK(kv) <=> /\ FieldsOK(kv) /\ RequestsOK(kv) /\ CacheOK(kv) /\ HotCounted(kv)
                           /\ ColdCounted(kv) /\ OrdersDiffer(kv) /\ CacheFits(kv)
BY DEF PlaneOK, IsPlane, FieldsOK, RequestsOK

(* The requests that read a block are finitely many.                       *)
LEMMA ReadersFinite ==
    ASSUME NEW kv, RequestsOK(kv), NEW b
    PROVE  IsFiniteSet(Readers(kv, b)) /\ Cardinality(Readers(kv, b)) \in Nat
<1>1. NRequests \in Nat BY SizesAssumption
<1>2. IsFiniteSet(Requests) BY <1>1, FS_Interval DEF Requests
<1>3. Readers(kv, b) \in SUBSET Requests BY DEF Readers, RequestsOK
<1> QED BY <1>2, <1>3, FS_Subset, FS_CardinalityType

----------------------------------------------------------------------------
(* The cache as a sequence of entries with different keys.                 *)
LEMMA RemoveAtIs ==
    ASSUME NEW E, NEW seq \in Seq(E), NEW i \in DOMAIN seq
    PROVE  /\ RemoveAt(seq, i) \in Seq(E) /\ Len(RemoveAt(seq, i)) = Len(seq) - 1
           /\ DOMAIN RemoveAt(seq, i) = 1 .. Len(seq) - 1
           /\ \A k \in 1 .. Len(seq) - 1 : RemoveAt(seq, i)[k] = IF k < i THEN seq[k] ELSE seq[k + 1]
<1> DEFINE front == SubSeq(seq, 1, i - 1)
           back == SubSeq(seq, i + 1, Len(seq))
<1>0. Len(seq) \in Nat /\ i \in 1 .. Len(seq) /\ DOMAIN seq = 1 .. Len(seq) OBVIOUS
<1>1. front \in Seq(E) /\ Len(front) = i - 1 /\ \A k \in 1 .. i - 1 : front[k] = seq[k] BY <1>0
<1>2. back \in Seq(E) /\ Len(back) = Len(seq) - i /\ \A k \in 1 .. Len(seq) - i : back[k] = seq[k + i] BY <1>0
<1> HIDE DEF front, back
<1>3. front \o back \in Seq(E) /\ Len(front \o back) = Len(seq) - 1 /\ Len(seq) - 1 \in Nat
  <2>1. front \o back \in Seq(E) BY <1>1, <1>2
  <2>2. Len(front \o back) = Len(front) + Len(back)
    <3>1. front \in Seq(E) /\ back \in Seq(E) BY <1>1, <1>2
    <3> QED BY <3>1
  <2>3. (i - 1) + (Len(seq) - i) = Len(seq) - 1 /\ Len(seq) - 1 \in Nat BY <1>0
  <2> QED BY <1>1, <1>2, <2>1, <2>2, <2>3
<1>4. ASSUME NEW k \in 1 .. Len(seq) - 1
      PROVE  (front \o back)[k] = IF k < i THEN seq[k] ELSE seq[k + 1]
  <2>1. CASE k < i BY <2>1, <1>0, <1>1, <1>2
  <2>2. CASE ~(k < i)
    <3>1. k - (i - 1) \in 1 .. Len(seq) - i /\ (k - (i - 1)) + i = k + 1 BY <2>2, <1>0
    <3>2. (front \o back)[k] = back[k - (i - 1)] BY <2>2, <1>0, <1>1, <1>2
    <3> QED BY <3>1, <3>2, <2>2, <1>2
  <2> QED BY <2>1, <2>2
<1>5. RemoveAt(seq, i) = front \o back BY DEF RemoveAt, front, back
<1>6. DOMAIN (front \o back) = 1 .. Len(seq) - 1 BY <1>3
<1> QED BY <1>3, <1>4, <1>5, <1>6

(* An entry that is removed leaves the others, with distinct keys.         *)
LEMMA RemovedKeys ==
    ASSUME NEW seq \in Seq(Entries), DistinctKeys(seq), NEW i \in DOMAIN seq
    PROVE  /\ RemoveAt(seq, i) \in Seq(Entries) /\ Len(RemoveAt(seq, i)) = Len(seq) - 1
           /\ Range(RemoveAt(seq, i)) = Range(seq) \ {seq[i]}
           /\ DistinctKeys(RemoveAt(seq, i))
<1> DEFINE cut == RemoveAt(seq, i)
<1>1. /\ cut \in Seq(Entries) /\ Len(cut) = Len(seq) - 1 /\ DOMAIN cut = 1 .. Len(seq) - 1
      /\ \A k \in 1 .. Len(seq) - 1 : cut[k] = IF k < i THEN seq[k] ELSE seq[k + 1]
  BY RemoveAtIs
<1>2. DOMAIN seq = 1 .. Len(seq) /\ Len(seq) \in Nat /\ i \in 1 .. Len(seq) OBVIOUS
<1> HIDE DEF cut
<1>3. \A j \in DOMAIN seq : seq[j] = seq[i] => j = i BY DEF DistinctKeys
<1>4. ASSUME NEW x \in Range(cut) PROVE x \in Range(seq) \ {seq[i]}
  <2>1. PICK k \in 1 .. Len(seq) - 1 : x = cut[k] BY <1>1 DEF Range
  <2>2. k \in DOMAIN seq /\ k + 1 \in DOMAIN seq BY <1>2, <2>1
  <2>3. CASE k < i BY <1>1, <1>2, <1>3, <2>1, <2>2, <2>3 DEF Range
  <2>4. CASE ~(k < i)
    <3>1. x = seq[k + 1] /\ k + 1 # i BY <1>1, <1>2, <2>1, <2>4
    <3> QED BY <3>1, <1>3, <2>2 DEF Range
  <2> QED BY <2>3, <2>4
<1>5. ASSUME NEW x \in Range(seq) \ {seq[i]} PROVE x \in Range(cut)
  <2>1. PICK j \in DOMAIN seq : x = seq[j] BY DEF Range
  <2>2. j # i BY <2>1
  <2>3. CASE j < i
    <3>1. j \in 1 .. Len(seq) - 1 /\ cut[j] = x BY <1>1, <1>2, <2>1, <2>3
    <3> QED BY <3>1, <1>1 DEF Range
  <2>4. CASE j > i
    <3>1. j - 1 \in 1 .. Len(seq) - 1 /\ cut[j - 1] = x BY <1>1, <1>2, <2>1, <2>4
    <3> QED BY <3>1, <1>1 DEF Range
  <2> QED BY <1>2, <2>1, <2>2, <2>3, <2>4
<1>6. DistinctKeys(cut)
  <2> SUFFICES ASSUME NEW c \in 1 .. Len(seq) - 1, NEW d \in 1 .. Len(seq) - 1, cut[c].key = cut[d].key
               PROVE  c = d
      BY <1>1 DEF DistinctKeys
  <2> DEFINE at(k) == IF k < i THEN k ELSE k + 1
  <2>1. at(c) \in DOMAIN seq /\ at(d) \in DOMAIN seq /\ cut[c] = seq[at(c)] /\ cut[d] = seq[at(d)]
    BY <1>1, <1>2
  <2>2. at(c) = at(d)
    <3> HIDE DEF at
    <3> QED BY <2>1 DEF DistinctKeys
  <2> QED BY <2>2, <1>2
<1>7. Range(cut) = Range(seq) \ {seq[i]} BY <1>4, <1>5
<1> QED BY <1>1, <1>6, <1>7 DEF cut

(* An entry with a new key that is appended keeps the keys distinct.       *)
LEMMA AppendedKeys ==
    ASSUME NEW seq \in Seq(Entries), DistinctKeys(seq), NEW e \in Entries,
           \A f \in Range(seq) : f.key # e.key
    PROVE  /\ Append(seq, e) \in Seq(Entries) /\ Len(Append(seq, e)) = Len(seq) + 1
           /\ Range(Append(seq, e)) = Range(seq) \cup {e}
           /\ DistinctKeys(Append(seq, e))
<1> DEFINE new == Append(seq, e)
<1>0. DOMAIN seq = 1 .. Len(seq) /\ Len(seq) \in Nat OBVIOUS
<1>1. new \in Seq(Entries) /\ Len(new) = Len(seq) + 1 /\ DOMAIN new = 1 .. Len(seq) + 1 OBVIOUS
<1>2. /\ \A k \in 1 .. Len(seq) : new[k] = seq[k]
      /\ new[Len(seq) + 1] = e
  OBVIOUS
<1> HIDE DEF new
<1>3. \A k \in 1 .. Len(seq) : seq[k] \in Range(seq) BY <1>0 DEF Range
<1>4. Range(new) = Range(seq) \cup {e}
  <2>1. ASSUME NEW x \in Range(new) PROVE x \in Range(seq) \cup {e}
    <3>1. PICK k \in 1 .. Len(seq) + 1 : x = new[k] BY <1>1 DEF Range
    <3>2. CASE k = Len(seq) + 1 BY <1>2, <3>1, <3>2
    <3>3. CASE k \in 1 .. Len(seq) BY <1>2, <1>3, <3>1, <3>3
    <3> QED BY <3>2, <3>3, <1>0
  <2>2. ASSUME NEW x \in Range(seq) PROVE x \in Range(new)
    <3>1. PICK k \in 1 .. Len(seq) : x = seq[k] BY <1>0 DEF Range
    <3>2. k \in DOMAIN new /\ new[k] = x BY <1>0, <1>1, <1>2, <3>1
    <3> QED BY <3>2 DEF Range
  <2>3. e \in Range(new) BY <1>0, <1>1, <1>2 DEF Range
  <2> QED BY <2>1, <2>2, <2>3
<1>5. DistinctKeys(new)
  <2> SUFFICES ASSUME NEW c \in 1 .. Len(seq) + 1, NEW d \in 1 .. Len(seq) + 1, new[c].key = new[d].key
               PROVE  c = d
      BY <1>1 DEF DistinctKeys
  <2>1. CASE c = Len(seq) + 1 /\ d = Len(seq) + 1 BY <2>1
  <2>2. CASE c \in 1 .. Len(seq) /\ d \in 1 .. Len(seq) BY <2>2, <1>0, <1>2 DEF DistinctKeys
  <2>3. CASE c \in 1 .. Len(seq) /\ d = Len(seq) + 1 BY <2>3, <1>2, <1>3
  <2>4. CASE d \in 1 .. Len(seq) /\ c = Len(seq) + 1 BY <2>4, <1>2, <1>3
  <2> QED BY <2>1, <2>2, <2>3, <2>4, <1>0
<1> QED BY <1>1, <1>4, <1>5 DEF new

(* The entry that is found under a cached key is the only one with that    *)
(* key.                                                                    *)
LEMMA EntryOfKey ==
    ASSUME NEW kv, kv.cache \in Seq(Entries), DistinctKeys(kv.cache), NEW key \in CacheKeys(kv)
    PROVE  /\ IndexOf(kv, key) \in DOMAIN kv.cache
           /\ EntryOf(kv, key) = kv.cache[IndexOf(kv, key)]
           /\ EntryOf(kv, key) \in Range(kv.cache) /\ EntryOf(kv, key) \in Entries
           /\ EntryOf(kv, key).key = key
           /\ \A e \in Range(kv.cache) : e.key = key => e = EntryOf(kv, key)
<1>1. \E i \in DOMAIN kv.cache : kv.cache[i].key = key BY DEF CacheKeys
<1>2. IndexOf(kv, key) \in DOMAIN kv.cache /\ kv.cache[IndexOf(kv, key)].key = key BY <1>1 DEF IndexOf
<1>3. EntryOf(kv, key) = kv.cache[IndexOf(kv, key)] BY DEF EntryOf
<1>4. \A e \in Range(kv.cache) : e.key = key => e = kv.cache[IndexOf(kv, key)] BY <1>2 DEF Range, DistinctKeys
<1> QED BY <1>2, <1>3, <1>4 DEF Range

(* The cached keys are the keys of the entries.                            *)
LEMMA CacheKeysAre ==
    ASSUME NEW kv PROVE CacheKeys(kv) = {e.key : e \in Range(kv.cache)}
BY DEF CacheKeys, Range

----------------------------------------------------------------------------
(* Evictions and touches.                                                  *)

EvictKeyStep(p, q, kv, key) == Evict(kv, key)
KeyEvictions == INSTANCE FoldTheorems WITH Op <- EvictKeyStep
ExpireStep(p, now, kv, e) == IF e.expires # Never /\ e.expires <= now THEN Evict(kv, e.key) ELSE kv
Expirations == INSTANCE FoldTheorems WITH Op <- ExpireStep
TouchStep(r, q, kv, i) == MoveToEnd(kv, Key(r, i))
Touches == INSTANCE FoldTheorems WITH Op <- TouchStep
ReorderStep(r, q, kv, i) ==
    IF Key(r, i) \in CacheKeys(kv) /\ \A b \in Range(EntryOf(kv, Key(r, i)).blocks) : kv.hot[b] = 1
    THEN MoveToEnd(kv, Key(r, i)) ELSE kv
Reorders == INSTANCE FoldTheorems WITH Op <- ReorderStep

(* What an operation on the cache leaves as it was.                        *)
CacheOnly(kv, p) ==
    /\ p.req = kv.req /\ p.cold = kv.cold /\ p.nextOrder = kv.nextOrder /\ p.pending = kv.pending
    /\ p.clock = kv.clock /\ p.batchId = kv.batchId
    /\ p.hotData = kv.hotData /\ p.coldData = kv.coldData
    /\ Free(kv.hot) \subseteq Free(p.hot)
CacheStep(kv, p) == PlaneOK(p) /\ CacheOnly(kv, p)

(* Steps that change the cache only compose.                               *)
LEMMA CacheOnlyTransitive ==
    ASSUME NEW k1, NEW k2, NEW k3, CacheOnly(k1, k2), CacheOnly(k2, k3)
    PROVE  CacheOnly(k1, k3)
BY DEF CacheOnly

(* No step at all changes the cache only.                                  *)
LEMMA CacheOnlyItself ==
    ASSUME NEW kv PROVE CacheOnly(kv, kv)
BY DEF CacheOnly

(* What an eviction (PrefixCache.evict) does to each field of the plane.   *)
LEMMA EvictFields ==
    ASSUME NEW kv, FieldsOK(kv), NEW key
    PROVE  LET p == Evict(kv, key) IN
           /\ IsRecord(p)
           /\ p.cache = RemoveAt(kv.cache, IndexOf(kv, key))
           /\ p.hot = Released(kv.hot, Range(EntryOf(kv, key).blocks))
           /\ p.req = kv.req /\ p.cold = kv.cold /\ p.nextOrder = kv.nextOrder /\ p.pending = kv.pending
           /\ p.clock = kv.clock /\ p.batchId = kv.batchId
           /\ p.hotData = kv.hotData /\ p.coldData = kv.coldData
BY DEF Evict, FieldsOK, IsRecord, Fields

(* An eviction preserves the plane invariant: the entry's blocks lose one  *)
(* holder each.                                                            *)
LEMMA EvictOK ==
    ASSUME NEW kv, PlaneOK(kv), NEW key \in CacheKeys(kv)
    PROVE  LET p == Evict(kv, key)  e == EntryOf(kv, key) IN
           /\ CacheStep(kv, p)
           /\ p.cache = RemoveAt(kv.cache, IndexOf(kv, key))
           /\ Range(p.cache) = Range(kv.cache) \ {e}
           /\ Len(p.cache) = Len(kv.cache) - 1
           /\ \A b \in HotBlocks : p.hot[b] = IF b \in Range(e.blocks) THEN kv.hot[b] - 1 ELSE kv.hot[b]
<1> DEFINE p == Evict(kv, key)
           e == EntryOf(kv, key)
<1>1. /\ FieldsOK(kv) /\ RequestsOK(kv) /\ CacheOK(kv) /\ HotCounted(kv)
      /\ ColdCounted(kv) /\ OrdersDiffer(kv) /\ CacheFits(kv)
  BY PlaneParts
<1>2. /\ IsRecord(p) /\ p.cache = RemoveAt(kv.cache, IndexOf(kv, key))
      /\ p.hot = Released(kv.hot, Range(e.blocks))
      /\ p.req = kv.req /\ p.cold = kv.cold /\ p.nextOrder = kv.nextOrder /\ p.pending = kv.pending
      /\ p.clock = kv.clock /\ p.batchId = kv.batchId
      /\ p.hotData = kv.hotData /\ p.coldData = kv.coldData
  BY <1>1, EvictFields
<1>3. kv.cache \in Seq(Entries) /\ DistinctKeys(kv.cache) BY <1>1 DEF FieldsOK, CacheOK
<1>4. /\ IndexOf(kv, key) \in DOMAIN kv.cache /\ e = kv.cache[IndexOf(kv, key)]
      /\ e \in Range(kv.cache) /\ e \in Entries /\ e.key = key
  BY <1>3, EntryOfKey
<1> HIDE DEF p, e
<1>5. /\ p.cache \in Seq(Entries) /\ Len(p.cache) = Len(kv.cache) - 1
      /\ Range(p.cache) = Range(kv.cache) \ {e} /\ DistinctKeys(p.cache)
  BY <1>2, <1>3, <1>4, RemovedKeys
<1>6. kv.hot \in [HotBlocks -> Nat] BY <1>1 DEF FieldsOK
<1>7. \A b \in HotBlocks : p.hot[b] = IF b \in Range(e.blocks) THEN kv.hot[b] - 1 ELSE kv.hot[b]
  BY <1>2, <1>6 DEF Released
<1>8. RequestsOK(p) /\ (\A b : Readers(p, b) = Readers(kv, b))
      /\ (\A b : ColdOwned(p, b) <=> ColdOwned(kv, b))
      /\ (\A f : ReadsItsKey(p, f) <=> ReadsItsKey(kv, f))
      /\ OrdersDiffer(p)
  BY <1>1, <1>2, RequestsKept
<1>9. CacheOK(p) BY <1>1, <1>5, <1>8 DEF CacheOK, EntriesApart
<1>10. ASSUME NEW b \in HotBlocks PROVE p.hot[b] = Cardinality(Readers(p, b)) + InCache(p, b)
  <2>1. kv.hot[b] = Cardinality(Readers(kv, b)) + InCache(kv, b) BY <1>1 DEF HotCounted
  <2>2. Cardinality(Readers(kv, b)) \in Nat BY <1>1, ReadersFinite
  <2>3. CASE b \in Range(e.blocks)
    <3>1. InCache(kv, b) = 1 BY <2>3, <1>4 DEF InCache, Caches
    <3>2. ASSUME NEW f \in Range(kv.cache), b \in Range(f.blocks) PROVE f = e
      <4>0. f \in Entries /\ e \in Entries BY <3>2, <1>3, <1>4 DEF Range
      <4>1. f.blocks \in HotRows /\ e.blocks \in HotRows BY <4>0 DEF Entries
      <4>2. PICK l \in 1 .. Layers : f.blocks[l] = b BY <3>2, <4>1 DEF Range, HotRows
      <4>3. PICK m \in 1 .. Layers : e.blocks[m] = b BY <2>3, <4>1 DEF Range, HotRows
      <4>4. EntriesApart(Range(kv.cache)) BY <1>1 DEF CacheOK
      <4> QED BY <4>2, <4>3, <4>4, <1>4 DEF EntriesApart
    <3>3. InCache(p, b) = 0 BY <3>2, <1>5 DEF InCache, Caches
    <3> QED BY <2>1, <2>2, <2>3, <3>1, <3>3, <1>7, <1>8
  <2>4. CASE b \notin Range(e.blocks)
    <3>1. Caches(Range(p.cache), b) <=> Caches(Range(kv.cache), b) BY <2>4, <1>5 DEF Caches
    <3> QED BY <2>1, <2>4, <3>1, <1>7, <1>8 DEF InCache
  <2> QED BY <2>3, <2>4
<1>11. p.hot \in [HotBlocks -> Nat]
  <2>1. ASSUME NEW b \in HotBlocks PROVE p.hot[b] \in Nat
    <3>1. Cardinality(Readers(p, b)) \in Nat BY <1>8, ReadersFinite
    <3>2. InCache(p, b) \in Nat BY DEF InCache
    <3> QED BY <1>10, <3>1, <3>2
  <2>2. p.hot = [b \in HotBlocks |-> p.hot[b]] BY <1>2, <1>6 DEF Released
  <2> QED BY <2>1, <2>2
<1>12. FieldsOK(p) BY <1>1, <1>2, <1>5, <1>11 DEF FieldsOK
<1>13. ColdCounted(p) BY <1>1, <1>2, <1>8 DEF ColdCounted
<1>14. CacheFits(p)
  <2>1. Len(kv.cache) \in Nat BY <1>3
  <2>2. CacheBlocks \div Layers \in Int BY SizesAssumption
  <2> QED BY <1>1, <1>5, <2>1, <2>2 DEF CacheFits
<1>15. PlaneOK(p) BY <1>8, <1>9, <1>10, <1>12, <1>13, <1>14, PlaneParts DEF HotCounted
<1>16. Free(kv.hot) \subseteq Free(p.hot)
  <2> SUFFICES ASSUME NEW b \in Free(kv.hot) PROVE b \in Free(p.hot) OBVIOUS
  <2>1. b \in HotBlocks /\ kv.hot[b] = 0 BY <1>6 DEF Free
  <2>2. p.hot[b] \in Nat BY <1>11, <2>1
  <2>3. p.hot[b] = 0 BY <1>7, <2>1, <2>2
  <2> QED BY <2>1, <2>3, <1>11 DEF Free
<1>17. CacheStep(kv, p) BY <1>2, <1>15, <1>16 DEF CacheStep, CacheOnly
<1> QED BY <1>2, <1>5, <1>7, <1>17 DEF p, e

(* The same, for an entry of the cache.                                    *)
LEMMA EvictEntry ==
    ASSUME NEW kv, PlaneOK(kv), NEW e \in Range(kv.cache), NEW p, p = Evict(kv, e.key)
    PROVE  /\ CacheStep(kv, p)
           /\ Range(p.cache) = Range(kv.cache) \ {e} /\ Len(p.cache) = Len(kv.cache) - 1
           /\ \A b \in HotBlocks : p.hot[b] = IF b \in Range(e.blocks) THEN kv.hot[b] - 1 ELSE kv.hot[b]
<1>1. kv.cache \in Seq(Entries) /\ DistinctKeys(kv.cache) BY PlaneParts DEF FieldsOK, CacheOK
<1>2. e.key \in CacheKeys(kv) BY CacheKeysAre
<1>3. EntryOf(kv, e.key) = e BY <1>1, <1>2, EntryOfKey
<1>4. LET q == Evict(kv, e.key)  f == EntryOf(kv, e.key) IN
      /\ CacheStep(kv, q) /\ Range(q.cache) = Range(kv.cache) \ {f} /\ Len(q.cache) = Len(kv.cache) - 1
      /\ \A b \in HotBlocks : q.hot[b] = IF b \in Range(f.blocks) THEN kv.hot[b] - 1 ELSE kv.hot[b]
  BY <1>2, EvictOK
<1> QED BY <1>3, <1>4

(* What a touch (OrderedDict.move_to_end) does to each field of the plane. *)
LEMMA MoveToEndFields ==
    ASSUME NEW kv, FieldsOK(kv), NEW key
    PROVE  LET p == MoveToEnd(kv, key) IN
           /\ IsRecord(p)
           /\ p.cache = Append(RemoveAt(kv.cache, IndexOf(kv, key)), EntryOf(kv, key))
           /\ p.hot = kv.hot
           /\ p.req = kv.req /\ p.cold = kv.cold /\ p.nextOrder = kv.nextOrder /\ p.pending = kv.pending
           /\ p.clock = kv.clock /\ p.batchId = kv.batchId
           /\ p.hotData = kv.hotData /\ p.coldData = kv.coldData
BY DEF MoveToEnd, FieldsOK, IsRecord, Fields

(* A plane whose cache has the same entries in another order.              *)
LEMMA SameEntries ==
    ASSUME NEW kv, PlaneOK(kv), NEW p, IsRecord(p),
           p.cache \in Seq(Entries), DistinctKeys(p.cache), Range(p.cache) = Range(kv.cache),
           Len(p.cache) = Len(kv.cache), p.hot = kv.hot,
           p.req = kv.req /\ p.cold = kv.cold /\ p.nextOrder = kv.nextOrder /\ p.pending = kv.pending,
           p.clock = kv.clock /\ p.batchId = kv.batchId,
           p.hotData = kv.hotData /\ p.coldData = kv.coldData
    PROVE  CacheStep(kv, p)
<1>1. /\ FieldsOK(kv) /\ RequestsOK(kv) /\ CacheOK(kv) /\ HotCounted(kv)
      /\ ColdCounted(kv) /\ OrdersDiffer(kv) /\ CacheFits(kv)
  BY PlaneParts
<1>2. RequestsOK(p) /\ (\A b : Readers(p, b) = Readers(kv, b))
      /\ (\A b : ColdOwned(p, b) <=> ColdOwned(kv, b))
      /\ (\A f : ReadsItsKey(p, f) <=> ReadsItsKey(kv, f))
      /\ OrdersDiffer(p)
  BY <1>1, RequestsKept
<1>3. FieldsOK(p) BY <1>1 DEF FieldsOK
<1>4. CacheOK(p) BY <1>1, <1>2 DEF CacheOK
<1>5. HotCounted(p) BY <1>1, <1>2 DEF HotCounted, InCache
<1>6. ColdCounted(p) BY <1>1, <1>2 DEF ColdCounted
<1>7. CacheFits(p) BY <1>1 DEF CacheFits
<1>8. PlaneOK(p) BY <1>2, <1>3, <1>4, <1>5, <1>6, <1>7, PlaneParts
<1> QED BY <1>8 DEF CacheStep, CacheOnly

(* A touch preserves the plane invariant and the set of entries.           *)
LEMMA MoveToEndOK ==
    ASSUME NEW kv, PlaneOK(kv), NEW key \in CacheKeys(kv)
    PROVE  LET p == MoveToEnd(kv, key) IN
           CacheStep(kv, p) /\ Range(p.cache) = Range(kv.cache) /\ p.hot = kv.hot
<1> DEFINE p == MoveToEnd(kv, key)
           e == EntryOf(kv, key)
           cut == RemoveAt(kv.cache, IndexOf(kv, key))
<1>1. FieldsOK(kv) /\ CacheOK(kv) BY PlaneParts
<1>2. /\ IsRecord(p) /\ p.cache = Append(cut, e) /\ p.hot = kv.hot
      /\ p.req = kv.req /\ p.cold = kv.cold /\ p.nextOrder = kv.nextOrder /\ p.pending = kv.pending
      /\ p.clock = kv.clock /\ p.batchId = kv.batchId
      /\ p.hotData = kv.hotData /\ p.coldData = kv.coldData
  BY <1>1, MoveToEndFields
<1>3. kv.cache \in Seq(Entries) /\ DistinctKeys(kv.cache) BY <1>1 DEF FieldsOK, CacheOK
<1>4. /\ IndexOf(kv, key) \in DOMAIN kv.cache /\ e = kv.cache[IndexOf(kv, key)]
      /\ e \in Range(kv.cache) /\ e \in Entries /\ e.key = key
      /\ \A f \in Range(kv.cache) : f.key = key => f = e
  BY <1>3, EntryOfKey
<1> HIDE DEF p, e
<1>5. /\ cut \in Seq(Entries) /\ Len(cut) = Len(kv.cache) - 1
      /\ Range(cut) = Range(kv.cache) \ {e} /\ DistinctKeys(cut)
  BY <1>3, <1>4, RemovedKeys
<1> HIDE DEF cut
<1>6. \A f \in Range(cut) : f.key # e.key BY <1>4, <1>5
<1>7. /\ Append(cut, e) \in Seq(Entries) /\ Len(Append(cut, e)) = Len(cut) + 1
      /\ Range(Append(cut, e)) = Range(cut) \cup {e} /\ DistinctKeys(Append(cut, e))
  BY <1>4, <1>5, <1>6, AppendedKeys
<1>8. Len(kv.cache) \in Nat BY <1>3
<1>9. /\ p.cache \in Seq(Entries) /\ Len(p.cache) = Len(kv.cache)
      /\ Range(p.cache) = Range(kv.cache) /\ DistinctKeys(p.cache)
  BY <1>2, <1>4, <1>5, <1>7, <1>8
<1>10. CacheStep(kv, p) BY <1>2, <1>9, SameEntries
<1> QED BY <1>2, <1>9, <1>10 DEF p

(* The same for a named result.                                            *)
LEMMA MoveEntry ==
    ASSUME NEW kv, PlaneOK(kv), NEW key \in CacheKeys(kv), NEW p, p = MoveToEnd(kv, key)
    PROVE  CacheStep(kv, p) /\ Range(p.cache) = Range(kv.cache) /\ p.hot = kv.hot
BY MoveToEndOK

----------------------------------------------------------------------------
(* Evictions from the front, expiry.                                       *)

(* The evictions from the front of the cache as a fold.                    *)
LEMMA EvictOldestIsFold ==
    ASSUME NEW kv, NEW n
    PROVE  EvictOldest(kv, n) = Evictions!Fold({}, {}, kv, SubSeq(kv.cache, 1, n))
BY DEF EvictOldest, Evictions!Fold, EvictStep, Evictions!Iter, Evictions!Greatest,
       FoldLeft, MapThenFoldSet, Max

(* The expiry of entries as a fold.                                        *)
LEMMA ExpireIsFold ==
    ASSUME NEW kv, NEW now
    PROVE  Expire(kv, now) = Expirations!Fold({}, now, kv, kv.cache)
BY DEF Expire, Expirations!Fold, ExpireStep, Expirations!Iter, Expirations!Greatest,
       FoldLeft, MapThenFoldSet, Max

(* The entries from the k-th on, without the k-th.                         *)
After(seq, k) == {seq[c] : c \in k + 1 .. Len(seq)}

(* The entries after a place, one place further.                           *)
LEMMA AfterOneMore ==
    ASSUME NEW seq \in Seq(Entries), DistinctKeys(seq), NEW k \in 0 .. Len(seq) - 1
    PROVE  /\ seq[k + 1] \in After(seq, k) /\ seq[k + 1] \in Entries
           /\ After(seq, k + 1) = After(seq, k) \ {seq[k + 1]}
           /\ After(seq, k) \subseteq Range(seq)
<1>0. DOMAIN seq = 1 .. Len(seq) /\ Len(seq) \in Nat /\ k \in Nat /\ k + 1 \in 1 .. Len(seq) OBVIOUS
<1>1. \A c \in 1 .. Len(seq) : seq[c] = seq[k + 1] => c = k + 1 BY <1>0 DEF DistinctKeys
<1>2. After(seq, k + 1) \subseteq After(seq, k) \ {seq[k + 1]}
  <2> SUFFICES ASSUME NEW c \in (k + 1) + 1 .. Len(seq) PROVE seq[c] \in After(seq, k) \ {seq[k + 1]}
      BY DEF After
  <2>1. c \in k + 1 .. Len(seq) /\ c \in 1 .. Len(seq) /\ c # k + 1 BY <1>0
  <2> QED BY <2>1, <1>1 DEF After
<1>3. After(seq, k) \ {seq[k + 1]} \subseteq After(seq, k + 1)
  <2> SUFFICES ASSUME NEW c \in k + 1 .. Len(seq), seq[c] # seq[k + 1] PROVE seq[c] \in After(seq, k + 1)
      BY DEF After
  <2>1. c # k + 1 OBVIOUS
  <2>2. c \in (k + 1) + 1 .. Len(seq) BY <1>0, <2>1
  <2> QED BY <2>2 DEF After
<1>4. seq[k + 1] \in After(seq, k) BY <1>0 DEF After
<1>5. After(seq, k) \subseteq Range(seq)
  <2>1. \A c \in k + 1 .. Len(seq) : c \in DOMAIN seq BY <1>0
  <2> QED BY <2>1 DEF After, Range
<1> QED BY <1>0, <1>2, <1>3, <1>4, <1>5

(* Only the oldest entries go.                                             *)
LEMMA EvictOldestOK ==
    ASSUME NEW kv, PlaneOK(kv), NEW n \in 0 .. Len(kv.cache)
    PROVE  LET p == EvictOldest(kv, n) IN
           /\ CacheStep(kv, p) /\ Len(p.cache) = Len(kv.cache) - n
           /\ Range(p.cache) \subseteq Range(kv.cache)
<1> DEFINE oldest == SubSeq(kv.cache, 1, n)
           p(k) == Evictions!Partial({}, {}, kv, oldest, k)
           Good(k) == /\ CacheStep(kv, p(k)) /\ Range(p(k).cache) = After(kv.cache, k)
                      /\ Len(p(k).cache) = Len(kv.cache) - k
           G == {k \in 0 .. n : Good(k)}
<1>0. kv.cache \in Seq(Entries) /\ DistinctKeys(kv.cache) BY PlaneParts DEF FieldsOK, CacheOK
<1>1. /\ oldest \in Seq(Entries) /\ Len(oldest) = n /\ n \in Nat /\ Len(kv.cache) \in Nat
      /\ \A k \in 1 .. n : oldest[k] = kv.cache[k]
  BY <1>0
<1> HIDE DEF oldest
<1>ind. Evictions!Inductive BY Induction DEF Evictions!Inductive
<1>2. p(0) = kv /\ p(n) = Evictions!Fold({}, {}, kv, oldest)
  BY <1>1, Evictions!FoldEnds, <1>ind
<1>3. ASSUME NEW k \in 0 .. n - 1 PROVE p(k + 1) = Evict(p(k), kv.cache[k + 1].key)
  <2>1. p(k + 1) = EvictStep({}, {}, p(k), oldest[k + 1]) BY <1>1, Evictions!FoldStep, <1>ind
  <2>2. k + 1 \in 1 .. n BY <1>1
  <2> QED BY <1>1, <2>1, <2>2 DEF EvictStep
<1>4. 0 \in G
  <2>1. After(kv.cache, 0) = Range(kv.cache) BY <1>0 DEF After, Range
  <2>2. Good(0) BY <1>1, <1>2, <2>1, CacheOnlyItself DEF CacheStep
  <2> QED BY <1>1, <2>2
<1> HIDE DEF p
<1>5. ASSUME NEW k \in G, k \in 0 .. n - 1 PROVE k + 1 \in G
  <2> DEFINE e == kv.cache[k + 1]
  <2>1. Good(k) /\ k \in 0 .. Len(kv.cache) - 1 /\ k \in Nat BY <1>1, <1>5
  <2>2. /\ e \in After(kv.cache, k) /\ e \in Entries /\ After(kv.cache, k + 1) = After(kv.cache, k) \ {e}
    BY <1>0, <2>1, AfterOneMore
  <2> HIDE DEF e
  <2>3. PlaneOK(p(k)) /\ CacheOnly(kv, p(k)) /\ e \in Range(p(k).cache) BY <2>1, <2>2 DEF CacheStep
  <2> DEFINE a == p(k)
             b == p(k + 1)
  <2>6. /\ CacheStep(p(k), p(k + 1)) /\ Range(p(k + 1).cache) = Range(p(k).cache) \ {e}
        /\ Len(p(k + 1).cache) = Len(p(k).cache) - 1
    <3>1. b = Evict(a, e.key) BY <1>3, <1>5 DEF e
    <3>2. PlaneOK(a) /\ e \in Range(a.cache) BY <2>3
    <3> HIDE DEF a, b
    <3>3. CacheStep(a, b) /\ Range(b.cache) = Range(a.cache) \ {e} /\ Len(b.cache) = Len(a.cache) - 1
      BY <3>1, <3>2, EvictEntry
    <3> QED BY <3>3 DEF a, b
  <2>7. CacheStep(kv, p(k + 1)) BY <2>3, <2>6, CacheOnlyTransitive DEF CacheStep
  <2>8. Len(p(k + 1).cache) = Len(kv.cache) - (k + 1) BY <2>1, <2>6, <1>1
  <2>9. Good(k + 1) BY <2>1, <2>2, <2>6, <2>7, <2>8
  <2> QED BY <2>9, <1>1, <1>5
<1>6. n \in G
  <2> HIDE DEF G
  <2>1. \A k \in 0 .. n : k \in G BY <1>1, <1>4, <1>5, Sums!PrefixInduction
  <2> QED BY <2>1, <1>1
<1>7. EvictOldest(kv, n) = p(n) BY <1>2, EvictOldestIsFold DEF oldest, p
<1>8. After(kv.cache, n) \subseteq Range(kv.cache)
  <2>1. \A c \in n + 1 .. Len(kv.cache) : c \in DOMAIN kv.cache BY <1>0, <1>1
  <2> QED BY <2>1 DEF After, Range
<1> QED BY <1>6, <1>7, <1>8

(* Expiry preserves the plane invariant and adds no entry.                 *)
LEMMA ExpireOK ==
    ASSUME NEW kv, PlaneOK(kv), NEW now
    PROVE  LET p == Expire(kv, now) IN
           CacheStep(kv, p) /\ Range(p.cache) \subseteq Range(kv.cache)
<1> DEFINE n == Len(kv.cache)
           p(k) == Expirations!Partial({}, now, kv, kv.cache, k)
           Good(k) == /\ CacheStep(kv, p(k)) /\ After(kv.cache, k) \subseteq Range(p(k).cache)
                      /\ Range(p(k).cache) \subseteq Range(kv.cache)
           G == {k \in 0 .. n : Good(k)}
<1>0. kv.cache \in Seq(Entries) /\ DistinctKeys(kv.cache) /\ n \in Nat BY PlaneParts DEF FieldsOK, CacheOK
<1>ind. Expirations!Inductive BY Induction DEF Expirations!Inductive
<1>2. p(0) = kv /\ p(n) = Expirations!Fold({}, now, kv, kv.cache)
  BY <1>0, Expirations!FoldEnds, <1>ind
<1>3. ASSUME NEW k \in 0 .. n - 1 PROVE p(k + 1) = ExpireStep({}, now, p(k), kv.cache[k + 1])
  BY <1>0, Expirations!FoldStep, <1>ind
<1>4. 0 \in G
  <2>1. After(kv.cache, 0) = Range(kv.cache) BY <1>0 DEF After, Range
  <2>2. Good(0) BY <1>2, <2>1, CacheOnlyItself DEF CacheStep
  <2> QED BY <1>0, <2>2
<1> HIDE DEF p
<1>5. ASSUME NEW k \in G, k \in 0 .. n - 1 PROVE k + 1 \in G
  <2> DEFINE e == kv.cache[k + 1]
  <2>1. Good(k) /\ k \in Nat BY <1>0, <1>5
  <2>2. /\ e \in After(kv.cache, k) /\ e \in Entries /\ After(kv.cache, k + 1) = After(kv.cache, k) \ {e}
    BY <1>0, <1>5, AfterOneMore
  <2> HIDE DEF e
  <2>3. PlaneOK(p(k)) /\ CacheOnly(kv, p(k)) /\ e \in Range(p(k).cache) BY <2>1, <2>2 DEF CacheStep
  <2> DEFINE a == p(k)
             b == p(k + 1)
  <2>6. CASE p(k + 1) = Evict(p(k), e.key)
    <3>1. CacheStep(p(k), p(k + 1)) /\ Range(p(k + 1).cache) = Range(p(k).cache) \ {e}
      <4>1. b = Evict(a, e.key) BY <2>6
      <4>2. PlaneOK(a) /\ e \in Range(a.cache) BY <2>3
      <4> HIDE DEF a, b
      <4>3. CacheStep(a, b) /\ Range(b.cache) = Range(a.cache) \ {e} BY <4>1, <4>2, EvictEntry
      <4> QED BY <4>3 DEF a, b
    <3>2. CacheStep(kv, p(k + 1)) BY <2>3, <3>1, CacheOnlyTransitive DEF CacheStep
    <3>3. Good(k + 1) BY <2>1, <2>2, <3>1, <3>2
    <3> QED BY <3>3, <1>0, <1>5
  <2>7. CASE p(k + 1) = p(k)
    <3>1. Good(k + 1) BY <2>1, <2>2, <2>7
    <3> QED BY <3>1, <1>0, <1>5
  <2> QED BY <2>6, <2>7, <1>3, <1>5 DEF ExpireStep, e
<1>6. n \in G
  <2> HIDE DEF G
  <2>1. \A k \in 0 .. n : k \in G BY <1>0, <1>4, <1>5, Sums!PrefixInduction
  <2> QED BY <2>1, <1>0
<1>7. Expire(kv, now) = p(n) BY <1>2, ExpireIsFold DEF p
<1> QED BY <1>6, <1>7

----------------------------------------------------------------------------
(* Eviction by key, and the order of a released request.                   *)

(* The evictions of a sequence of keys as a fold.                          *)
LEMMA KeyEvictionsIsFold ==
    ASSUME NEW kv, NEW keys
    PROVE  FoldLeft(Evict, kv, keys) = KeyEvictions!Fold({}, {}, kv, keys)
BY DEF KeyEvictions!Fold, EvictKeyStep, KeyEvictions!Iter, KeyEvictions!Greatest,
       FoldLeft, MapThenFoldSet, Max

(* The touches of a request's prefix blocks as a fold.                     *)
LEMMA TouchesIsFold ==
    ASSUME NEW kv, NEW r, NEW ordinals
    PROVE  FoldLeft(LAMBDA p, i : MoveToEnd(p, Key(r, i)), kv, ordinals)
           = Touches!Fold(r, {}, kv, ordinals)
BY DEF Touches!Fold, TouchStep, Touches!Iter, Touches!Greatest,
       FoldLeft, MapThenFoldSet, Max

(* The reordering of a finished request's entries as a fold.               *)
LEMMA ReorderIsFold ==
    ASSUME NEW kv, NEW r
    PROVE  ReleaseOrder(kv, r)
           = Reorders!Fold(r, {}, kv, [j \in 1 .. Len(Content[r]) |-> Len(Content[r]) + 1 - j])
BY DEF ReleaseOrder, Reorders!Fold, ReorderStep, Reorders!Iter, Reorders!Greatest,
       FoldLeft, MapThenFoldSet, Max

(* The entries up to the k-th.                                             *)
UpTo(seq, k) == {seq[c] : c \in 1 .. k}

(* The elements up to a place, one place further.                          *)
LEMMA UpToOneMore ==
    ASSUME NEW seq, NEW k \in Nat
    PROVE  UpTo(seq, k + 1) = UpTo(seq, k) \cup {seq[k + 1]}
<1>1. 1 .. k + 1 = (1 .. k) \cup {k + 1} OBVIOUS
<1> QED BY <1>1 DEF UpTo

(* The entries of a list go, whatever their order.                         *)
LEMMA EvictAllOK ==
    ASSUME NEW kv, PlaneOK(kv), NEW entries \in Seq(Entries), Range(entries) \subseteq Range(kv.cache),
           \A c, d \in DOMAIN entries : entries[c] = entries[d] => c = d
    PROVE  LET p == FoldLeft(Evict, kv, [i \in DOMAIN entries |-> entries[i].key]) IN
           CacheStep(kv, p) /\ Range(p.cache) = Range(kv.cache) \ Range(entries)
<1> DEFINE n == Len(entries)
           keys == [i \in DOMAIN entries |-> entries[i].key]
           p(k) == KeyEvictions!Partial({}, {}, kv, keys, k)
           Good(k) == CacheStep(kv, p(k)) /\ Range(p(k).cache) = Range(kv.cache) \ UpTo(entries, k)
           G == {k \in 0 .. n : Good(k)}
<1>0. DOMAIN entries = 1 .. n /\ n \in Nat OBVIOUS
<1>1. /\ keys \in Seq(Keys) /\ Len(keys) = n
      /\ \A k \in 1 .. n : keys[k] = entries[k].key
  <2>0. \A k \in 1 .. n : entries[k] \in Entries BY <1>0
  <2>1. \A k \in 1 .. n : entries[k].key \in Keys BY <2>0 DEF Entries
  <2> QED BY <1>0, <2>1
<1> HIDE DEF keys
<1>ind. KeyEvictions!Inductive BY Induction DEF KeyEvictions!Inductive
<1>2. p(0) = kv /\ p(n) = KeyEvictions!Fold({}, {}, kv, keys)
  BY <1>1, KeyEvictions!FoldEnds, <1>ind
<1>3. ASSUME NEW k \in 0 .. n - 1 PROVE p(k + 1) = Evict(p(k), entries[k + 1].key)
  <2>1. p(k + 1) = EvictKeyStep({}, {}, p(k), keys[k + 1]) BY <1>1, KeyEvictions!FoldStep, <1>ind
  <2>2. k + 1 \in 1 .. n BY <1>0
  <2> QED BY <1>1, <2>1, <2>2 DEF EvictKeyStep
<1>4. 0 \in G
  <2>1. UpTo(entries, 0) = {} BY DEF UpTo
  <2>2. Good(0) BY <1>2, <2>1, CacheOnlyItself DEF CacheStep
  <2> QED BY <1>0, <2>2
<1> HIDE DEF p
<1>5. ASSUME NEW k \in G, k \in 0 .. n - 1 PROVE k + 1 \in G
  <2> DEFINE e == entries[k + 1]
             a == p(k)
             b == p(k + 1)
  <2>1. Good(k) /\ k \in Nat /\ k + 1 \in 1 .. n BY <1>0, <1>5
  <2>2. e \in Range(kv.cache) /\ \A c \in 1 .. k : entries[c] # e
    <3>1. e \in Range(entries) BY <1>0, <2>1 DEF Range
    <3>2. \A c \in 1 .. k : c \in DOMAIN entries /\ c # k + 1 BY <1>0, <2>1
    <3> QED BY <1>0, <2>1, <3>1, <3>2
  <2>3. UpTo(entries, k + 1) = UpTo(entries, k) \cup {e} BY <2>1, UpToOneMore
  <2>4. e \notin UpTo(entries, k) BY <2>2 DEF UpTo
  <2>5. b = Evict(a, e.key) BY <1>3, <1>5
  <2>6. PlaneOK(a) /\ e \in Range(a.cache) /\ CacheOnly(kv, a) BY <2>1, <2>2, <2>4 DEF CacheStep
  <2>7. CacheStep(a, b) /\ Range(b.cache) = Range(a.cache) \ {e}
    <3> HIDE DEF a, b, e
    <3> QED BY <2>5, <2>6, EvictEntry
  <2>8. CacheStep(kv, b)
    <3> HIDE DEF a, b
    <3> QED BY <2>6, <2>7, CacheOnlyTransitive DEF CacheStep
  <2>9. Good(k + 1) BY <2>1, <2>3, <2>7, <2>8
  <2> QED BY <2>9, <1>0, <1>5
<1>6. n \in G
  <2> HIDE DEF G
  <2>1. \A k \in 0 .. n : k \in G BY <1>0, <1>4, <1>5, Sums!PrefixInduction
  <2> QED BY <2>1, <1>0
<1>7. FoldLeft(Evict, kv, keys) = p(n) BY <1>2, KeyEvictionsIsFold DEF p
<1>8. UpTo(entries, n) = Range(entries) BY <1>0 DEF UpTo, Range
<1> QED BY <1>6, <1>7, <1>8 DEF keys

(* The first n blocks of a prompt are all cached: they become the newest.  *)
LEMMA TouchAllOK ==
    ASSUME NEW kv, PlaneOK(kv), NEW r \in Requests, NEW n \in Nat,
           \A i \in 1 .. n : Key(r, i) \in CacheKeys(kv)
    PROVE  LET p == FoldLeft(LAMBDA q, i : MoveToEnd(q, Key(r, i)), kv, [i \in 1 .. n |-> i]) IN
           CacheStep(kv, p) /\ Range(p.cache) = Range(kv.cache) /\ p.hot = kv.hot
<1> DEFINE ordinals == [i \in 1 .. n |-> i]
           p(k) == Touches!Partial(r, {}, kv, ordinals, k)
           Good(k) == CacheStep(kv, p(k)) /\ Range(p(k).cache) = Range(kv.cache) /\ p(k).hot = kv.hot
           G == {k \in 0 .. n : Good(k)}
<1>1. ordinals \in Seq(Nat) /\ Len(ordinals) = n /\ \A k \in 1 .. n : ordinals[k] = k OBVIOUS
<1> HIDE DEF ordinals
<1>ind. Touches!Inductive BY Induction DEF Touches!Inductive
<1>2. p(0) = kv /\ p(n) = Touches!Fold(r, {}, kv, ordinals) BY <1>1, Touches!FoldEnds, <1>ind
<1>3. ASSUME NEW k \in 0 .. n - 1 PROVE p(k + 1) = MoveToEnd(p(k), Key(r, k + 1)) /\ k + 1 \in 1 .. n
  <2>1. p(k + 1) = TouchStep(r, {}, p(k), ordinals[k + 1]) BY <1>1, Touches!FoldStep, <1>ind
  <2>2. k + 1 \in 1 .. n OBVIOUS
  <2> QED BY <1>1, <2>1, <2>2 DEF TouchStep
<1>4. 0 \in G
  <2>1. Good(0) BY <1>2, CacheOnlyItself DEF CacheStep
  <2> QED BY <2>1
<1> HIDE DEF p
<1>5. ASSUME NEW k \in G, k \in 0 .. n - 1 PROVE k + 1 \in G
  <2> DEFINE key == Key(r, k + 1)
             a == p(k)
             b == p(k + 1)
  <2>1. Good(k) BY <1>5
  <2>2. key \in CacheKeys(a)
    <3>1. CacheKeys(a) = CacheKeys(kv) BY <2>1, CacheKeysAre
    <3> QED BY <3>1, <1>3, <1>5
  <2>3. PlaneOK(a) /\ CacheOnly(kv, a) /\ b = MoveToEnd(a, key) BY <2>1, <1>3, <1>5 DEF CacheStep
  <2>4. CacheStep(a, b) /\ Range(b.cache) = Range(a.cache) /\ b.hot = a.hot
    <3> HIDE DEF a, b, key
    <3> QED BY <2>2, <2>3, MoveEntry
  <2>5. CacheStep(kv, b)
    <3> HIDE DEF a, b
    <3> QED BY <2>3, <2>4, CacheOnlyTransitive DEF CacheStep
  <2>6. Good(k + 1) BY <2>1, <2>4, <2>5
  <2> QED BY <2>6, <1>5
<1>6. n \in G
  <2> HIDE DEF G
  <2>1. \A k \in 0 .. n : k \in G BY <1>4, <1>5, Sums!PrefixInduction
  <2> QED BY <2>1
<1>7. FoldLeft(LAMBDA q, i : MoveToEnd(q, Key(r, i)), kv, ordinals) = p(n) BY <1>2, TouchesIsFold DEF p
<1> QED BY <1>6, <1>7 DEF ordinals

(* Putting a released request's entries in eviction order preserves the    *)
(* invariant and the entries.                                              *)
LEMMA ReleaseOrderOK ==
    ASSUME NEW kv, PlaneOK(kv), NEW r \in Requests
    PROVE  LET p == ReleaseOrder(kv, r) IN
           CacheStep(kv, p) /\ Range(p.cache) = Range(kv.cache) /\ p.hot = kv.hot
<1> DEFINE n == Len(Content[r])
           ordinals == [j \in 1 .. n |-> n + 1 - j]
           p(k) == Reorders!Partial(r, {}, kv, ordinals, k)
           Good(k) == CacheStep(kv, p(k)) /\ Range(p(k).cache) = Range(kv.cache) /\ p(k).hot = kv.hot
           G == {k \in 0 .. n : Good(k)}
<1>0. n \in Nat BY RequestsAssumption
<1>1. ordinals \in Seq(Int) /\ Len(ordinals) = n BY <1>0
<1> HIDE DEF ordinals
<1>ind. Reorders!Inductive BY Induction DEF Reorders!Inductive
<1>2. p(0) = kv /\ p(n) = Reorders!Fold(r, {}, kv, ordinals) BY <1>0, <1>1, Reorders!FoldEnds, <1>ind
<1>3. ASSUME NEW k \in 0 .. n - 1
      PROVE  \/ p(k + 1) = p(k)
             \/ \E i : Key(r, i) \in CacheKeys(p(k)) /\ p(k + 1) = MoveToEnd(p(k), Key(r, i))
  <2>1. p(k + 1) = ReorderStep(r, {}, p(k), ordinals[k + 1]) BY <1>0, <1>1, Reorders!FoldStep, <1>ind
  <2> QED BY <2>1 DEF ReorderStep
<1>4. 0 \in G
  <2>1. Good(0) BY <1>2, CacheOnlyItself DEF CacheStep
  <2> QED BY <1>0, <2>1
<1> HIDE DEF p
<1>5. ASSUME NEW k \in G, k \in 0 .. n - 1 PROVE k + 1 \in G
  <2> DEFINE a == p(k)
             b == p(k + 1)
  <2>1. Good(k) BY <1>5
  <2>2. CASE b = a
    <3>1. Good(k + 1) BY <2>1, <2>2
    <3> QED BY <3>1, <1>0, <1>5
  <2>3. CASE \E i : Key(r, i) \in CacheKeys(a) /\ b = MoveToEnd(a, Key(r, i))
    <3>1. PICK i : Key(r, i) \in CacheKeys(a) /\ b = MoveToEnd(a, Key(r, i)) BY <2>3
    <3>2. PlaneOK(a) /\ CacheOnly(kv, a) BY <2>1 DEF CacheStep
    <3>3. CacheStep(a, b) /\ Range(b.cache) = Range(a.cache) /\ b.hot = a.hot
      <4> HIDE DEF a, b
      <4> QED BY <3>1, <3>2, MoveEntry
    <3>4. CacheStep(kv, b)
      <4> HIDE DEF a, b
      <4> QED BY <3>2, <3>3, CacheOnlyTransitive DEF CacheStep
    <3>5. Good(k + 1) BY <2>1, <3>3, <3>4
    <3> QED BY <3>5, <1>0, <1>5
  <2> QED BY <2>2, <2>3, <1>3, <1>5
<1>6. n \in G
  <2> HIDE DEF G
  <2>1. \A k \in 0 .. n : k \in G BY <1>0, <1>4, <1>5, Sums!PrefixInduction
  <2> QED BY <2>1, <1>0
<1>7. ReleaseOrder(kv, r) = p(n) BY <1>2, ReorderIsFold DEF p, ordinals
<1> QED BY <1>6, <1>7

----------------------------------------------------------------------------
(* Publication of prompt blocks.                                           *)

PublishStep(r, x, kv, i) == PublishOne(kv, r, i, x[1], x[2])
Publications == INSTANCE FoldTheorems WITH Op <- PublishStep

(* The publication of a request's complete prompt blocks as a fold.        *)
LEMMA PublishIsFold ==
    ASSUME NEW kv, NEW r, NEW complete, NEW now, NEW pending
    PROVE  Publish(kv, r, complete, now, pending)
           = Publications!Fold(r, <<now, pending>>, Expire(kv, now),
                               [i \in 1 .. AtMost(complete, Len(Content[r])) |-> i])
BY DEF Publish, Publications!Fold, PublishStep, Publications!Iter, Publications!Greatest,
       FoldLeft, MapThenFoldSet, Max

(* An entry that stays, with other marks.                                  *)
Marked(e, now) == [e EXCEPT !.pending = FALSE, !.expires = ExpiresAt(now)]
Unmark(kv, key, now) ==
    [kv EXCEPT !.cache[IndexOf(kv, key)] = [@ EXCEPT !.pending = FALSE, !.expires = ExpiresAt(now)]]

(* A published entry that is complete is an entry with the same key and    *)
(* blocks.                                                                 *)
LEMMA MarkedIs ==
    ASSUME NEW e \in Entries, NEW now \in Int
    PROVE  Marked(e, now) \in Entries /\ Marked(e, now).key = e.key /\ Marked(e, now).blocks = e.blocks
<1>1. Ttl \in Nat BY SizesAssumption
<1>2. ExpiresAt(now) \in Int BY <1>1 DEF ExpiresAt, Never
<1> QED BY <1>2 DEF Marked, Entries

(* What the completion of a pending entry does to each field of the plane. *)
LEMMA UnmarkFields ==
    ASSUME NEW kv, FieldsOK(kv), NEW key, NEW now
    PROVE  LET p == Unmark(kv, key, now) IN
           /\ IsRecord(p)
           /\ p.cache = [kv.cache EXCEPT ![IndexOf(kv, key)] = Marked(kv.cache[IndexOf(kv, key)], now)]
           /\ p.hot = kv.hot
           /\ p.req = kv.req /\ p.cold = kv.cold /\ p.nextOrder = kv.nextOrder /\ p.pending = kv.pending
           /\ p.clock = kv.clock /\ p.batchId = kv.batchId
           /\ p.hotData = kv.hotData /\ p.coldData = kv.coldData
BY DEF Unmark, Marked, FieldsOK, IsRecord, Fields

(* The completion of a pending entry preserves the plane invariant.        *)
LEMMA UnmarkOK ==
    ASSUME NEW kv, PlaneOK(kv), NEW key \in CacheKeys(kv), NEW now \in Int
    PROVE  LET p == Unmark(kv, key, now) IN
           CacheStep(kv, p) /\ key \in CacheKeys(p) /\ p.hot = kv.hot
<1> DEFINE p == Unmark(kv, key, now)
           n == IndexOf(kv, key)
           e == EntryOf(kv, key)
           f == Marked(e, now)
<1>1. /\ FieldsOK(kv) /\ RequestsOK(kv) /\ CacheOK(kv) /\ HotCounted(kv)
      /\ ColdCounted(kv) /\ OrdersDiffer(kv) /\ CacheFits(kv)
  BY PlaneParts
<1>2. kv.cache \in Seq(Entries) /\ DistinctKeys(kv.cache) BY <1>1 DEF FieldsOK, CacheOK
<1>3. /\ n \in DOMAIN kv.cache /\ e = kv.cache[n] /\ e \in Range(kv.cache) /\ e \in Entries /\ e.key = key
  BY <1>2, EntryOfKey
<1>4. /\ IsRecord(p) /\ p.cache = [kv.cache EXCEPT ![n] = f] /\ p.hot = kv.hot
      /\ p.req = kv.req /\ p.cold = kv.cold /\ p.nextOrder = kv.nextOrder /\ p.pending = kv.pending
      /\ p.clock = kv.clock /\ p.batchId = kv.batchId
      /\ p.hotData = kv.hotData /\ p.coldData = kv.coldData
  BY <1>1, <1>3, UnmarkFields
<1>5. f \in Entries /\ f.key = e.key /\ f.blocks = e.blocks BY <1>3, MarkedIs
<1> HIDE DEF p, n, e, f
<1>6. /\ p.cache \in Seq(Entries) /\ Len(p.cache) = Len(kv.cache) /\ DOMAIN p.cache = DOMAIN kv.cache
  BY <1>2, <1>3, <1>4, <1>5
<1>7. \A c \in DOMAIN kv.cache : p.cache[c] = IF c = n THEN f ELSE kv.cache[c] BY <1>2, <1>4
<1>8. \A c \in DOMAIN kv.cache : p.cache[c].key = kv.cache[c].key /\ p.cache[c].blocks = kv.cache[c].blocks
  BY <1>3, <1>5, <1>7
<1>9. DistinctKeys(p.cache) BY <1>2, <1>6, <1>8 DEF DistinctKeys
<1>10. /\ \A x \in Range(p.cache) : \E y \in Range(kv.cache) : x.key = y.key /\ x.blocks = y.blocks
       /\ \A y \in Range(kv.cache) : \E x \in Range(p.cache) : x.key = y.key /\ x.blocks = y.blocks
  BY <1>6, <1>8 DEF Range
<1>11. RequestsOK(p) /\ (\A b : Readers(p, b) = Readers(kv, b))
      /\ (\A b : ColdOwned(p, b) <=> ColdOwned(kv, b))
      /\ (\A g : ReadsItsKey(p, g) <=> ReadsItsKey(kv, g))
      /\ OrdersDiffer(p)
  BY <1>1, <1>4, RequestsKept
<1>12. ASSUME NEW g \in Range(p.cache) PROVE ReadsItsKey(p, g)
  <2>1. PICK y \in Range(kv.cache) : g.key = y.key /\ g.blocks = y.blocks BY <1>10
  <2>2. ReadsItsKey(kv, y) BY <1>1 DEF CacheOK
  <2>3. ReadsItsKey(kv, g) BY <2>1, <2>2 DEF ReadsItsKey
  <2> QED BY <2>3, <1>11
<1>13. EntriesApart(Range(p.cache))
  <2> SUFFICES ASSUME NEW c \in DOMAIN p.cache, NEW d \in DOMAIN p.cache,
                      NEW l \in 1 .. Layers, NEW m \in 1 .. Layers,
                      p.cache[c].blocks[l] = p.cache[d].blocks[m]
               PROVE  p.cache[c] = p.cache[d] /\ l = m
      BY DEF EntriesApart, Range
  <2>1. kv.cache[c] \in Range(kv.cache) /\ kv.cache[d] \in Range(kv.cache) BY <1>6 DEF Range
  <2>2. kv.cache[c].blocks[l] = kv.cache[d].blocks[m] BY <1>6, <1>8
  <2>3. kv.cache[c] = kv.cache[d] /\ l = m BY <2>1, <2>2, <1>1 DEF CacheOK, EntriesApart
  <2>4. c = d BY <2>3, <1>2, <1>6 DEF DistinctKeys
  <2> QED BY <2>3, <2>4
<1>14. CacheOK(p) BY <1>9, <1>12, <1>13 DEF CacheOK
<1>15. \A b : InCache(p, b) = InCache(kv, b)
  <2>1. \A b : Caches(Range(p.cache), b) <=> Caches(Range(kv.cache), b) BY <1>10 DEF Caches
  <2> QED BY <2>1 DEF InCache
<1>16. HotCounted(p) BY <1>1, <1>4, <1>11, <1>15 DEF HotCounted
<1>17. ColdCounted(p) BY <1>1, <1>4, <1>11 DEF ColdCounted
<1>18. CacheFits(p) BY <1>1, <1>6 DEF CacheFits
<1>19. FieldsOK(p) BY <1>1, <1>4, <1>6 DEF FieldsOK
<1>20. PlaneOK(p) BY <1>11, <1>14, <1>16, <1>17, <1>18, <1>19, PlaneParts
<1>21. CacheStep(kv, p) BY <1>4, <1>20 DEF CacheStep, CacheOnly
<1>22. key \in CacheKeys(p)
  <2>1. n \in DOMAIN p.cache /\ p.cache[n].key = key BY <1>3, <1>6, <1>8
  <2> QED BY <2>1 DEF CacheKeys
<1> QED BY <1>4, <1>21, <1>22 DEF p

(* Block i of request r as a new entry.                                    *)
NewEntry(kv, r, i, now, pending) ==
    [key |-> Key(r, i), blocks |-> kv.req[r].table[i], pending |-> pending,
     expires |-> IF pending THEN Never ELSE ExpiresAt(now)]
Insert(kv, r, i, now, pending) ==
    [kv EXCEPT !.hot = Retained(@, Range(kv.req[r].table[i])),
               !.cache = Append(@, NewEntry(kv, r, i, now, pending))]

(* What the insertion of an entry does to each field of the plane.         *)
LEMMA InsertFields ==
    ASSUME NEW kv, FieldsOK(kv), NEW r, NEW i, NEW now, NEW pending
    PROVE  LET p == Insert(kv, r, i, now, pending) IN
           /\ IsRecord(p)
           /\ p.cache = Append(kv.cache, NewEntry(kv, r, i, now, pending))
           /\ p.hot = Retained(kv.hot, Range(kv.req[r].table[i]))
           /\ p.req = kv.req /\ p.cold = kv.cold /\ p.nextOrder = kv.nextOrder /\ p.pending = kv.pending
           /\ p.clock = kv.clock /\ p.batchId = kv.batchId
           /\ p.hotData = kv.hotData /\ p.coldData = kv.coldData
BY DEF Insert, FieldsOK, IsRecord, Fields

(* The blocks of a row of a hot request's table are hot blocks it reads.   *)
LEMMA TableRow ==
    ASSUME NEW kv, RequestsOK(kv), NEW r \in Live(kv), IsHot(kv, r), NEW i \in DOMAIN kv.req[r].table
    PROVE  /\ kv.req[r].table[i] \in HotRows
           /\ \A b \in Range(kv.req[r].table[i]) :
                 b \in HotBlocks /\ b \in TableBlocks(kv.req[r].table) /\ r \in Readers(kv, b)
           /\ \A b \in Range(kv.req[r].table[i]) : \E l \in 1 .. Layers : kv.req[r].table[i][l] = b
<1>1. kv.req[r].table \in Seq(HotRows) BY DEF RequestsOK
<1>2. kv.req[r].table[i] \in HotRows BY <1>1
<1>3. DOMAIN kv.req[r].table[i] = 1 .. Layers BY <1>2 DEF HotRows
<1>4. ASSUME NEW b \in Range(kv.req[r].table[i])
      PROVE  b \in HotBlocks /\ b \in TableBlocks(kv.req[r].table) /\ \E l \in 1 .. Layers : kv.req[r].table[i][l] = b
  <2>1. PICK l \in 1 .. Layers : kv.req[r].table[i][l] = b BY <1>3 DEF Range
  <2>2. b \in HotBlocks BY <2>1, <1>2 DEF HotRows
  <2> QED BY <2>1, <2>2 DEF TableBlocks
<1> QED BY <1>2, <1>4 DEF Readers

(* A new entry for a hot request's block preserves the plane invariant     *)
(* when the cache has room.                                                *)
LEMMA InsertOK ==
    ASSUME NEW kv, PlaneOK(kv), NEW r \in Live(kv), IsHot(kv, r),
           NEW i \in DOMAIN kv.req[r].table, i \in 1 .. Len(Content[r]),
           NEW now \in Int, NEW pending \in BOOLEAN,
           Key(r, i) \notin CacheKeys(kv), Len(kv.cache) + 1 <= CacheBlocks \div Layers
    PROVE  CacheStep(kv, Insert(kv, r, i, now, pending))
<1> DEFINE p == Insert(kv, r, i, now, pending)
           e == NewEntry(kv, r, i, now, pending)
           row == kv.req[r].table[i]
<1>1. /\ FieldsOK(kv) /\ RequestsOK(kv) /\ CacheOK(kv) /\ HotCounted(kv)
      /\ ColdCounted(kv) /\ OrdersDiffer(kv) /\ CacheFits(kv)
  BY PlaneParts
<1>2. kv.cache \in Seq(Entries) /\ DistinctKeys(kv.cache) BY <1>1 DEF FieldsOK, CacheOK
<1>3. /\ row \in HotRows
      /\ \A b \in Range(row) : b \in HotBlocks /\ r \in Readers(kv, b)
      /\ \A b \in Range(row) : \E l \in 1 .. Layers : row[l] = b
  <2>1. /\ kv.req[r].table[i] \in HotRows
        /\ \A b \in Range(kv.req[r].table[i]) :
              b \in HotBlocks /\ b \in TableBlocks(kv.req[r].table) /\ r \in Readers(kv, b)
        /\ \A b \in Range(kv.req[r].table[i]) : \E l \in 1 .. Layers : kv.req[r].table[i][l] = b
    <3>1. RequestsOK(kv) BY <1>1
    <3> HIDE DEF row, p, e
    <3> QED BY ONLY <3>1, TableRow, r \in Live(kv), IsHot(kv, r), i \in DOMAIN kv.req[r].table
  <2> QED BY <2>1
<1>4. r \in Requests BY <1>1 DEF RequestsOK
<1>5. e.key = Key(r, i) /\ e.blocks = row BY DEF NewEntry
<1>6. e \in Entries
  <2>1. Key(r, i) \in Keys BY <1>4 DEF Keys
  <2>2. Ttl \in Nat BY SizesAssumption
  <2>3. (IF pending THEN Never ELSE ExpiresAt(now)) \in Int BY <2>2 DEF ExpiresAt, Never
  <2> QED BY <1>3, <2>1, <2>3 DEF NewEntry, Entries
<1>7. /\ IsRecord(p) /\ p.cache = Append(kv.cache, e) /\ p.hot = Retained(kv.hot, Range(row))
      /\ p.req = kv.req /\ p.cold = kv.cold /\ p.nextOrder = kv.nextOrder /\ p.pending = kv.pending
      /\ p.clock = kv.clock /\ p.batchId = kv.batchId
      /\ p.hotData = kv.hotData /\ p.coldData = kv.coldData
  BY <1>1, InsertFields
<1> HIDE DEF p, e, row
<1>8. \A f \in Range(kv.cache) : f.key # e.key BY <1>5, CacheKeysAre
<1>9. /\ p.cache \in Seq(Entries) /\ Len(p.cache) = Len(kv.cache) + 1
      /\ Range(p.cache) = Range(kv.cache) \cup {e} /\ DistinctKeys(p.cache)
  BY <1>2, <1>6, <1>7, <1>8, AppendedKeys
<1>10. RequestsOK(p) /\ (\A b : Readers(p, b) = Readers(kv, b))
      /\ (\A b : ColdOwned(p, b) <=> ColdOwned(kv, b))
      /\ (\A g : ReadsItsKey(p, g) <=> ReadsItsKey(kv, g))
      /\ OrdersDiffer(p)
  BY <1>1, <1>7, RequestsKept
<1>11. ASSUME NEW f \in Range(kv.cache), NEW l \in 1 .. Layers, NEW m \in 1 .. Layers
       PROVE  row[l] # f.blocks[m]
  <2>1. ReadsItsKey(kv, f) BY <1>1 DEF CacheOK
  <2>2. row[l] = f.blocks[m] => NamesKey(r, i, f.key) BY <2>1 DEF ReadsItsKey, row
  <2> QED BY <2>2, <1>5, <1>8 DEF NamesKey
<1>12. \A l, m \in 1 .. Layers : row[l] = row[m] => l = m
  BY <1>1 DEF RequestsOK, TablesDistinct, Distinct, row
<1>13. EntriesApart(Range(p.cache))
  <2> SUFFICES ASSUME NEW x \in Range(kv.cache) \cup {e}, NEW y \in Range(kv.cache) \cup {e},
                      NEW l \in 1 .. Layers, NEW m \in 1 .. Layers, x.blocks[l] = y.blocks[m]
               PROVE  x = y /\ l = m
      BY <1>9 DEF EntriesApart
  <2>1. CASE x \in Range(kv.cache) /\ y \in Range(kv.cache) BY <2>1, <1>1 DEF CacheOK, EntriesApart
  <2>2. CASE x = e /\ y \in Range(kv.cache) BY <2>2, <1>5, <1>11
  <2>3. CASE y = e /\ x \in Range(kv.cache) BY <2>3, <1>5, <1>11
  <2>4. CASE x = e /\ y = e BY <2>4, <1>5, <1>12
  <2> QED BY <2>1, <2>2, <2>3, <2>4
<1>14. ReadsItsKey(kv, e)
  <2> SUFFICES ASSUME NEW s \in Live(kv), IsHot(kv, s), NEW j \in DOMAIN kv.req[s].table,
                      NEW l \in 1 .. Layers, NEW m \in 1 .. Layers, kv.req[s].table[j][l] = row[m]
               PROVE  l = m /\ NamesKey(s, j, Key(r, i))
      BY <1>5 DEF ReadsItsKey
  <2>1. CASE s = r
    <3>1. j = i /\ l = m BY <2>1, <1>1 DEF RequestsOK, TablesDistinct, Distinct, row
    <3> QED BY <2>1, <3>1 DEF NamesKey
  <2>2. CASE s # r
    <3>1. SharedByKey(kv) BY <1>1 DEF RequestsOK
    <3>2. kv.req[r].table[i][m] = kv.req[s].table[j][l] BY DEF row
    <3>3. m = l /\ NamesKey(s, j, Key(r, i)) BY <2>2, <3>1, <3>2 DEF SharedByKey
    <3> QED BY <3>3
  <2> QED BY <2>1, <2>2
<1>15. CacheOK(p) BY <1>1, <1>9, <1>10, <1>13, <1>14 DEF CacheOK
<1>16. kv.hot \in [HotBlocks -> Nat] BY <1>1 DEF FieldsOK
<1>17. \A b \in HotBlocks : p.hot[b] = IF b \in Range(row) THEN kv.hot[b] + 1 ELSE kv.hot[b]
  BY <1>7, <1>16 DEF Retained
<1>18. p.hot \in [HotBlocks -> Nat]
  <2>1. p.hot = [b \in HotBlocks |-> p.hot[b]] BY <1>7, <1>16 DEF Retained
  <2>2. \A b \in HotBlocks : p.hot[b] \in Nat BY <1>16, <1>17
  <2> QED BY <2>1, <2>2
<1>19. ASSUME NEW b \in HotBlocks PROVE p.hot[b] = Cardinality(Readers(p, b)) + InCache(p, b)
  <2>1. kv.hot[b] = Cardinality(Readers(kv, b)) + InCache(kv, b) BY <1>1 DEF HotCounted
  <2>2. Cardinality(Readers(kv, b)) \in Nat BY <1>1, ReadersFinite
  <2>3. CASE b \in Range(row)
    <3>1. InCache(p, b) = 1 BY <2>3, <1>5, <1>9 DEF InCache, Caches
    <3>2. ASSUME NEW f \in Range(kv.cache) PROVE b \notin Range(f.blocks)
      <4>0. f \in Entries BY <1>2 DEF Range
      <4>1. f.blocks \in HotRows BY <4>0 DEF Entries
      <4>2. PICK l \in 1 .. Layers : row[l] = b BY <2>3, <1>3
      <4>3. ASSUME b \in Range(f.blocks) PROVE FALSE
        <5>1. PICK m \in 1 .. Layers : f.blocks[m] = b BY <4>1, <4>3 DEF Range, HotRows
        <5> QED BY <4>2, <5>1, <1>11
      <4> QED BY <4>3
    <3>3. InCache(kv, b) = 0 BY <3>2 DEF InCache, Caches
    <3> QED BY <2>1, <2>2, <2>3, <3>1, <3>3, <1>10, <1>17
  <2>4. CASE b \notin Range(row)
    <3>1. Caches(Range(p.cache), b) <=> Caches(Range(kv.cache), b) BY <2>4, <1>5, <1>9 DEF Caches
    <3> QED BY <2>1, <2>4, <3>1, <1>10, <1>17 DEF InCache
  <2> QED BY <2>3, <2>4
<1>20. FieldsOK(p) BY <1>1, <1>7, <1>9, <1>18 DEF FieldsOK
<1>21. ColdCounted(p) BY <1>1, <1>7, <1>10 DEF ColdCounted
<1>22. CacheFits(p) BY <1>9 DEF CacheFits
<1>23. PlaneOK(p) BY <1>10, <1>15, <1>19, <1>20, <1>21, <1>22, PlaneParts DEF HotCounted
<1>24. Free(kv.hot) \subseteq Free(p.hot)
  <2> SUFFICES ASSUME NEW b \in Free(kv.hot) PROVE b \in Free(p.hot) OBVIOUS
  <2>1. b \in HotBlocks /\ kv.hot[b] = 0 BY <1>16 DEF Free
  <2>2. b \notin Range(row)
    <3>1. ASSUME b \in Range(row) PROVE FALSE
      <4>1. r \in Readers(kv, b) BY <3>1, <1>3
      <4>2. IsFiniteSet(Readers(kv, b)) /\ Cardinality(Readers(kv, b)) \in Nat BY <1>1, ReadersFinite
      <4>3. Cardinality(Readers(kv, b)) # 0 BY <4>1, <4>2, FS_EmptySet
      <4>4. kv.hot[b] = Cardinality(Readers(kv, b)) + InCache(kv, b) BY <1>1, <2>1 DEF HotCounted
      <4>5. InCache(kv, b) \in Nat BY DEF InCache
      <4> QED BY <2>1, <4>2, <4>3, <4>4, <4>5
    <3> QED BY <3>1
  <2>3. p.hot[b] = 0 BY <2>1, <2>2, <1>17
  <2> QED BY <2>1, <2>3, <1>18 DEF Free
<1>25. CacheStep(kv, p) BY <1>7, <1>23, <1>24 DEF CacheStep, CacheOnly
<1> QED BY <1>25 DEF p

(* The publication of one prompt block, with the eviction that makes room  *)
(* for it, preserves the plane invariant.                                  *)
LEMMA PublishOneOK ==
    ASSUME NEW kv, PlaneOK(kv), NEW r \in Live(kv), IsHot(kv, r),
           NEW i \in DOMAIN kv.req[r].table, i \in 1 .. Len(Content[r]),
           NEW now \in Int, NEW pending \in BOOLEAN,
           NEW p, p = PublishOne(kv, r, i, now, pending)
    PROVE  CacheStep(kv, p)
<1> DEFINE key == Key(r, i)
           q == CacheBlocks \div Layers
           n == Len(kv.cache)
           surplus == Positive(n + 1 - q)
           roomy == EvictOldest(kv, surplus)
<1>1. kv.cache \in Seq(Entries) BY PlaneParts DEF FieldsOK
<1>2. n \in Nat /\ q \in Nat /\ n <= q
  <2>1. n <= q BY PlaneParts DEF CacheFits
  <2>2. q \in Nat BY SizesAssumption
  <2> QED BY <1>1, <2>1, <2>2
<1>3. CASE key \in CacheKeys(kv)
  <2>1. CASE EntryOf(kv, key).pending /\ ~pending
    <3> DEFINE u == Unmark(kv, key, now)
    <3>1. p = MoveToEnd(u, key) BY <1>3, <2>1 DEF PublishOne, Unmark
    <3>2. CacheStep(kv, u) /\ key \in CacheKeys(u)
      <4> HIDE DEF key
      <4> QED BY <1>3, UnmarkOK
    <3> HIDE DEF u, key
    <3>3. CacheStep(u, p) BY <3>1, <3>2, MoveEntry DEF CacheStep
    <3> QED BY <3>2, <3>3, CacheOnlyTransitive DEF CacheStep
  <2>2. CASE ~(EntryOf(kv, key).pending /\ ~pending)
    <3>1. p = MoveToEnd(kv, key) BY <1>3, <2>2 DEF PublishOne
    <3> HIDE DEF key
    <3> QED BY <1>3, <3>1, MoveEntry
  <2> QED BY <2>1, <2>2
<1>4. CASE key \notin CacheKeys(kv) /\ Layers > CacheBlocks
  <2>1. p = kv BY <1>4 DEF PublishOne
  <2> QED BY <2>1, CacheOnlyItself DEF CacheStep
<1>5. CASE key \notin CacheKeys(kv) /\ ~(Layers > CacheBlocks)
  <2>1. q >= 1
    <3>1. Layers \in Nat \ {0} /\ CacheBlocks \in Nat /\ Layers <= CacheBlocks BY <1>5, SizesAssumption
    <3> QED BY <3>1
  <2>2. surplus \in 0 .. n /\ (n - surplus) + 1 <= q /\ n - surplus \in Nat
    <3> HIDE DEF n, q
    <3> QED BY <1>2, <2>1 DEF Positive
  <2>3. CacheStep(kv, roomy) /\ Len(roomy.cache) = n - surplus /\ Range(roomy.cache) \subseteq Range(kv.cache)
    <3> HIDE DEF surplus
    <3> QED BY <2>2, EvictOldestOK
  <2>4. roomy.req = kv.req BY <2>3 DEF CacheStep, CacheOnly
  <2>5. r \in Live(roomy) /\ IsHot(roomy, r) /\ i \in DOMAIN roomy.req[r].table
    <3> HIDE DEF roomy
    <3> QED BY <2>4 DEF Live, IsHot
  <2>6. Key(r, i) \notin CacheKeys(roomy)
    <3> HIDE DEF roomy
    <3> QED BY <1>5, <2>3, CacheKeysAre
  <2>7. p = Insert(roomy, r, i, now, pending)
    <3>1. roomy.req[r].table[i] = kv.req[r].table[i] BY <2>4
    <3>2. p = [roomy EXCEPT
                !.hot = Retained(@, Range(kv.req[r].table[i])),
                !.cache = Append(@, [key |-> key, blocks |-> kv.req[r].table[i], pending |-> pending,
                                     expires |-> IF pending THEN Never ELSE ExpiresAt(now)])]
      BY <1>5 DEF PublishOne
    <3> HIDE DEF roomy
    <3> QED BY <3>1, <3>2 DEF Insert, NewEntry
  <2>8. PlaneOK(roomy) /\ Len(roomy.cache) + 1 <= CacheBlocks \div Layers BY <2>2, <2>3 DEF CacheStep
  <2> HIDE DEF roomy, key
  <2>9. CacheStep(roomy, p) BY <2>5, <2>6, <2>7, <2>8, InsertOK
  <2> QED BY <2>3, <2>9, CacheOnlyTransitive DEF CacheStep
<1> QED BY <1>3, <1>4, <1>5

(* The publication of all complete prompt blocks (PrefixCache.publish)     *)
(* preserves the plane invariant.                                          *)
THEOREM PublishOK ==
    ASSUME NEW kv, PlaneOK(kv), NEW r \in Live(kv), IsHot(kv, r),
           NEW complete \in Nat, complete <= Len(kv.req[r].table),
           NEW now \in Int, NEW pending \in BOOLEAN
    PROVE  CacheStep(kv, Publish(kv, r, complete, now, pending))
<1> DEFINE n == AtMost(complete, Len(Content[r]))
           ordinals == [i \in 1 .. n |-> i]
           start == Expire(kv, now)
           p(k) == Publications!Partial(r, <<now, pending>>, start, ordinals, k)
           G == {k \in 0 .. n : CacheStep(kv, p(k))}
<1>0. r \in Requests /\ kv.req[r].table \in Seq(HotRows)
  BY PlaneParts DEF RequestsOK
<1>1. Len(Content[r]) \in Nat BY <1>0, RequestsAssumption
<1>2. n \in Nat /\ n <= complete /\ n <= Len(Content[r]) BY <1>1 DEF AtMost
<1>3. \A k \in 1 .. n : k \in DOMAIN kv.req[r].table /\ k \in 1 .. Len(Content[r])
  <2>1. DOMAIN kv.req[r].table = 1 .. Len(kv.req[r].table) /\ Len(kv.req[r].table) \in Nat BY <1>0
  <2> HIDE DEF n
  <2> QED BY <1>1, <1>2, <2>1
<1> HIDE DEF n
<1>4. ordinals \in Seq(Nat) /\ Len(ordinals) = n /\ \A k \in 1 .. n : ordinals[k] = k BY <1>2
<1> HIDE DEF ordinals
<1>ind. Publications!Inductive BY Induction DEF Publications!Inductive
<1>5. p(0) = start /\ p(n) = Publications!Fold(r, <<now, pending>>, start, ordinals)
  BY <1>4, Publications!FoldEnds, <1>ind
<1>6. CacheStep(kv, start) BY ExpireOK
<1>7. ASSUME NEW k \in 0 .. n - 1
      PROVE  p(k + 1) = PublishOne(p(k), r, k + 1, now, pending) /\ k + 1 \in 1 .. n
  <2>1. p(k + 1) = PublishStep(r, <<now, pending>>, p(k), ordinals[k + 1])
    BY <1>4, Publications!FoldStep, <1>ind
  <2>2. k + 1 \in 1 .. n BY <1>2
  <2> QED BY <1>4, <2>1, <2>2 DEF PublishStep
<1>8. 0 \in G BY <1>2, <1>5, <1>6
<1> HIDE DEF p, start
<1>9. ASSUME NEW k \in G, k \in 0 .. n - 1 PROVE k + 1 \in G
  <2> DEFINE a == p(k)
             b == p(k + 1)
             i == k + 1
  <2>1. PlaneOK(a) /\ CacheOnly(kv, a) BY <1>9 DEF CacheStep
  <2>2. b = PublishOne(a, r, i, now, pending) /\ i \in DOMAIN kv.req[r].table /\ i \in 1 .. Len(Content[r])
    BY <1>3, <1>7, <1>9
  <2> HIDE DEF a, b, i
  <2>3. a.req = kv.req BY <2>1 DEF CacheOnly
  <2>4. r \in Live(a) /\ IsHot(a, r) /\ i \in DOMAIN a.req[r].table
    BY <2>2, <2>3 DEF Live, IsHot
  <2>5. CacheStep(a, b) BY <2>1, <2>2, <2>4, PublishOneOK
  <2>6. CacheStep(kv, b) BY <2>1, <2>5, CacheOnlyTransitive DEF CacheStep
  <2> QED BY <2>6, <1>2, <1>9 DEF b
<1>10. n \in G
  <2> HIDE DEF G
  <2>1. \A k \in 0 .. n : k \in G BY <1>2, <1>8, <1>9, Sums!PrefixInduction
  <2> QED BY <2>1, <1>2
<1>11. Publish(kv, r, complete, now, pending) = p(n) BY <1>5, PublishIsFold DEF p, start, ordinals, n
<1> QED BY <1>10, <1>11

----------------------------------------------------------------------------
(* The hot and the cold side of the invariant.                             *)

(* The two pools' sides of the invariant, request by request: a request    *)
(* outside a pool has an empty table there.                                *)
HotTable(kv, r)  == IF r \in Live(kv) /\ IsHot(kv, r) THEN kv.req[r].table ELSE <<>>
ColdTable(kv, r) == IF r \in Live(kv) /\ ~IsHot(kv, r) THEN kv.req[r].table ELSE <<>>
HotReaders(kv, b) == {r \in Requests : b \in TableBlocks(HotTable(kv, r))}

Shared(r, T, s, U) ==
    \A i \in DOMAIN T : \A j \in DOMAIN U : \A l, m \in 1 .. Layers :
        T[i][l] = U[j][m] => l = m /\ i \in 1 .. Len(Content[r]) /\ NamesKey(s, j, Key(r, i))
Reads(r, T, e) ==
    \A i \in DOMAIN T : \A l, m \in 1 .. Layers :
        T[i][l] = e.blocks[m] => l = m /\ NamesKey(r, i, e.key)

HotSide(kv) ==
    /\ kv.hot \in [HotBlocks -> Nat]
    /\ \A r \in Requests : HotTable(kv, r) \in Seq(HotRows) /\ Distinct(HotTable(kv, r))
    /\ \A r, s \in Requests : r # s => Shared(r, HotTable(kv, r), s, HotTable(kv, s))
    /\ \A e \in Range(kv.cache) : \A r \in Requests : Reads(r, HotTable(kv, r), e)
    /\ \A b \in HotBlocks : kv.hot[b] = Cardinality(HotReaders(kv, b)) + InCache(kv, b)
ColdSide(kv) ==
    /\ kv.cold \in [ColdBlocks -> Nat]
    /\ \A r \in Requests : ColdTable(kv, r) \in Seq(ColdRows) /\ Distinct(ColdTable(kv, r))
    /\ \A r, s \in Requests :
          r # s => TableBlocks(ColdTable(kv, r)) \cap TableBlocks(ColdTable(kv, s)) = {}
    /\ \A b \in ColdBlocks :
          kv.cold[b] = IF \E r \in Requests : b \in TableBlocks(ColdTable(kv, r)) THEN 1 ELSE 0
Rest(kv) ==
    /\ IsRecord(kv) /\ kv.nextOrder \in Nat /\ kv.clock \in Nat /\ kv.batchId \in Nat
    /\ Live(kv) \subseteq Requests /\ kv.req \in [Live(kv) -> States]
    /\ kv.cache \in Seq(Entries) /\ DistinctKeys(kv.cache) /\ EntriesApart(Range(kv.cache))
    /\ OrdersDiffer(kv) /\ CacheFits(kv)

(* An empty block table shares and reads nothing.                          *)
LEMMA EmptyTable ==
    /\ TableBlocks(<<>>) = {} /\ Distinct(<<>>) /\ \A X : <<>> \in Seq(X)
    /\ \A r, s, U : Shared(r, <<>>, s, U) /\ Shared(s, U, r, <<>>)
    /\ \A r, e : Reads(r, <<>>, e)
<1>1. DOMAIN <<>> = {} OBVIOUS
<1>2. TableBlocks(<<>>) = {} BY <1>1 DEF TableBlocks
<1>3. Distinct(<<>>) BY <1>1 DEF Distinct
<1>4. \A r, s, U : Shared(r, <<>>, s, U) /\ Shared(s, U, r, <<>>) BY <1>1 DEF Shared
<1>5. \A r, e : Reads(r, <<>>, e) BY <1>1 DEF Reads
<1>6. \A X : <<>> \in Seq(X) OBVIOUS
<1> QED BY <1>2, <1>3, <1>4, <1>5, <1>6

(* The plane invariant splits into a hot side, a cold side and the rest.   *)
LEMMA SidesAre ==
    ASSUME NEW kv, Live(kv) \subseteq Requests
    PROVE  PlaneOK(kv) <=> Rest(kv) /\ HotSide(kv) /\ ColdSide(kv)
<1>1. \A b : HotReaders(kv, b) = Readers(kv, b)
  <2>1. ASSUME NEW b, NEW r \in HotReaders(kv, b) PROVE r \in Readers(kv, b)
    <3>1. r \in Live(kv) /\ IsHot(kv, r) BY <2>1, EmptyTable DEF HotReaders, HotTable
    <3> QED BY <2>1, <3>1 DEF HotReaders, HotTable, Readers
  <2>2. ASSUME NEW b, NEW r \in Readers(kv, b) PROVE r \in HotReaders(kv, b)
    BY DEF HotReaders, HotTable, Readers
  <2> QED BY <2>1, <2>2
<1>2. ASSUME NEW b
      PROVE  ColdOwned(kv, b) <=> \E r \in Requests : b \in TableBlocks(ColdTable(kv, r))
  <2>1. ASSUME NEW r \in Requests, b \in TableBlocks(ColdTable(kv, r)) PROVE ColdOwned(kv, b)
    <3>1. r \in Live(kv) /\ ~IsHot(kv, r) BY <2>1, EmptyTable DEF ColdTable
    <3> QED BY <2>1, <3>1 DEF ColdTable, ColdOwned
  <2>2. ASSUME NEW r \in Live(kv), ~IsHot(kv, r), b \in TableBlocks(kv.req[r].table)
        PROVE  \E s \in Requests : b \in TableBlocks(ColdTable(kv, s))
    BY <2>2 DEF ColdTable
  <2> QED BY <2>1, <2>2 DEF ColdOwned
<1>3. (\A r \in Requests : /\ HotTable(kv, r) \in Seq(HotRows) /\ Distinct(HotTable(kv, r))
                           /\ ColdTable(kv, r) \in Seq(ColdRows) /\ Distinct(ColdTable(kv, r)))
      <=> (\A r \in Live(kv) : kv.req[r].table \in Seq(IF IsHot(kv, r) THEN HotRows ELSE ColdRows))
          /\ TablesDistinct(kv)
  <2>1. ASSUME NEW r \in Live(kv), IsHot(kv, r)
        PROVE  HotTable(kv, r) = kv.req[r].table /\ ColdTable(kv, r) = <<>>
    BY <2>1 DEF HotTable, ColdTable
  <2>2. ASSUME NEW r \in Live(kv), ~IsHot(kv, r)
        PROVE  ColdTable(kv, r) = kv.req[r].table /\ HotTable(kv, r) = <<>>
    BY <2>2 DEF HotTable, ColdTable
  <2>3. ASSUME NEW r \in Requests, r \notin Live(kv) PROVE ColdTable(kv, r) = <<>> /\ HotTable(kv, r) = <<>>
    BY <2>3 DEF HotTable, ColdTable
  <2> QED BY <2>1, <2>2, <2>3, EmptyTable DEF TablesDistinct
<1>4. (\A r, s \in Requests : r # s => Shared(r, HotTable(kv, r), s, HotTable(kv, s))) <=> SharedByKey(kv)
  <2>1. ASSUME SharedByKey(kv), NEW r \in Requests, NEW s \in Requests, r # s
        PROVE  Shared(r, HotTable(kv, r), s, HotTable(kv, s))
    <3>1. CASE r \in Live(kv) /\ IsHot(kv, r) /\ s \in Live(kv) /\ IsHot(kv, s)
      BY <2>1, <3>1 DEF SharedByKey, Shared, HotTable
    <3>2. CASE ~(r \in Live(kv) /\ IsHot(kv, r))
      <4>1. HotTable(kv, r) = <<>> BY <3>2 DEF HotTable
      <4> QED BY <4>1, EmptyTable
    <3>3. CASE ~(s \in Live(kv) /\ IsHot(kv, s))
      <4>1. HotTable(kv, s) = <<>> BY <3>3 DEF HotTable
      <4> QED BY <4>1, EmptyTable
    <3> QED BY <3>1, <3>2, <3>3
  <2>2. ASSUME \A r, s \in Requests : r # s => Shared(r, HotTable(kv, r), s, HotTable(kv, s)) PROVE SharedByKey(kv)
    <3> SUFFICES ASSUME NEW r \in Live(kv), NEW s \in Live(kv), r # s, IsHot(kv, r), IsHot(kv, s)
                 PROVE  Shared(r, kv.req[r].table, s, kv.req[s].table)
        BY DEF SharedByKey, Shared
    <3>1. HotTable(kv, r) = kv.req[r].table /\ HotTable(kv, s) = kv.req[s].table BY DEF HotTable
    <3> QED BY <2>2, <3>1
  <2> QED BY <2>1, <2>2
<1>5. (\A r, s \in Requests : r # s => TableBlocks(ColdTable(kv, r)) \cap TableBlocks(ColdTable(kv, s)) = {})
      <=> ColdApart(kv)
  <2>1. \A r \in Requests : r \in Live(kv) /\ ~IsHot(kv, r) => ColdTable(kv, r) = kv.req[r].table BY DEF ColdTable
  <2>2. \A r \in Requests : ~(r \in Live(kv) /\ ~IsHot(kv, r)) => TableBlocks(ColdTable(kv, r)) = {}
    BY EmptyTable DEF ColdTable
  <2> QED BY <2>1, <2>2 DEF ColdApart
<1>6. (\A e \in Range(kv.cache) : \A r \in Requests : Reads(r, HotTable(kv, r), e))
      <=> \A e \in Range(kv.cache) : ReadsItsKey(kv, e)
  <2>1. ASSUME NEW e, ReadsItsKey(kv, e), NEW r \in Requests PROVE Reads(r, HotTable(kv, r), e)
    <3>1. CASE r \in Live(kv) /\ IsHot(kv, r) BY <2>1, <3>1 DEF ReadsItsKey, Reads, HotTable
    <3>2. CASE ~(r \in Live(kv) /\ IsHot(kv, r))
      <4>1. HotTable(kv, r) = <<>> BY <3>2 DEF HotTable
      <4> QED BY <4>1, EmptyTable
    <3> QED BY <3>1, <3>2
  <2>2. ASSUME NEW e, \A r \in Requests : Reads(r, HotTable(kv, r), e) PROVE ReadsItsKey(kv, e)
    <3> SUFFICES ASSUME NEW r \in Live(kv), IsHot(kv, r) PROVE Reads(r, kv.req[r].table, e)
        BY DEF ReadsItsKey, Reads
    <3>1. HotTable(kv, r) = kv.req[r].table BY DEF HotTable
    <3> QED BY <2>2, <3>1
  <2> QED BY <2>1, <2>2
<1>7. RequestsOK(kv) /\ CacheOK(kv) /\ HotCounted(kv) /\ ColdCounted(kv) /\ FieldsOK(kv)
         /\ OrdersDiffer(kv) /\ CacheFits(kv)
      <=> Rest(kv) /\ HotSide(kv) /\ ColdSide(kv)
  BY <1>1, <1>2, <1>3, <1>4, <1>5, <1>6
     DEF RequestsOK, CacheOK, HotCounted, ColdCounted, FieldsOK, Rest, HotSide, ColdSide
<1> QED BY <1>7, PlaneParts

(* The requests whose hot table names a block are finitely many.           *)
LEMMA HotReadersFinite ==
    ASSUME NEW kv, NEW b
    PROVE  IsFiniteSet(HotReaders(kv, b)) /\ Cardinality(HotReaders(kv, b)) \in Nat
<1>1. NRequests \in Nat BY SizesAssumption
<1>2. IsFiniteSet(Requests) BY <1>1, FS_Interval DEF Requests
<1>3. HotReaders(kv, b) \in SUBSET Requests BY DEF HotReaders
<1> QED BY <1>2, <1>3, FS_Subset, FS_CardinalityType

(* A block without a count is nobody's.                                    *)
LEMMA FreeIsUnread ==
    ASSUME NEW kv, HotSide(kv), NEW b \in Free(kv.hot)
    PROVE  b \in HotBlocks /\ HotReaders(kv, b) = {} /\ InCache(kv, b) = 0
           /\ \A r \in Requests : b \notin TableBlocks(HotTable(kv, r))
<1>1. b \in HotBlocks /\ kv.hot[b] = 0 BY DEF HotSide, Free
<1>2. IsFiniteSet(HotReaders(kv, b)) /\ Cardinality(HotReaders(kv, b)) \in Nat BY HotReadersFinite
<1>3. InCache(kv, b) \in Nat BY DEF InCache
<1>4. kv.hot[b] = Cardinality(HotReaders(kv, b)) + InCache(kv, b) BY <1>1 DEF HotSide
<1>5. Cardinality(HotReaders(kv, b)) = 0 /\ InCache(kv, b) = 0 BY <1>1, <1>2, <1>3, <1>4
<1>6. HotReaders(kv, b) = {} BY <1>2, <1>5, FS_EmptySet
<1> QED BY <1>1, <1>5, <1>6 DEF HotReaders

(* The hot side depends on the hot counts, the cache and the hot tables    *)
(* alone.                                                                  *)
LEMMA HotSame ==
    ASSUME NEW kv, HotSide(kv), NEW p, p.hot = kv.hot, p.cache = kv.cache,
           \A s \in Requests : HotTable(p, s) = HotTable(kv, s)
    PROVE  HotSide(p)
<1>1. \A b : HotReaders(p, b) = HotReaders(kv, b) BY DEF HotReaders
<1>2. \A b : InCache(p, b) = InCache(kv, b) BY DEF InCache
<1> QED BY <1>1, <1>2 DEF HotSide

(* A request that gives up its hot table releases one count of every block *)
(* in it.                                                                  *)
LEMMA HotDrop ==
    ASSUME NEW kv, HotSide(kv), NEW p, p.cache = kv.cache, NEW r \in Requests,
           HotTable(p, r) = <<>>, \A s \in Requests \ {r} : HotTable(p, s) = HotTable(kv, s),
           p.hot = Released(kv.hot, TableBlocks(HotTable(kv, r)))
    PROVE  /\ HotSide(p) /\ Free(kv.hot) \subseteq Free(p.hot)
           /\ \A b \in HotBlocks : p.hot[b] = IF b \in TableBlocks(HotTable(kv, r)) THEN kv.hot[b] - 1 ELSE kv.hot[b]
<1> DEFINE old == TableBlocks(HotTable(kv, r))
<1>1. kv.hot \in [HotBlocks -> Nat] BY DEF HotSide
<1>2. \A b \in HotBlocks : p.hot[b] = IF b \in old THEN kv.hot[b] - 1 ELSE kv.hot[b]
  BY <1>1 DEF Released
<1>3. ASSUME NEW b \in HotBlocks
      PROVE  p.hot[b] = Cardinality(HotReaders(p, b)) + InCache(p, b)
  <2>1. HotReaders(p, b) = HotReaders(kv, b) \ {r}
    <3>1. r \notin HotReaders(p, b) BY EmptyTable DEF HotReaders
    <3>2. \A s \in Requests \ {r} : s \in HotReaders(p, b) <=> s \in HotReaders(kv, b) BY DEF HotReaders
    <3>3. HotReaders(p, b) \subseteq Requests /\ HotReaders(kv, b) \subseteq Requests BY DEF HotReaders
    <3> QED BY <3>1, <3>2, <3>3
  <2>2. InCache(p, b) = InCache(kv, b) BY DEF InCache
  <2>3. kv.hot[b] = Cardinality(HotReaders(kv, b)) + InCache(kv, b) BY DEF HotSide
  <2>4. IsFiniteSet(HotReaders(kv, b)) /\ Cardinality(HotReaders(kv, b)) \in Nat BY HotReadersFinite
  <2>5. InCache(kv, b) \in Nat BY DEF InCache
  <2>6. CASE b \in old
    <3>1. r \in HotReaders(kv, b) BY <2>6 DEF HotReaders
    <3>2. Cardinality(HotReaders(p, b)) = Cardinality(HotReaders(kv, b)) - 1
      BY <2>1, <2>4, <3>1, FS_RemoveElement
    <3> QED BY <1>2, <2>2, <2>3, <2>4, <2>5, <2>6, <3>2
  <2>7. CASE b \notin old
    <3>1. HotReaders(p, b) = HotReaders(kv, b) BY <2>1, <2>7 DEF HotReaders
    <3> QED BY <1>2, <2>2, <2>3, <2>7, <3>1
  <2> QED BY <2>6, <2>7
<1>4. p.hot \in [HotBlocks -> Nat]
  <2>1. p.hot = [b \in HotBlocks |-> p.hot[b]] BY <1>1 DEF Released
  <2>2. ASSUME NEW b \in HotBlocks PROVE p.hot[b] \in Nat
    <3>1. InCache(p, b) \in Nat BY DEF InCache
    <3> QED BY <1>3, <3>1, HotReadersFinite
  <2> QED BY <2>1, <2>2
<1>5. \A s \in Requests : HotTable(p, s) \in Seq(HotRows) /\ Distinct(HotTable(p, s))
  BY EmptyTable DEF HotSide
<1>6. \A s, t \in Requests : s # t => Shared(s, HotTable(p, s), t, HotTable(p, t))
  BY EmptyTable DEF HotSide
<1>7. \A e \in Range(p.cache) : \A s \in Requests : Reads(s, HotTable(p, s), e)
  BY EmptyTable DEF HotSide
<1>8. HotSide(p) BY <1>3, <1>4, <1>5, <1>6, <1>7 DEF HotSide
<1>9. Free(kv.hot) \subseteq Free(p.hot)
  <2> SUFFICES ASSUME NEW b \in Free(kv.hot) PROVE b \in Free(p.hot) OBVIOUS
  <2>1. b \in HotBlocks /\ kv.hot[b] = 0 /\ b \notin old BY FreeIsUnread DEF Free
  <2> QED BY <2>1, <1>2, <1>4 DEF Free
<1> QED BY <1>2, <1>8, <1>9

(* A table grows by blocks nobody holds.                                   *)
GrowsBy(U, T, fresh) ==
    /\ DOMAIN U \subseteq DOMAIN T /\ \A i \in DOMAIN U : T[i] = U[i]
    /\ TableBlocks(T) = TableBlocks(U) \cup fresh
    /\ \A i \in DOMAIN T \ DOMAIN U : \A l \in 1 .. Layers : T[i][l] \in fresh

(* A request's hot table may grow by free blocks with a count of one.      *)
LEMMA HotFresh ==
    ASSUME NEW kv, HotSide(kv), kv.cache \in Seq(Entries), NEW p, p.cache = kv.cache,
           NEW r \in Requests, HotTable(p, r) \in Seq(HotRows), Distinct(HotTable(p, r)),
           NEW fresh \in SUBSET Free(kv.hot), GrowsBy(HotTable(kv, r), HotTable(p, r), fresh),
           \A s \in Requests \ {r} : HotTable(p, s) = HotTable(kv, s),
           p.hot = Allocated(kv.hot, fresh)
    PROVE  HotSide(p) /\ Free(p.hot) = Free(kv.hot) \ fresh
<1> DEFINE T == HotTable(p, r)
           U == HotTable(kv, r)
<1>0. /\ T = HotTable(p, r) /\ T \in Seq(HotRows) /\ Distinct(T)
      /\ U = HotTable(kv, r) /\ DOMAIN U \subseteq DOMAIN T /\ \A i \in DOMAIN U : T[i] = U[i]
      /\ TableBlocks(T) = TableBlocks(U) \cup fresh
      /\ \A i \in DOMAIN T \ DOMAIN U : \A l \in 1 .. Layers : T[i][l] \in fresh
  BY DEF GrowsBy
<1> HIDE DEF T, U
<1>1. kv.hot \in [HotBlocks -> Nat] BY DEF HotSide
<1>2. \A b \in HotBlocks : p.hot[b] = IF b \in fresh THEN 1 ELSE kv.hot[b]
  BY <1>1 DEF Allocated
<1>3. p.hot \in [HotBlocks -> Nat]
  <2>1. p.hot = [b \in HotBlocks |-> p.hot[b]] BY <1>1 DEF Allocated
  <2>2. \A b \in HotBlocks : p.hot[b] \in Nat BY <1>1, <1>2
  <2> QED BY <2>1, <2>2
<1>4. \A b \in fresh : b \in HotBlocks /\ kv.hot[b] = 0 /\ HotReaders(kv, b) = {} /\ InCache(kv, b) = 0
                       /\ \A s \in Requests : b \notin TableBlocks(HotTable(kv, s))
  BY FreeIsUnread DEF Free
<1>5. ASSUME NEW b \in HotBlocks
      PROVE  p.hot[b] = Cardinality(HotReaders(p, b)) + InCache(p, b)
  <2>1. HotReaders(p, b) = IF b \in fresh THEN HotReaders(kv, b) \cup {r} ELSE HotReaders(kv, b)
    <3>1. \A s \in Requests \ {r} : s \in HotReaders(p, b) <=> s \in HotReaders(kv, b) BY DEF HotReaders
    <3>2. HotReaders(p, b) \subseteq Requests /\ HotReaders(kv, b) \subseteq Requests BY DEF HotReaders
    <3>3. r \in HotReaders(p, b) <=> b \in fresh \/ r \in HotReaders(kv, b) BY <1>0 DEF HotReaders
    <3> QED BY ONLY <3>1, <3>2, <3>3, r \in Requests
  <2>2. InCache(p, b) = InCache(kv, b) BY DEF InCache
  <2>3. kv.hot[b] = Cardinality(HotReaders(kv, b)) + InCache(kv, b) BY DEF HotSide
  <2>4. CASE b \in fresh
    <3>1. HotReaders(p, b) = {r} BY <1>4, <2>1, <2>4
    <3>2. Cardinality(HotReaders(p, b)) = 1 BY <3>1, FS_Singleton
    <3> QED BY <1>2, <1>4, <2>2, <2>4, <3>2
  <2>5. CASE b \notin fresh BY <1>2, <2>1, <2>2, <2>3, <2>5
  <2> QED BY <2>4, <2>5
<1>6. \A s \in Requests : HotTable(p, s) \in Seq(HotRows) /\ Distinct(HotTable(p, s))
  BY <1>0 DEF HotSide
<1>7. ASSUME NEW s \in Requests, s # r
      PROVE  Shared(r, T, s, HotTable(kv, s)) /\ Shared(s, HotTable(kv, s), r, T)
  <2> DEFINE V == HotTable(kv, s)
  <2>1. Shared(r, U, s, V) /\ Shared(s, V, r, U) BY <1>0, <1>7 DEF HotSide
  <2>2. ASSUME NEW i \in DOMAIN T \ DOMAIN U, NEW j \in DOMAIN V, NEW l \in 1 .. Layers, NEW m \in 1 .. Layers
        PROVE  T[i][l] # V[j][m]
    <3>1. T[i][l] \in fresh BY <1>0
    <3>2. T[i][l] \notin TableBlocks(V) BY <1>4, <3>1
    <3>3. V[j][m] \in TableBlocks(V) BY DEF TableBlocks
    <3> QED BY <3>2, <3>3
  <2> HIDE DEF V
  <2>3. Shared(r, T, s, V) BY <1>0, <2>1, <2>2 DEF Shared
  <2>4. Shared(s, V, r, T) BY <1>0, <2>1, <2>2 DEF Shared
  <2> QED BY <2>3, <2>4 DEF V
<1>8. \A s, t \in Requests : s # t => Shared(s, HotTable(p, s), t, HotTable(p, t))
  <2> SUFFICES ASSUME NEW s \in Requests, NEW t \in Requests, s # t
               PROVE  Shared(s, HotTable(p, s), t, HotTable(p, t))
      OBVIOUS
  <2>1. CASE s = r BY <2>1, <1>0, <1>7
  <2>2. CASE t = r BY <2>2, <1>0, <1>7
  <2>3. CASE s # r /\ t # r BY <2>3 DEF HotSide
  <2> QED BY <2>1, <2>2, <2>3
<1>9. ASSUME NEW e \in Range(kv.cache) PROVE Reads(r, T, e)
  <2>1. Reads(r, U, e) BY <1>0 DEF HotSide
  <2>2. ASSUME NEW i \in DOMAIN T \ DOMAIN U, NEW l \in 1 .. Layers, NEW m \in 1 .. Layers,
               T[i][l] = e.blocks[m]
        PROVE  FALSE
    <3>0. e \in Entries BY DEF Range
    <3>1. T[i][l] \in fresh BY <1>0
    <3>2. e.blocks \in HotRows BY <3>0 DEF Entries
    <3>3. T[i][l] \in Range(e.blocks) BY <2>2, <3>2 DEF HotRows, Range
    <3>4. InCache(kv, T[i][l]) = 1 BY <3>3 DEF InCache, Caches
    <3> QED BY <1>4, <3>1, <3>4
  <2> QED BY <1>0, <2>1, <2>2 DEF Reads
<1>10. \A e \in Range(p.cache) : \A s \in Requests : Reads(s, HotTable(p, s), e)
  BY <1>0, <1>9 DEF HotSide
<1>11. HotSide(p) BY <1>3, <1>5, <1>6, <1>8, <1>10 DEF HotSide
<1>12. Free(p.hot) = Free(kv.hot) \ fresh BY <1>1, <1>2, <1>3 DEF Free
<1> QED BY <1>11, <1>12

----------------------------------------------------------------------------
(* A prefix hit, the cold side, a new table.                               *)

(* A request may start with the cached blocks of its prefix, one more      *)
(* count on each.                                                          *)
LEMMA HotHit ==
    ASSUME NEW kv, HotSide(kv), kv.cache \in Seq(Entries), DistinctKeys(kv.cache),
           EntriesApart(Range(kv.cache)), NEW p, p.cache = kv.cache,
           NEW r \in Requests, HotTable(kv, r) = <<>>,
           NEW n \in Nat, n <= Len(Content[r]), \A i \in 1 .. n : Key(r, i) \in CacheKeys(kv),
           NEW T, T = HotTable(p, r), T = [i \in 1 .. n |-> EntryOf(kv, Key(r, i)).blocks],
           \A s \in Requests \ {r} : HotTable(p, s) = HotTable(kv, s),
           p.hot = Retained(kv.hot, TableBlocks(T))
    PROVE  HotSide(p)
<1> DEFINE e(i) == EntryOf(kv, Key(r, i))
<1>1. kv.hot \in [HotBlocks -> Nat] BY DEF HotSide
<1>2. ASSUME NEW i \in 1 .. n
      PROVE  e(i) \in Range(kv.cache) /\ e(i) \in Entries /\ e(i).key = Key(r, i) /\ T[i] = e(i).blocks
  BY EntryOfKey
<1>3. T \in Seq(HotRows) /\ DOMAIN T = 1 .. n
  <2>1. \A i \in 1 .. n : e(i).blocks \in HotRows BY <1>2 DEF Entries
  <2> QED BY <2>1
<1>4. Content[r] \in Seq(Range(Content[r])) /\ Len(Content[r]) \in Nat BY RequestsAssumption
<1>5. ASSUME NEW i \in 1 .. n, NEW j \in 1 .. n, Key(r, i) = Key(r, j) PROVE i = j
  <2>1. i \in 1 .. Len(Content[r]) /\ j \in 1 .. Len(Content[r]) BY <1>4
  <2>2. Len(Key(r, i)) = i BY <1>4, <2>1 DEF Key
  <2>3. Len(Key(r, j)) = j BY <1>4, <2>1 DEF Key
  <2> QED BY <1>5, <2>2, <2>3
<1> HIDE DEF e
<1>6. Distinct(T)
  <2> SUFFICES ASSUME NEW i \in 1 .. n, NEW j \in 1 .. n, NEW l \in 1 .. Layers, NEW m \in 1 .. Layers,
                      T[i][l] = T[j][m]
               PROVE  i = j /\ l = m
      BY <1>3 DEF Distinct
  <2>1. e(i).blocks[l] = e(j).blocks[m] BY <1>2
  <2>2. e(i) = e(j) /\ l = m BY <1>2, <2>1 DEF EntriesApart
  <2> QED BY <1>2, <1>5, <2>2
<1>7. ASSUME NEW f \in Range(kv.cache) PROVE Reads(r, T, f)
  <2> SUFFICES ASSUME NEW i \in 1 .. n, NEW l \in 1 .. Layers, NEW m \in 1 .. Layers, T[i][l] = f.blocks[m]
               PROVE  l = m /\ NamesKey(r, i, f.key)
      BY <1>3 DEF Reads
  <2>1. e(i) = f /\ l = m BY <1>2 DEF EntriesApart
  <2>2. i \in 1 .. Len(Content[r]) BY <1>4
  <2> QED BY <1>2, <2>1, <2>2 DEF NamesKey
<1>8. ASSUME NEW s \in Requests, s # r
      PROVE  Shared(r, T, s, HotTable(kv, s)) /\ Shared(s, HotTable(kv, s), r, T)
  <2> DEFINE V == HotTable(kv, s)
  <2>1. ASSUME NEW i \in 1 .. n, NEW j \in DOMAIN V, NEW l \in 1 .. Layers, NEW m \in 1 .. Layers,
               T[i][l] = V[j][m]
        PROVE  /\ l = m /\ i \in 1 .. Len(Content[r]) /\ NamesKey(r, i, Key(r, i))
               /\ j \in 1 .. Len(Content[s]) /\ NamesKey(s, j, Key(r, i))
    <3>1. Reads(s, V, e(i)) BY <1>2 DEF HotSide
    <3>2. V[j][m] = e(i).blocks[l] BY <1>2, <2>1
    <3>3. m = l /\ NamesKey(s, j, e(i).key) BY <3>1, <3>2 DEF Reads
    <3>4. i \in 1 .. Len(Content[r]) BY <1>4
    <3> QED BY <1>2, <3>3, <3>4 DEF NamesKey
  <2> HIDE DEF V
  <2>2. Shared(r, T, s, V) BY <1>3, <2>1 DEF Shared
  <2>3. Shared(s, V, r, T)
    <3> SUFFICES ASSUME NEW j \in DOMAIN V, NEW i \in 1 .. n, NEW m \in 1 .. Layers, NEW l \in 1 .. Layers,
                        V[j][m] = T[i][l]
                 PROVE  m = l /\ j \in 1 .. Len(Content[s]) /\ NamesKey(r, i, Key(s, j))
        BY <1>3 DEF Shared
    <3> QED BY <2>1 DEF NamesKey
  <2> QED BY <2>2, <2>3 DEF V
<1>9. \A s, t \in Requests : s # t => Shared(s, HotTable(p, s), t, HotTable(p, t))
  <2> SUFFICES ASSUME NEW s \in Requests, NEW t \in Requests, s # t
               PROVE  Shared(s, HotTable(p, s), t, HotTable(p, t))
      OBVIOUS
  <2>1. CASE s = r BY <2>1, <1>8
  <2>2. CASE t = r BY <2>2, <1>8
  <2>3. CASE s # r /\ t # r BY <2>3 DEF HotSide
  <2> QED BY <2>1, <2>2, <2>3
<1>10. \A f \in Range(p.cache) : \A s \in Requests : Reads(s, HotTable(p, s), f)
  BY <1>7 DEF HotSide
<1>11. \A s \in Requests : HotTable(p, s) \in Seq(HotRows) /\ Distinct(HotTable(p, s))
  BY <1>3, <1>6 DEF HotSide
<1>12. \A b \in HotBlocks : p.hot[b] = IF b \in TableBlocks(T) THEN kv.hot[b] + 1 ELSE kv.hot[b]
  BY <1>1 DEF Retained
<1>13. p.hot \in [HotBlocks -> Nat]
  <2>1. p.hot = [b \in HotBlocks |-> p.hot[b]] BY <1>1 DEF Retained
  <2>2. \A b \in HotBlocks : p.hot[b] \in Nat BY <1>1, <1>12
  <2> QED BY <2>1, <2>2
<1>14. ASSUME NEW b \in HotBlocks PROVE p.hot[b] = Cardinality(HotReaders(p, b)) + InCache(p, b)
  <2>0. r \notin HotReaders(kv, b) BY EmptyTable DEF HotReaders
  <2>1. \A s \in Requests \ {r} : s \in HotReaders(p, b) <=> s \in HotReaders(kv, b) BY DEF HotReaders
  <2>2. HotReaders(p, b) \subseteq Requests /\ HotReaders(kv, b) \subseteq Requests BY DEF HotReaders
  <2>3. InCache(p, b) = InCache(kv, b) BY DEF InCache
  <2>4. kv.hot[b] = Cardinality(HotReaders(kv, b)) + InCache(kv, b) BY DEF HotSide
  <2>5. IsFiniteSet(HotReaders(kv, b)) /\ Cardinality(HotReaders(kv, b)) \in Nat BY HotReadersFinite
  <2>6. InCache(kv, b) \in Nat BY DEF InCache
  <2>7. CASE b \in TableBlocks(T)
    <3>1. r \in HotReaders(p, b) BY <2>7 DEF HotReaders
    <3>2. HotReaders(p, b) = HotReaders(kv, b) \cup {r} BY <2>1, <2>2, <3>1
    <3>3. Cardinality(HotReaders(p, b)) = Cardinality(HotReaders(kv, b)) + 1 BY <2>0, <2>5, <3>2, FS_AddElement
    <3> QED BY <1>12, <2>3, <2>4, <2>5, <2>6, <2>7, <3>3
  <2>8. CASE b \notin TableBlocks(T)
    <3>1. r \notin HotReaders(p, b) BY <2>8 DEF HotReaders
    <3>2. HotReaders(p, b) = HotReaders(kv, b) BY ONLY <2>0, <2>1, <2>2, <3>1
    <3> QED BY <1>12, <2>3, <2>4, <2>8, <3>2
  <2> QED BY <2>7, <2>8
<1> QED BY <1>9, <1>10, <1>11, <1>13, <1>14 DEF HotSide

(* The cold side depends on the cold counts and the cold tables alone.     *)
LEMMA ColdSame ==
    ASSUME NEW kv, ColdSide(kv), NEW p, p.cold = kv.cold,
           \A s \in Requests : ColdTable(p, s) = ColdTable(kv, s)
    PROVE  ColdSide(p)
BY DEF ColdSide

(* A request that gives up its cold table frees every block in it.         *)
LEMMA ColdDrop ==
    ASSUME NEW kv, ColdSide(kv), NEW p, NEW r \in Requests,
           ColdTable(p, r) = <<>>, \A s \in Requests \ {r} : ColdTable(p, s) = ColdTable(kv, s),
           p.cold = Released(kv.cold, TableBlocks(ColdTable(kv, r)))
    PROVE  ColdSide(p) /\ Free(kv.cold) \subseteq Free(p.cold)
<1> DEFINE old == TableBlocks(ColdTable(kv, r))
<1>1. kv.cold \in [ColdBlocks -> Nat] BY DEF ColdSide
<1>2. \A b \in ColdBlocks : p.cold[b] = IF b \in old THEN kv.cold[b] - 1 ELSE kv.cold[b]
  BY <1>1 DEF Released
<1>3. ASSUME NEW b \in ColdBlocks
      PROVE  p.cold[b] = IF \E s \in Requests : b \in TableBlocks(ColdTable(p, s)) THEN 1 ELSE 0
  <2>1. kv.cold[b] = IF \E s \in Requests : b \in TableBlocks(ColdTable(kv, s)) THEN 1 ELSE 0
    BY DEF ColdSide
  <2>2. CASE b \in old
    <3>1. \A s \in Requests : s # r => b \notin TableBlocks(ColdTable(kv, s)) BY <2>2 DEF ColdSide
    <3>2. \A s \in Requests : b \notin TableBlocks(ColdTable(p, s)) BY <3>1, EmptyTable
    <3>3. kv.cold[b] = 1 BY <2>1, <2>2
    <3> QED BY <1>2, <2>2, <3>2, <3>3
  <2>3. CASE b \notin old
    <3>1. \A s \in Requests : b \in TableBlocks(ColdTable(p, s)) <=> b \in TableBlocks(ColdTable(kv, s))
      BY <2>3, EmptyTable
    <3> QED BY <1>2, <2>1, <2>3, <3>1
  <2> QED BY <2>2, <2>3
<1>4. p.cold \in [ColdBlocks -> Nat]
  <2>1. p.cold = [b \in ColdBlocks |-> p.cold[b]] BY <1>1 DEF Released
  <2>2. \A b \in ColdBlocks : p.cold[b] \in Nat BY <1>3
  <2> QED BY <2>1, <2>2
<1>5. \A s \in Requests : ColdTable(p, s) \in Seq(ColdRows) /\ Distinct(ColdTable(p, s))
  BY EmptyTable DEF ColdSide
<1>6. \A s, t \in Requests :
         s # t => TableBlocks(ColdTable(p, s)) \cap TableBlocks(ColdTable(p, t)) = {}
  <2>1. \A s, t \in Requests :
         s # t => TableBlocks(ColdTable(kv, s)) \cap TableBlocks(ColdTable(kv, t)) = {} BY DEF ColdSide
  <2>2. TableBlocks(ColdTable(p, r)) = {} BY EmptyTable
  <2> QED BY <2>1, <2>2
<1>7. ColdSide(p) BY <1>3, <1>4, <1>5, <1>6 DEF ColdSide
<1>8. Free(kv.cold) \subseteq Free(p.cold)
  <2> SUFFICES ASSUME NEW b \in Free(kv.cold) PROVE b \in Free(p.cold) OBVIOUS
  <2>1. b \in ColdBlocks /\ kv.cold[b] = 0 BY <1>1 DEF Free
  <2>2. b \notin old BY <2>1 DEF ColdSide
  <2>3. p.cold[b] = 0 BY <1>2, <2>1, <2>2
  <2> QED BY <2>1, <2>3, <1>4 DEF Free
<1> QED BY <1>7, <1>8

(* A request without a cold table may take free cold blocks.               *)
LEMMA ColdFresh ==
    ASSUME NEW kv, ColdSide(kv), NEW p, NEW r \in Requests, ColdTable(kv, r) = <<>>,
           NEW T, T = ColdTable(p, r), T \in Seq(ColdRows), Distinct(T),
           TableBlocks(T) \subseteq Free(kv.cold),
           \A s \in Requests \ {r} : ColdTable(p, s) = ColdTable(kv, s),
           p.cold = Allocated(kv.cold, TableBlocks(T))
    PROVE  ColdSide(p) /\ Free(p.cold) = Free(kv.cold) \ TableBlocks(T)
<1> DEFINE fresh == TableBlocks(T)
<1>1. kv.cold \in [ColdBlocks -> Nat] BY DEF ColdSide
<1>2. \A b \in ColdBlocks : p.cold[b] = IF b \in fresh THEN 1 ELSE kv.cold[b]
  BY <1>1 DEF Allocated
<1>3. p.cold \in [ColdBlocks -> Nat]
  <2>1. p.cold = [b \in ColdBlocks |-> p.cold[b]] BY <1>1 DEF Allocated
  <2>2. \A b \in ColdBlocks : p.cold[b] \in Nat BY <1>1, <1>2
  <2> QED BY <2>1, <2>2
<1>4. \A b \in fresh : b \in ColdBlocks /\ kv.cold[b] = 0 BY <1>1 DEF Free
<1>5. \A b \in fresh : \A s \in Requests : b \notin TableBlocks(ColdTable(kv, s))
  <2> SUFFICES ASSUME NEW b \in fresh, NEW s \in Requests, b \in TableBlocks(ColdTable(kv, s)) PROVE FALSE
      OBVIOUS
  <2>1. b \in ColdBlocks /\ kv.cold[b] = 0 BY <1>4
  <2>2. kv.cold[b] = IF \E t \in Requests : b \in TableBlocks(ColdTable(kv, t)) THEN 1 ELSE 0
    BY <2>1 DEF ColdSide
  <2> HIDE DEF fresh
  <2> QED BY <2>1, <2>2
<1>6. ASSUME NEW b \in ColdBlocks
      PROVE  p.cold[b] = IF \E s \in Requests : b \in TableBlocks(ColdTable(p, s)) THEN 1 ELSE 0
  <2>1. kv.cold[b] = IF \E s \in Requests : b \in TableBlocks(ColdTable(kv, s)) THEN 1 ELSE 0
    BY DEF ColdSide
  <2>2. CASE b \in fresh BY <1>2, <2>2
  <2>3. CASE b \notin fresh
    <3>1. \A s \in Requests : b \in TableBlocks(ColdTable(p, s)) <=> b \in TableBlocks(ColdTable(kv, s))
      BY <2>3, EmptyTable
    <3> QED BY <1>2, <2>1, <2>3, <3>1
  <2> QED BY <2>2, <2>3
<1>7. \A s \in Requests : ColdTable(p, s) \in Seq(ColdRows) /\ Distinct(ColdTable(p, s)) BY DEF ColdSide
<1>8. \A s, t \in Requests :
         s # t => TableBlocks(ColdTable(p, s)) \cap TableBlocks(ColdTable(p, t)) = {}
  <2>1. \A s, t \in Requests :
         s # t => TableBlocks(ColdTable(kv, s)) \cap TableBlocks(ColdTable(kv, t)) = {} BY DEF ColdSide
  <2>2. \A s \in Requests : fresh \cap TableBlocks(ColdTable(kv, s)) = {} BY <1>5
  <2>3. TableBlocks(ColdTable(p, r)) = fresh OBVIOUS
  <2> HIDE DEF fresh
  <2> QED BY <2>1, <2>2, <2>3
<1>9. ColdSide(p) BY <1>3, <1>6, <1>7, <1>8 DEF ColdSide
<1>10. Free(p.cold) = Free(kv.cold) \ fresh BY <1>1, <1>2, <1>3 DEF Free
<1> QED BY <1>9, <1>10

----------------------------------------------------------------------------
(* The blocks that allocate gives out.                                     *)
LEMMA PoolFree ==
    ASSUME NEW n \in Nat, NEW refs \in [0 .. n - 1 -> Nat]
    PROVE  /\ Free(refs) \in SUBSET Int /\ Free(refs) \in SUBSET (0 .. n - 1)
           /\ IsFiniteSet(Free(refs)) /\ Cardinality(Free(refs)) \in Nat
<1>1. IsFiniteSet(0 .. n - 1) BY FS_Interval
<1>2. Free(refs) \in SUBSET (0 .. n - 1) BY DEF Free
<1> QED BY <1>1, <1>2, FS_Subset, FS_CardinalityType

GridIndex(n, i, l) == (l - 1) * n + i

(* The index of a layer's block in a new table is one of the blocks taken. *)
LEMMA GridInside ==
    ASSUME NEW n \in Nat, NEW layers \in Nat, NEW i \in 1 .. n, NEW l \in 1 .. layers
    PROVE  GridIndex(n, i, l) \in 1 .. n * layers
<1> DEFINE x == (l - 1) * n
           y == (layers - l) * n
           z == n * layers
<1>1. l - 1 \in Nat /\ layers - l \in Nat OBVIOUS
<1>2. x \in Nat /\ y \in Nat /\ z \in Nat BY <1>1
<1>3. z = x + n + y OBVIOUS
<1> HIDE DEF x, y, z
<1>4. x + i \in 1 .. z BY <1>2, <1>3
<1> QED BY <1>4 DEF x, z, GridIndex

(* A later layer takes later blocks.                                       *)
LEMMA GridLess ==
    ASSUME NEW n \in Nat, NEW l \in Nat, NEW m \in Nat, l < m, NEW i \in 1 .. n, NEW j \in 1 .. n
    PROVE  GridIndex(n, i, l) < GridIndex(n, j, m)
<1> DEFINE x == (l - 1) * n
           y == (m - 1) * n
           z == (m - l - 1) * n
<1>1. m - l - 1 \in Nat /\ l - 1 \in Int /\ m - 1 \in Int OBVIOUS
<1>2. x \in Int /\ y \in Int /\ z \in Nat BY <1>1
<1>3. y = x + n + z OBVIOUS
<1> HIDE DEF x, y, z
<1>4. x + i < y + j BY <1>2, <1>3
<1> QED BY <1>4 DEF x, y, GridIndex

(* No two places of a new table take the same block.                       *)
LEMMA GridOnce ==
    ASSUME NEW n \in Nat, NEW layers \in Nat, NEW i \in 1 .. n, NEW j \in 1 .. n,
           NEW l \in 1 .. layers, NEW m \in 1 .. layers,
           GridIndex(n, i, l) = GridIndex(n, j, m)
    PROVE  i = j /\ l = m
<1>1. GridIndex(n, i, l) \in Int /\ GridIndex(n, j, m) \in Int BY DEF GridIndex
<1>2. ASSUME l < m PROVE FALSE
  <2>1. GridIndex(n, i, l) < GridIndex(n, j, m) BY <1>2, GridLess
  <2> QED BY <1>1, <2>1
<1>3. ASSUME m < l PROVE FALSE
  <2>1. GridIndex(n, j, m) < GridIndex(n, i, l) BY <1>3, GridLess
  <2> QED BY <1>1, <2>1
<1>4. l = m BY <1>2, <1>3
<1> DEFINE x == (l - 1) * n
<1>5. x + i = x + j /\ x \in Int BY <1>4 DEF GridIndex
<1> HIDE DEF x
<1>6. i = j BY <1>5
<1> QED BY <1>4, <1>6

(* The same for all places of a new table.                                 *)
LEMMA GridDistinct ==
    ASSUME NEW n \in Nat
    PROVE  \A i, j \in 1 .. n : \A l, m \in 1 .. Layers :
               GridIndex(n, i, l) = GridIndex(n, j, m) => i = j /\ l = m
<1>1. Layers \in Nat BY SizesAssumption
<1> SUFFICES ASSUME NEW i \in 1 .. n, NEW j \in 1 .. n, NEW l \in 1 .. Layers, NEW m \in 1 .. Layers,
                    GridIndex(n, i, l) = GridIndex(n, j, m)
             PROVE  i = j /\ l = m
    OBVIOUS
<1> QED BY <1>1, GridOnce

(* The blocks of n rows.                                                   *)
RowBlocks(n) == n * Layers

(* A new table is made of distinct free blocks, as many as its rows need.  *)
LEMMA NewTableIs ==
    ASSUME NEW cap \in Nat, NEW refs \in [0 .. cap - 1 -> Nat], NEW n \in Nat,
           RowBlocks(n) <= Cardinality(Free(refs))
    PROVE  LET T == NewTable(refs, n) IN
           /\ T \in Seq([1 .. Layers -> Free(refs)]) /\ DOMAIN T = 1 .. n /\ Len(T) = n /\ Distinct(T)
           /\ TableBlocks(T) \in SUBSET Free(refs)
           /\ \A i \in 1 .. n : \A l \in 1 .. Layers : T[i][l] \in TableBlocks(T)
           /\ Cardinality(Free(refs) \ TableBlocks(T)) >= Cardinality(Free(refs)) - RowBlocks(n)
<1> DEFINE T == NewTable(refs, n)
           F == Free(refs)
           at(i, l) == GridIndex(n, i, l)
<1>0. \A i, j \in 1 .. n : \A l, m \in 1 .. Layers :
         GridIndex(n, i, l) = GridIndex(n, j, m) => i = j /\ l = m
  BY GridDistinct
<1>1. F \in SUBSET Int /\ IsFiniteSet(F) /\ Cardinality(F) \in Nat BY PoolFree
<1>2. Layers \in Nat BY SizesAssumption
<1>3. ASSUME NEW i \in 1 .. n, NEW l \in 1 .. Layers
      PROVE  at(i, l) \in 1 .. RowBlocks(n) /\ at(i, l) \in 1 .. Cardinality(F) /\ NthLeast(F, at(i, l)) \in F
  <2>1. at(i, l) \in 1 .. RowBlocks(n) BY <1>2, GridInside DEF RowBlocks
  <2>2. RowBlocks(n) \in Int BY <1>2 DEF RowBlocks
  <2> HIDE DEF at
  <2>3. at(i, l) \in 1 .. Cardinality(F) BY <1>1, <2>1, <2>2
  <2> HIDE DEF F
  <2> QED BY <1>1, <2>1, <2>3, NthLeastIs
<1>4. ASSUME NEW i \in 1 .. n, NEW l \in 1 .. Layers PROVE T[i][l] = NthLeast(F, at(i, l))
  BY DEF NewTable, NthFree, GridIndex
<1>5. T = [i \in 1 .. n |-> [l \in 1 .. Layers |-> NthLeast(F, at(i, l))]]
  BY DEF NewTable, NthFree, GridIndex
<1>6. T \in Seq([1 .. Layers -> F]) /\ DOMAIN T = 1 .. n /\ Len(T) = n
  <2> HIDE DEF T, F, at
  <2>1. \A i \in 1 .. n : [l \in 1 .. Layers |-> NthLeast(F, at(i, l))] \in [1 .. Layers -> F] BY <1>3
  <2> QED BY <1>5, <2>1
<1> HIDE DEF T
<1>7. Distinct(T)
  <2> SUFFICES ASSUME NEW i \in 1 .. n, NEW j \in 1 .. n, NEW l \in 1 .. Layers, NEW m \in 1 .. Layers,
                      T[i][l] = T[j][m]
               PROVE  i = j /\ l = m
      BY <1>6 DEF Distinct
  <2>1. NthLeast(F, at(i, l)) = NthLeast(F, at(j, m)) BY <1>4
  <2>2. at(i, l) = at(j, m)
    <3> HIDE DEF at, F
    <3> QED BY <1>1, <1>3, <2>1, NthLeastOrder
  <2>3. GridIndex(n, i, l) = GridIndex(n, j, m) BY <2>2
  <2> QED BY <2>3, <1>0
<1>8. \A i \in 1 .. n : \A l \in 1 .. Layers : T[i][l] \in TableBlocks(T)
  <2>1. 1 .. n = DOMAIN T BY <1>6
  <2> QED BY <2>1 DEF TableBlocks
<1> DEFINE first == {NthLeast(F, k) : k \in 1 .. RowBlocks(n)}
<1>9. TableBlocks(T) \subseteq first
  <2> SUFFICES ASSUME NEW i \in 1 .. n, NEW l \in 1 .. Layers PROVE T[i][l] \in first
      BY <1>6 DEF TableBlocks
  <2> HIDE DEF at
  <2> QED BY <1>3, <1>4
<1>10. IsFiniteSet(first) /\ Cardinality(first) <= RowBlocks(n) /\ Cardinality(first) \in Nat
  <2>1. RowBlocks(n) \in Nat BY <1>2 DEF RowBlocks
  <2>2. IsFiniteSet(1 .. RowBlocks(n)) /\ Cardinality(1 .. RowBlocks(n)) = RowBlocks(n)
    <3> DEFINE z == RowBlocks(n)
    <3>1. z \in Nat BY <2>1
    <3> HIDE DEF z
    <3>2. IsFiniteSet(1 .. z) /\ Cardinality(1 .. z) = IF 1 > z THEN 0 ELSE z - 1 + 1 BY <3>1, FS_Interval
    <3>3. Cardinality(1 .. z) = z BY <3>1, <3>2
    <3> QED BY <3>2, <3>3 DEF z
  <2> DEFINE g == [k \in 1 .. RowBlocks(n) |-> NthLeast(F, k)]
  <2>3. g \in Surjection(1 .. RowBlocks(n), first) BY DEF Surjection
  <2>4. IsFiniteSet(first) /\ Cardinality(first) <= Cardinality(1 .. RowBlocks(n))
    <3> HIDE DEF g, first
    <3> QED BY <2>2, <2>3, FS_Surjection
  <2> QED BY <2>2, <2>4, FS_CardinalityType
<1>11. TableBlocks(T) \in SUBSET F
  <2> SUFFICES ASSUME NEW i \in 1 .. n, NEW l \in 1 .. Layers PROVE T[i][l] \in F
      BY <1>6 DEF TableBlocks
  <2> HIDE DEF F
  <2>1. T[i] \in [1 .. Layers -> F] BY <1>6
  <2> QED BY <2>1
<1>12. Cardinality(F \ TableBlocks(T)) >= Cardinality(F) - RowBlocks(n)
  <2> DEFINE B == TableBlocks(T)
  <2> HIDE DEF F, first
  <2>1. IsFiniteSet(B) /\ Cardinality(B) <= Cardinality(first) /\ Cardinality(B) \in Nat
    BY <1>9, <1>10, FS_Subset, FS_CardinalityType
  <2>2. F \cap B = B BY <1>11
  <2>3. Cardinality(F \ B) = Cardinality(F) - Cardinality(F \cap B) /\ Cardinality(F \ B) \in Nat
    BY <1>1, <2>1, FS_Difference, FS_CardinalityType
  <2> DEFINE z == RowBlocks(n)
  <2>4. z \in Int /\ Cardinality(first) <= z /\ Cardinality(first) \in Nat BY <1>2, <1>10 DEF RowBlocks
  <2>6. Cardinality(F) \in Nat BY <1>1
  <2> HIDE DEF z, B
  <2>7. Cardinality(F \ B) = Cardinality(F) - Cardinality(B) BY <2>2, <2>3
  <2>5. Cardinality(F \ B) >= Cardinality(F) - z
    <3> DEFINE f == Cardinality(F)
               c == Cardinality(B)
               d == Cardinality(first)
    <3>1. f \in Nat /\ c \in Nat /\ d \in Nat /\ z \in Int /\ c <= d /\ d <= z
          /\ Cardinality(F \ B) = f - c
      BY <2>1, <2>4, <2>6, <2>7
    <3> HIDE DEF f, c, d
    <3>2. f - c >= f - z BY <3>1
    <3> QED BY <3>1, <3>2 DEF f
  <2> QED BY <2>5 DEF z, B
<1> QED BY <1>6, <1>7, <1>8, <1>11, <1>12 DEF T

----------------------------------------------------------------------------
(* Swap-out.                                                               *)

(* What an operation on the requests leaves as it was.                     *)
OthersKept(kv, p, r) == \A s \in Live(kv) \ {r} : p.req[s] = kv.req[s]
ClocksKept(kv, p) ==
    /\ p.nextOrder = kv.nextOrder /\ p.clock = kv.clock /\ p.batchId = kv.batchId
    /\ p.pending = kv.pending

(* What a swap-out does to each field of the plane.                        *)
LEMMA SwapOutFields ==
    ASSUME NEW kv, FieldsOK(kv), NEW r \in Live(kv), kv.req \in [Live(kv) -> States]
    PROVE  LET p == SwapOut(kv, r)
               new == NewTable(kv.cold, Len(kv.req[r].table))
           IN  /\ IsRecord(p) /\ p.cache = kv.cache /\ ClocksKept(kv, p)
               /\ p.hot = Released(kv.hot, TableBlocks(kv.req[r].table))
               /\ p.cold = Allocated(kv.cold, TableBlocks(new))
               /\ p.req = [kv.req EXCEPT ![r] = [@ EXCEPT !.table = new, !.tier = "cold"]]
<1> DEFINE p == SwapOut(kv, r)
           new == NewTable(kv.cold, Len(kv.req[r].table))
<1>1. IsRecord(p) /\ p.cache = kv.cache /\ ClocksKept(kv, p)
  BY DEF SwapOut, FieldsOK, IsRecord, Fields, ClocksKept
<1>2. p.hot = Released(kv.hot, TableBlocks(kv.req[r].table)) /\ p.cold = Allocated(kv.cold, TableBlocks(new))
  BY DEF SwapOut, FieldsOK, IsRecord, Fields
<1>3. p.req = [[kv.req EXCEPT ![r].table = new] EXCEPT ![r].tier = "cold"]
  BY DEF SwapOut, FieldsOK, IsRecord, Fields
<1> HIDE DEF p, new
<1>4. p.req = [kv.req EXCEPT ![r] = [@ EXCEPT !.table = new, !.tier = "cold"]]
  BY <1>3 DEF Live
<1> QED BY <1>1, <1>2, <1>4 DEF p, new

(* What a swap-in does to each field of the plane.                         *)
LEMMA SwapInFields ==
    ASSUME NEW kv, FieldsOK(kv), NEW r \in Live(kv), kv.req \in [Live(kv) -> States]
    PROVE  LET p == SwapIn(kv, r)
               new == NewTable(kv.hot, Len(kv.req[r].table))
           IN  /\ IsRecord(p) /\ p.cache = kv.cache /\ ClocksKept(kv, p)
               /\ p.cold = Released(kv.cold, TableBlocks(kv.req[r].table))
               /\ p.hot = Allocated(kv.hot, TableBlocks(new))
               /\ p.req = [kv.req EXCEPT ![r] = [@ EXCEPT !.table = new, !.tier = "hot"]]
<1> DEFINE p == SwapIn(kv, r)
           new == NewTable(kv.hot, Len(kv.req[r].table))
<1>1. IsRecord(p) /\ p.cache = kv.cache /\ ClocksKept(kv, p)
  BY DEF SwapIn, FieldsOK, IsRecord, Fields, ClocksKept
<1>2. p.cold = Released(kv.cold, TableBlocks(kv.req[r].table)) /\ p.hot = Allocated(kv.hot, TableBlocks(new))
  BY DEF SwapIn, FieldsOK, IsRecord, Fields
<1>3. p.req = [[kv.req EXCEPT ![r].table = new] EXCEPT ![r].tier = "hot"]
  BY DEF SwapIn, FieldsOK, IsRecord, Fields
<1> HIDE DEF p, new
<1>4. p.req = [kv.req EXCEPT ![r] = [@ EXCEPT !.table = new, !.tier = "hot"]]
  BY <1>3 DEF Live
<1> QED BY <1>1, <1>2, <1>4 DEF p, new

(* One request's state is another.                                         *)
LEMMA Restated ==
    ASSUME NEW kv, Live(kv) \subseteq Requests, kv.req \in [Live(kv) -> States], OrdersDiffer(kv),
           NEW r \in Live(kv), NEW state \in States, state.order = kv.req[r].order,
           NEW p, p.req = [kv.req EXCEPT ![r] = state], p.nextOrder = kv.nextOrder
    PROVE  /\ Live(p) = Live(kv) /\ p.req \in [Live(p) -> States] /\ p.req[r] = state
           /\ OthersKept(kv, p, r) /\ OrdersDiffer(p)
           /\ \A s \in Requests \ {r} : HotTable(p, s) = HotTable(kv, s) /\ ColdTable(p, s) = ColdTable(kv, s)
           /\ HotTable(p, r) = IF state.tier = "hot" THEN state.table ELSE <<>>
           /\ ColdTable(p, r) = IF state.tier = "hot" THEN <<>> ELSE state.table
<1>1. Live(p) = Live(kv) /\ p.req \in [Live(p) -> States] /\ p.req[r] = state BY DEF Live
<1>2. OthersKept(kv, p, r) BY DEF OthersKept, Live
<1>3. \A s \in Live(kv) : p.req[s].order = kv.req[s].order BY <1>1, <1>2 DEF OthersKept
<1>4. OrdersDiffer(p) BY <1>1, <1>3 DEF OrdersDiffer
<1>5. ASSUME NEW s \in Requests \ {r}
      PROVE  HotTable(p, s) = HotTable(kv, s) /\ ColdTable(p, s) = ColdTable(kv, s)
  <2>1. s \in Live(kv) => p.req[s] = kv.req[s] BY <1>2 DEF OthersKept
  <2> QED BY <1>1, <2>1 DEF HotTable, ColdTable, IsHot
<1>6. /\ HotTable(p, r) = IF state.tier = "hot" THEN state.table ELSE <<>>
      /\ ColdTable(p, r) = IF state.tier = "hot" THEN <<>> ELSE state.table
  BY <1>1 DEF HotTable, ColdTable, IsHot
<1> QED BY <1>1, <1>2, <1>4, <1>5, <1>6

(* What the plane invariant says, in the parts the step lemmas use.        *)
LEMMA RestIs ==
    ASSUME NEW kv, PlaneOK(kv)
    PROVE  /\ FieldsOK(kv) /\ Rest(kv) /\ HotSide(kv) /\ ColdSide(kv)
           /\ Live(kv) \subseteq Requests /\ kv.req \in [Live(kv) -> States] /\ OrdersDiffer(kv)
           /\ kv.cache \in Seq(Entries) /\ kv.hot \in [HotBlocks -> Nat] /\ kv.cold \in [ColdBlocks -> Nat]
           /\ DistinctKeys(kv.cache) /\ EntriesApart(Range(kv.cache))
<1>1. FieldsOK(kv) /\ Live(kv) \subseteq Requests BY PlaneParts DEF RequestsOK
<1>2. Rest(kv) /\ HotSide(kv) /\ ColdSide(kv) BY <1>1, SidesAre
<1> QED BY <1>1, <1>2 DEF Rest, FieldsOK

(* A live request has one table, on the tier it is on.                     *)
LEMMA LiveTables ==
    ASSUME NEW kv, PlaneOK(kv), NEW r \in Live(kv)
    PROVE  /\ r \in Requests /\ kv.req[r] \in States
           /\ IsHot(kv, r) => /\ HotTable(kv, r) = kv.req[r].table /\ ColdTable(kv, r) = <<>>
                              /\ kv.req[r].table \in Seq(HotRows) /\ kv.req[r].tier = "hot"
           /\ ~IsHot(kv, r) => /\ ColdTable(kv, r) = kv.req[r].table /\ HotTable(kv, r) = <<>>
                               /\ kv.req[r].table \in Seq(ColdRows) /\ kv.req[r].tier = "cold"
           /\ Distinct(kv.req[r].table) /\ Len(kv.req[r].table) \in Nat
<1>1. r \in Requests /\ kv.req[r] \in States BY RestIs
<1>2. kv.req[r].table \in Seq(IF IsHot(kv, r) THEN HotRows ELSE ColdRows) /\ TablesDistinct(kv)
  BY PlaneParts DEF RequestsOK
<1>3. kv.req[r].tier \in {"hot", "cold"} BY <1>1 DEF States
<1>4. Len(kv.req[r].table) \in Nat BY <1>2
<1> QED BY <1>1, <1>2, <1>3, <1>4 DEF HotTable, ColdTable, IsHot, TablesDistinct

(* A plane whose sides and remaining parts are right satisfies the         *)
(* invariant.                                                              *)
LEMMA Replaced ==
    ASSUME NEW kv, PlaneOK(kv), NEW p, IsRecord(p), p.cache = kv.cache,
           p.nextOrder \in Nat /\ p.clock \in Nat /\ p.batchId \in Nat,
           Live(p) \subseteq Requests, p.req \in [Live(p) -> States], OrdersDiffer(p),
           HotSide(p), ColdSide(p)
    PROVE  PlaneOK(p)
<1>1. Rest(kv) BY RestIs
<1>2. Rest(p) BY <1>1 DEF Rest, CacheFits
<1> QED BY <1>2, SidesAre

(* Rows over fewer blocks are rows.                                        *)
LEMMA RowsWithin ==
    ASSUME NEW B, NEW F \in SUBSET B, NEW T \in Seq([1 .. Layers -> F])
    PROVE  T \in Seq([1 .. Layers -> B])
<1>1. [1 .. Layers -> F] \subseteq [1 .. Layers -> B] OBVIOUS
<1>2. /\ Len(T) \in Nat /\ T = [i \in 1 .. Len(T) |-> T[i]]
      /\ \A i \in 1 .. Len(T) : T[i] \in [1 .. Layers -> F]
  OBVIOUS
<1>3. \A i \in 1 .. Len(T) : T[i] \in [1 .. Layers -> B] BY <1>1, <1>2
<1> QED BY <1>2, <1>3

(* A swap-out into enough free cold blocks preserves the plane invariant   *)
(* and the other requests.                                                 *)
LEMMA SwapOutOK ==
    ASSUME NEW kv, PlaneOK(kv), NEW r \in Live(kv), IsHot(kv, r),
           TotalBlocks(kv, r) <= Cardinality(Free(kv.cold)), NEW p, p = SwapOut(kv, r)
    PROVE  /\ PlaneOK(p) /\ p.cache = kv.cache /\ ClocksKept(kv, p)
           /\ Live(p) = Live(kv) /\ OthersKept(kv, p, r)
           /\ ~IsHot(p, r) /\ Len(p.req[r].table) = Len(kv.req[r].table)
           /\ Free(kv.hot) \subseteq Free(p.hot)
           /\ \A b \in HotBlocks : p.hot[b] = IF b \in TableBlocks(kv.req[r].table) THEN kv.hot[b] - 1 ELSE kv.hot[b]
           /\ Cardinality(Free(p.cold)) >= Cardinality(Free(kv.cold)) - TotalBlocks(kv, r)
<1> DEFINE old == kv.req[r].table
           new == NewTable(kv.cold, Len(old))
           state == [kv.req[r] EXCEPT !.table = new, !.tier = "cold"]
<1>1. /\ FieldsOK(kv) /\ HotSide(kv) /\ ColdSide(kv)
      /\ Live(kv) \subseteq Requests /\ kv.req \in [Live(kv) -> States] /\ OrdersDiffer(kv)
  BY RestIs
<1>2. /\ r \in Requests /\ kv.req[r] \in States /\ old \in Seq(HotRows) /\ Len(old) \in Nat
      /\ HotTable(kv, r) = old /\ ColdTable(kv, r) = <<>>
  BY LiveTables
<1>3. /\ IsRecord(p) /\ p.cache = kv.cache /\ ClocksKept(kv, p)
      /\ p.hot = Released(kv.hot, TableBlocks(old)) /\ p.cold = Allocated(kv.cold, TableBlocks(new))
      /\ p.req = [kv.req EXCEPT ![r] = state]
  BY <1>1, SwapOutFields
<1>4. kv.cold \in [0 .. ColdCapacity - 1 -> Nat] /\ ColdCapacity \in Nat
  BY <1>1, SizesAssumption DEF FieldsOK, ColdBlocks
<1>5. /\ new \in Seq([1 .. Layers -> Free(kv.cold)]) /\ Len(new) = Len(old) /\ Distinct(new)
      /\ TableBlocks(new) \in SUBSET Free(kv.cold)
      /\ Cardinality(Free(kv.cold) \ TableBlocks(new)) >= Cardinality(Free(kv.cold)) - RowBlocks(Len(old))
  <2>1. RowBlocks(Len(old)) <= Cardinality(Free(kv.cold)) BY DEF TotalBlocks, RowBlocks
  <2> HIDE DEF old
  <2> QED BY <1>2, <1>4, <2>1, NewTableIs
<1>6. new \in Seq(ColdRows)
  <2>1. Free(kv.cold) \in SUBSET ColdBlocks BY <1>4, PoolFree DEF ColdBlocks
  <2> HIDE DEF new
  <2> QED BY <1>5, <2>1, RowsWithin DEF ColdRows
<1> HIDE DEF new, old
<1>7. state \in States /\ state.order = kv.req[r].order /\ state.tier = "cold" /\ state.table = new
  BY <1>2, <1>6 DEF States
<1>8. /\ Live(p) = Live(kv) /\ p.req \in [Live(p) -> States] /\ p.req[r] = state
      /\ OthersKept(kv, p, r) /\ OrdersDiffer(p)
      /\ \A s \in Requests \ {r} : HotTable(p, s) = HotTable(kv, s) /\ ColdTable(p, s) = ColdTable(kv, s)
      /\ HotTable(p, r) = <<>> /\ ColdTable(p, r) = new
  <2> HIDE DEF state
  <2> QED BY <1>1, <1>3, <1>7, Restated DEF ClocksKept
<1>9. /\ HotSide(p) /\ Free(kv.hot) \subseteq Free(p.hot)
      /\ \A b \in HotBlocks : p.hot[b] = IF b \in TableBlocks(old) THEN kv.hot[b] - 1 ELSE kv.hot[b]
  BY <1>1, <1>2, <1>3, <1>8, HotDrop
<1>10. ColdSide(p) /\ Free(p.cold) = Free(kv.cold) \ TableBlocks(new)
  BY <1>1, <1>2, <1>3, <1>5, <1>6, <1>8, ColdFresh
<1>11. PlaneOK(p)
  <2>1. p.nextOrder \in Nat /\ p.clock \in Nat /\ p.batchId \in Nat BY <1>1, <1>3 DEF ClocksKept, FieldsOK
  <2> QED BY <1>1, <1>3, <1>8, <1>9, <1>10, <2>1, Replaced
<1>12. ~IsHot(p, r) /\ Len(p.req[r].table) = Len(old) BY <1>5, <1>7, <1>8 DEF IsHot
<1>13. Cardinality(Free(p.cold)) >= Cardinality(Free(kv.cold)) - TotalBlocks(kv, r)
  BY <1>5, <1>10 DEF TotalBlocks, RowBlocks, old
<1> QED BY <1>3, <1>8, <1>9, <1>11, <1>12, <1>13 DEF old

----------------------------------------------------------------------------
(* Swap-in and growth.                                                     *)

(* A swap-in into enough free hot blocks preserves the plane invariant and *)
(* the other requests.                                                     *)
LEMMA SwapInOK ==
    ASSUME NEW kv, PlaneOK(kv), NEW r \in Live(kv), ~IsHot(kv, r),
           TotalBlocks(kv, r) <= Cardinality(Free(kv.hot)), NEW p, p = SwapIn(kv, r)
    PROVE  /\ PlaneOK(p) /\ p.cache = kv.cache /\ ClocksKept(kv, p)
           /\ Live(p) = Live(kv) /\ OthersKept(kv, p, r)
           /\ IsHot(p, r) /\ Len(p.req[r].table) = Len(kv.req[r].table)
           /\ Cardinality(Free(p.hot)) >= Cardinality(Free(kv.hot)) - TotalBlocks(kv, r)
<1> DEFINE old == kv.req[r].table
           new == NewTable(kv.hot, Len(old))
           state == [kv.req[r] EXCEPT !.table = new, !.tier = "hot"]
<1>1. /\ FieldsOK(kv) /\ HotSide(kv) /\ ColdSide(kv) /\ kv.cache \in Seq(Entries)
      /\ Live(kv) \subseteq Requests /\ kv.req \in [Live(kv) -> States] /\ OrdersDiffer(kv)
  BY RestIs
<1>2. /\ r \in Requests /\ kv.req[r] \in States /\ old \in Seq(ColdRows) /\ Len(old) \in Nat
      /\ HotTable(kv, r) = <<>> /\ ColdTable(kv, r) = old
  BY LiveTables
<1>3. /\ IsRecord(p) /\ p.cache = kv.cache /\ ClocksKept(kv, p)
      /\ p.cold = Released(kv.cold, TableBlocks(old)) /\ p.hot = Allocated(kv.hot, TableBlocks(new))
      /\ p.req = [kv.req EXCEPT ![r] = state]
  BY <1>1, SwapInFields
<1>4. kv.hot \in [0 .. HotCapacity - 1 -> Nat] /\ HotCapacity \in Nat
  BY <1>1, SizesAssumption DEF FieldsOK, HotBlocks
<1>5. /\ new \in Seq([1 .. Layers -> Free(kv.hot)]) /\ Len(new) = Len(old) /\ Distinct(new)
      /\ TableBlocks(new) \in SUBSET Free(kv.hot) /\ DOMAIN new = 1 .. Len(old)
      /\ \A i \in 1 .. Len(old) : \A l \in 1 .. Layers : new[i][l] \in TableBlocks(new)
      /\ Cardinality(Free(kv.hot) \ TableBlocks(new)) >= Cardinality(Free(kv.hot)) - RowBlocks(Len(old))
  <2>1. RowBlocks(Len(old)) <= Cardinality(Free(kv.hot)) BY DEF TotalBlocks, RowBlocks
  <2> HIDE DEF old
  <2> QED BY <1>2, <1>4, <2>1, NewTableIs
<1>6. new \in Seq(HotRows)
  <2>1. Free(kv.hot) \in SUBSET HotBlocks BY <1>4, PoolFree DEF HotBlocks
  <2> HIDE DEF new
  <2> QED BY <1>5, <2>1, RowsWithin DEF HotRows
<1> HIDE DEF new, old
<1>7. state \in States /\ state.order = kv.req[r].order /\ state.tier = "hot" /\ state.table = new
  BY <1>2, <1>6 DEF States
<1>8. /\ Live(p) = Live(kv) /\ p.req \in [Live(p) -> States] /\ p.req[r] = state
      /\ OthersKept(kv, p, r) /\ OrdersDiffer(p)
      /\ \A s \in Requests \ {r} : HotTable(p, s) = HotTable(kv, s) /\ ColdTable(p, s) = ColdTable(kv, s)
      /\ HotTable(p, r) = new /\ ColdTable(p, r) = <<>>
  <2> HIDE DEF state
  <2> QED BY <1>1, <1>3, <1>7, Restated DEF ClocksKept
<1>9. HotSide(p) /\ Free(p.hot) = Free(kv.hot) \ TableBlocks(new)
  <2> DEFINE fresh == TableBlocks(new)
  <2>1. fresh \in SUBSET Free(kv.hot) /\ p.hot = Allocated(kv.hot, fresh) BY <1>3, <1>5
  <2>2. GrowsBy(<<>>, new, fresh) BY <1>5, EmptyTable DEF GrowsBy
  <2> HIDE DEF fresh
  <2>3. GrowsBy(HotTable(kv, r), HotTable(p, r), fresh) BY <2>2, <1>2, <1>8
  <2>4. HotTable(p, r) \in Seq(HotRows) /\ Distinct(HotTable(p, r)) BY <1>5, <1>6, <1>8
  <2>5. HotSide(p) /\ Free(p.hot) = Free(kv.hot) \ fresh
    BY <1>1, <1>2, <1>3, <1>8, <2>1, <2>3, <2>4, HotFresh
  <2> QED BY <2>5 DEF fresh
<1>10. ColdSide(p) BY <1>1, <1>2, <1>3, <1>8, ColdDrop
<1>11. PlaneOK(p)
  <2>1. p.nextOrder \in Nat /\ p.clock \in Nat /\ p.batchId \in Nat BY <1>1, <1>3 DEF ClocksKept, FieldsOK
  <2> QED BY <1>1, <1>3, <1>8, <1>9, <1>10, <2>1, Replaced
<1>12. IsHot(p, r) /\ Len(p.req[r].table) = Len(old) BY <1>5, <1>7, <1>8 DEF IsHot
<1>13. Cardinality(Free(p.hot)) >= Cardinality(Free(kv.hot)) - TotalBlocks(kv, r)
  BY <1>5, <1>9 DEF TotalBlocks, RowBlocks, old
<1> QED BY <1>3, <1>8, <1>11, <1>12, <1>13 DEF old

(* A longer table has its own blocks and the ones it grew by.              *)
LEMMA JoinedTable ==
    ASSUME NEW T \in Seq(HotRows), NEW U \in Seq(HotRows)
    PROVE  /\ T \o U \in Seq(HotRows) /\ Len(T \o U) = Len(T) + Len(U)
           /\ DOMAIN T \subseteq DOMAIN (T \o U) /\ \A i \in DOMAIN T : (T \o U)[i] = T[i]
           /\ \A i \in DOMAIN (T \o U) \ DOMAIN T : i - Len(T) \in DOMAIN U /\ (T \o U)[i] = U[i - Len(T)]
           /\ TableBlocks(T \o U) = TableBlocks(T) \cup TableBlocks(U)
<1> DEFINE V == T \o U
<1>1. /\ V \in Seq(HotRows) /\ Len(V) = Len(T) + Len(U) /\ DOMAIN V = 1 .. Len(T) + Len(U)
      /\ Len(T) \in Nat /\ Len(U) \in Nat /\ DOMAIN T = 1 .. Len(T) /\ DOMAIN U = 1 .. Len(U)
  OBVIOUS
<1>2. \A i \in 1 .. Len(T) : V[i] = T[i] OBVIOUS
<1>3. \A i \in 1 .. Len(U) : V[i + Len(T)] = U[i] OBVIOUS
<1> HIDE DEF V
<1>4. DOMAIN T \subseteq DOMAIN V /\ \A i \in DOMAIN T : V[i] = T[i] BY <1>1, <1>2
<1>5. ASSUME NEW i \in DOMAIN V \ DOMAIN T PROVE i - Len(T) \in DOMAIN U /\ V[i] = U[i - Len(T)]
  <2>1. i - Len(T) \in 1 .. Len(U) /\ (i - Len(T)) + Len(T) = i BY <1>1
  <2>2. V[(i - Len(T)) + Len(T)] = U[i - Len(T)] BY <1>3, <2>1
  <2> QED BY <1>1, <2>1, <2>2
<1>6. ASSUME NEW i \in DOMAIN U PROVE i + Len(T) \in DOMAIN V /\ V[i + Len(T)] = U[i]
  BY <1>1, <1>3
<1>7. TableBlocks(V) = TableBlocks(T) \cup TableBlocks(U)
  <2>1. TableBlocks(V) \subseteq TableBlocks(T) \cup TableBlocks(U)
    <3> SUFFICES ASSUME NEW i \in DOMAIN V, NEW l \in 1 .. Layers
                 PROVE  V[i][l] \in TableBlocks(T) \cup TableBlocks(U)
        BY DEF TableBlocks
    <3>1. CASE i \in DOMAIN T BY <3>1, <1>4 DEF TableBlocks
    <3>2. CASE i \notin DOMAIN T BY <3>2, <1>5 DEF TableBlocks
    <3> QED BY <3>1, <3>2
  <2>2. TableBlocks(T) \subseteq TableBlocks(V) BY <1>4 DEF TableBlocks
  <2>3. TableBlocks(U) \subseteq TableBlocks(V)
    <3> SUFFICES ASSUME NEW i \in DOMAIN U, NEW l \in 1 .. Layers PROVE U[i][l] \in TableBlocks(V)
        BY DEF TableBlocks
    <3> QED BY <1>6 DEF TableBlocks
  <2> QED BY <2>1, <2>2, <2>3
<1> QED BY <1>1, <1>4, <1>5, <1>7 DEF V

(* GrowAndPublish before it publishes.                                     *)
Longer(state, grown, last) == [state EXCEPT !.table = @ \o grown, !.last = last]
Grown(kv, r, n) ==
    LET grown == NewTable(kv.hot, n)
    IN  [kv EXCEPT !.hot = Allocated(@, TableBlocks(grown)),
                   !.req[r].table = @ \o grown, !.req[r].last = kv.batchId]

(* What the growth of a request's table does to each field of the plane.   *)
LEMMA GrownFields ==
    ASSUME NEW kv, FieldsOK(kv), NEW r \in Live(kv), kv.req \in [Live(kv) -> States],
           NEW n \in Nat, NEW p, p = Grown(kv, r, n), NEW new, new = NewTable(kv.hot, n),
           NEW state, state = Longer(kv.req[r], new, kv.batchId)
    PROVE  /\ IsRecord(p) /\ p.cache = kv.cache /\ ClocksKept(kv, p)
           /\ p.cold = kv.cold /\ p.hot = Allocated(kv.hot, TableBlocks(new))
           /\ p.req = [kv.req EXCEPT ![r] = state]
<1>1. IsRecord(p) /\ p.cache = kv.cache /\ ClocksKept(kv, p) /\ p.cold = kv.cold
  BY DEF Grown, FieldsOK, IsRecord, Fields, ClocksKept
<1>2. p.hot = Allocated(kv.hot, TableBlocks(new))
  BY DEF Grown, FieldsOK, IsRecord, Fields
<1>3. p.req = [[kv.req EXCEPT ![r].table = kv.req[r].table \o new] EXCEPT ![r].last = kv.batchId]
  BY DEF Grown, FieldsOK, IsRecord, Fields, Live
<1>4. p.req = [kv.req EXCEPT ![r] = state]
  BY <1>3 DEF Live, Longer
<1> QED BY <1>1, <1>2, <1>4

(* The growth of a request's table into enough free blocks preserves the   *)
(* plane invariant.                                                        *)
LEMMA GrownOK ==
    ASSUME NEW kv, PlaneOK(kv), NEW r \in Live(kv), IsHot(kv, r), NEW n \in Nat,
           RowBlocks(n) <= Cardinality(Free(kv.hot)), NEW p, p = Grown(kv, r, n)
    PROVE  /\ PlaneOK(p) /\ p.cache = kv.cache /\ ClocksKept(kv, p)
           /\ Live(p) = Live(kv) /\ OthersKept(kv, p, r)
           /\ IsHot(p, r) /\ Len(p.req[r].table) = Len(kv.req[r].table) + n
           /\ Cardinality(Free(p.hot)) >= Cardinality(Free(kv.hot)) - RowBlocks(n)
<1> DEFINE old == kv.req[r].table
           new == NewTable(kv.hot, n)
           all == old \o new
           state == Longer(kv.req[r], new, kv.batchId)
<1>1. /\ FieldsOK(kv) /\ HotSide(kv) /\ ColdSide(kv) /\ kv.cache \in Seq(Entries)
      /\ Live(kv) \subseteq Requests /\ kv.req \in [Live(kv) -> States] /\ OrdersDiffer(kv)
  BY RestIs
<1>2. /\ r \in Requests /\ kv.req[r] \in States /\ old \in Seq(HotRows) /\ Len(old) \in Nat /\ Distinct(old)
      /\ HotTable(kv, r) = old /\ ColdTable(kv, r) = <<>> /\ kv.req[r].tier = "hot"
  BY LiveTables
<1>3. /\ IsRecord(p) /\ p.cache = kv.cache /\ ClocksKept(kv, p)
      /\ p.cold = kv.cold /\ p.hot = Allocated(kv.hot, TableBlocks(new))
      /\ p.req = [kv.req EXCEPT ![r] = state]
  <2>1. new = NewTable(kv.hot, n) OBVIOUS
  <2>2. state = Longer(kv.req[r], new, kv.batchId) OBVIOUS
  <2> HIDE DEF new, state
  <2> QED BY <1>1, <2>1, <2>2, GrownFields
<1>4. kv.hot \in [0 .. HotCapacity - 1 -> Nat] /\ HotCapacity \in Nat
  BY <1>1, SizesAssumption DEF FieldsOK, HotBlocks
<1>5. /\ new \in Seq([1 .. Layers -> Free(kv.hot)]) /\ Len(new) = n /\ Distinct(new)
      /\ TableBlocks(new) \in SUBSET Free(kv.hot) /\ DOMAIN new = 1 .. n
      /\ \A i \in 1 .. n : \A l \in 1 .. Layers : new[i][l] \in TableBlocks(new)
      /\ Cardinality(Free(kv.hot) \ TableBlocks(new)) >= Cardinality(Free(kv.hot)) - RowBlocks(n)
  BY <1>4, NewTableIs
<1>6. new \in Seq(HotRows)
  <2>1. Free(kv.hot) \in SUBSET HotBlocks BY <1>4, PoolFree DEF HotBlocks
  <2> HIDE DEF new
  <2> QED BY <1>5, <2>1, RowsWithin DEF HotRows
<1> HIDE DEF new, old
<1>7. /\ all \in Seq(HotRows) /\ Len(all) = Len(old) + n
      /\ DOMAIN old \subseteq DOMAIN all /\ \A i \in DOMAIN old : all[i] = old[i]
      /\ \A i \in DOMAIN all \ DOMAIN old : i - Len(old) \in DOMAIN new /\ all[i] = new[i - Len(old)]
      /\ TableBlocks(all) = TableBlocks(old) \cup TableBlocks(new)
  BY <1>2, <1>5, <1>6, JoinedTable
<1>17. all = kv.req[r].table \o new BY DEF old
<1> HIDE DEF all
<1>8. \A i \in DOMAIN all \ DOMAIN old : \A l \in 1 .. Layers : all[i][l] \in TableBlocks(new)
  BY <1>5, <1>7
<1>9. \A b \in TableBlocks(new) : b \notin TableBlocks(old)
  <2>1. \A b \in TableBlocks(new) : b \in Free(kv.hot) BY <1>5
  <2> QED BY <2>1, <1>1, <1>2, FreeIsUnread
<1>10. Distinct(all)
  <2> SUFFICES ASSUME NEW i \in DOMAIN all, NEW j \in DOMAIN all, NEW l \in 1 .. Layers, NEW m \in 1 .. Layers,
                      all[i][l] = all[j][m]
               PROVE  i = j /\ l = m
      BY DEF Distinct
  <2>0. \A k \in DOMAIN old : \A h \in 1 .. Layers : all[k][h] \in TableBlocks(old) BY <1>7 DEF TableBlocks
  <2>1. CASE i \in DOMAIN old /\ j \in DOMAIN old BY <2>1, <1>2, <1>7 DEF Distinct
  <2>2. CASE i \in DOMAIN old /\ j \notin DOMAIN old BY <2>2, <2>0, <1>8, <1>9
  <2>3. CASE i \notin DOMAIN old /\ j \in DOMAIN old BY <2>3, <2>0, <1>8, <1>9
  <2>4. CASE i \notin DOMAIN old /\ j \notin DOMAIN old
    <3>1. /\ i - Len(old) \in DOMAIN new /\ j - Len(old) \in DOMAIN new
          /\ new[i - Len(old)][l] = new[j - Len(old)][m]
      BY <2>4, <1>7
    <3>2. i - Len(old) = j - Len(old) /\ l = m BY <3>1, <1>5 DEF Distinct
    <3>3. i \in Int /\ j \in Int BY <1>7
    <3> QED BY <3>2, <3>3, <1>2
  <2> QED BY <2>1, <2>2, <2>3, <2>4
<1>11. state \in States /\ state.order = kv.req[r].order /\ state.tier = "hot" /\ state.table = all
  <2>1. kv.batchId \in Int /\ all \in Seq(HotRows) \cup Seq(ColdRows) BY <1>1, <1>7 DEF FieldsOK
  <2>2. state \in States BY <1>2, <1>17, <2>1 DEF States, Longer
  <2>3. DOMAIN kv.req[r] = {"tier", "table", "order", "last", "hit", "arrival"} BY <1>2 DEF States
  <2>4. state.order = kv.req[r].order /\ state.tier = kv.req[r].tier /\ state.table = all BY <1>17, <2>3 DEF Longer
  <2> QED BY <1>2, <2>2, <2>4
<1>12. /\ Live(p) = Live(kv) /\ p.req \in [Live(p) -> States] /\ p.req[r] = state
       /\ OthersKept(kv, p, r) /\ OrdersDiffer(p)
       /\ \A s \in Requests \ {r} : HotTable(p, s) = HotTable(kv, s) /\ ColdTable(p, s) = ColdTable(kv, s)
       /\ HotTable(p, r) = all /\ ColdTable(p, r) = <<>>
  <2> HIDE DEF state
  <2> QED BY <1>1, <1>3, <1>11, Restated DEF ClocksKept
<1>13. HotSide(p) /\ Free(p.hot) = Free(kv.hot) \ TableBlocks(new)
  <2> DEFINE fresh == TableBlocks(new)
  <2>1. fresh \in SUBSET Free(kv.hot) /\ p.hot = Allocated(kv.hot, fresh) BY <1>3, <1>5
  <2>2. GrowsBy(old, all, fresh) BY <1>7, <1>8 DEF GrowsBy
  <2> HIDE DEF fresh
  <2>3. GrowsBy(HotTable(kv, r), HotTable(p, r), fresh) BY <2>2, <1>2, <1>12
  <2>4. HotTable(p, r) \in Seq(HotRows) /\ Distinct(HotTable(p, r)) BY <1>7, <1>10, <1>12
  <2>5. HotSide(p) /\ Free(p.hot) = Free(kv.hot) \ fresh
    BY <1>1, <1>2, <1>3, <1>12, <2>1, <2>3, <2>4, HotFresh
  <2> QED BY <2>5 DEF fresh
<1>14. ColdSide(p)
  <2>1. \A s \in Requests : ColdTable(p, s) = ColdTable(kv, s) BY <1>2, <1>12
  <2> QED BY <1>1, <1>3, <2>1, ColdSame
<1>15. PlaneOK(p)
  <2>1. p.nextOrder \in Nat /\ p.clock \in Nat /\ p.batchId \in Nat BY <1>1, <1>3 DEF ClocksKept, FieldsOK
  <2> QED BY <1>1, <1>3, <1>12, <1>13, <1>14, <2>1, Replaced
<1>16. IsHot(p, r) /\ Len(p.req[r].table) = Len(old) + n BY <1>7, <1>11, <1>12 DEF IsHot
<1> QED BY <1>3, <1>5, <1>12, <1>13, <1>15, <1>16 DEF old

----------------------------------------------------------------------------
(* Recomputation and release.                                              *)

(* A preempted request that is computed again.                             *)
Emptied(state) == [state EXCEPT !.table = <<>>]
Recompute(kv, r) ==
    [kv EXCEPT !.hot = Released(@, TableBlocks(kv.req[r].table)), !.req[r].table = <<>>]

(* What a preemption by recomputation does to each field of the plane.     *)
LEMMA RecomputeFields ==
    ASSUME NEW kv, FieldsOK(kv), NEW r \in Live(kv), kv.req \in [Live(kv) -> States],
           NEW p, p = Recompute(kv, r), NEW state, state = Emptied(kv.req[r])
    PROVE  /\ IsRecord(p) /\ p.cache = kv.cache /\ ClocksKept(kv, p)
           /\ p.cold = kv.cold /\ p.hot = Released(kv.hot, TableBlocks(kv.req[r].table))
           /\ p.req = [kv.req EXCEPT ![r] = state]
<1>1. IsRecord(p) /\ p.cache = kv.cache /\ ClocksKept(kv, p) /\ p.cold = kv.cold
  BY DEF Recompute, FieldsOK, IsRecord, Fields, ClocksKept
<1>2. p.hot = Released(kv.hot, TableBlocks(kv.req[r].table))
  BY DEF Recompute, FieldsOK, IsRecord, Fields
<1>3. p.req = [kv.req EXCEPT ![r].table = <<>>]
  BY DEF Recompute, FieldsOK, IsRecord, Fields, Live
<1>4. p.req = [kv.req EXCEPT ![r] = state]
  BY <1>3 DEF Live, Emptied
<1> QED BY <1>1, <1>2, <1>4

(* A preemption by recomputation preserves the plane invariant and leaves  *)
(* an empty table.                                                         *)
LEMMA RecomputeOK ==
    ASSUME NEW kv, PlaneOK(kv), NEW r \in Live(kv), IsHot(kv, r), NEW p, p = Recompute(kv, r)
    PROVE  /\ PlaneOK(p) /\ p.cache = kv.cache /\ ClocksKept(kv, p)
           /\ Live(p) = Live(kv) /\ OthersKept(kv, p, r) /\ IsHot(p, r) /\ p.req[r].table = <<>>
<1> DEFINE state == Emptied(kv.req[r])
<1>1. /\ FieldsOK(kv) /\ HotSide(kv) /\ ColdSide(kv)
      /\ Live(kv) \subseteq Requests /\ kv.req \in [Live(kv) -> States] /\ OrdersDiffer(kv)
  BY RestIs
<1>2. /\ r \in Requests /\ kv.req[r] \in States
      /\ HotTable(kv, r) = kv.req[r].table /\ ColdTable(kv, r) = <<>> /\ kv.req[r].tier = "hot"
  BY LiveTables
<1>3. /\ IsRecord(p) /\ p.cache = kv.cache /\ ClocksKept(kv, p)
      /\ p.cold = kv.cold /\ p.hot = Released(kv.hot, TableBlocks(kv.req[r].table))
      /\ p.req = [kv.req EXCEPT ![r] = state]
  <2>1. state = Emptied(kv.req[r]) OBVIOUS
  <2> HIDE DEF state
  <2> QED BY <1>1, <2>1, RecomputeFields
<1>4. state \in States /\ state.order = kv.req[r].order /\ state.tier = "hot" /\ state.table = <<>>
  <2>1. <<>> \in Seq(HotRows) \cup Seq(ColdRows) OBVIOUS
  <2>2. state \in States BY <1>2, <2>1 DEF States, Emptied
  <2>3. DOMAIN kv.req[r] = {"tier", "table", "order", "last", "hit", "arrival"} BY <1>2 DEF States
  <2>4. state.order = kv.req[r].order /\ state.tier = kv.req[r].tier /\ state.table = <<>> BY <2>3 DEF Emptied
  <2> QED BY <1>2, <2>2, <2>4
<1>5. /\ Live(p) = Live(kv) /\ p.req \in [Live(p) -> States] /\ p.req[r] = state
      /\ OthersKept(kv, p, r) /\ OrdersDiffer(p)
      /\ \A s \in Requests \ {r} : HotTable(p, s) = HotTable(kv, s) /\ ColdTable(p, s) = ColdTable(kv, s)
      /\ HotTable(p, r) = <<>> /\ ColdTable(p, r) = <<>>
  <2> HIDE DEF state
  <2> QED BY <1>1, <1>3, <1>4, Restated DEF ClocksKept
<1>6. HotSide(p) BY <1>1, <1>2, <1>3, <1>5, HotDrop
<1>7. ColdSide(p)
  <2>1. \A s \in Requests : ColdTable(p, s) = ColdTable(kv, s) BY <1>2, <1>5
  <2> QED BY <1>1, <1>3, <2>1, ColdSame
<1>8. PlaneOK(p)
  <2>1. p.nextOrder \in Nat /\ p.clock \in Nat /\ p.batchId \in Nat BY <1>1, <1>3 DEF ClocksKept, FieldsOK
  <2> QED BY <1>1, <1>3, <1>5, <1>6, <1>7, <2>1, Replaced
<1>9. IsHot(p, r) /\ p.req[r].table = <<>> BY <1>4, <1>5 DEF IsHot
<1> QED BY <1>3, <1>5, <1>8, <1>9

(* What is left when a request goes, before release_order.                 *)
Dropped(kv, r) ==
    LET held == TableBlocks(kv.req[r].table)
        others == [kv EXCEPT !.req = [s \in Live(kv) \ {r} |-> kv.req[s]]]
    IN  IF IsHot(kv, r)
        THEN [others EXCEPT !.hot = Released(@, held)]
        ELSE [others EXCEPT !.cold = Released(@, held)]

(* What dropping a request does to each field of the plane.                *)
LEMMA DroppedFields ==
    ASSUME NEW kv, FieldsOK(kv), NEW r \in Live(kv), NEW p, p = Dropped(kv, r)
    PROVE  /\ IsRecord(p) /\ p.cache = kv.cache /\ ClocksKept(kv, p)
           /\ IsHot(kv, r) => p.cold = kv.cold /\ p.hot = Released(kv.hot, TableBlocks(kv.req[r].table))
           /\ ~IsHot(kv, r) => p.hot = kv.hot /\ p.cold = Released(kv.cold, TableBlocks(kv.req[r].table))
           /\ p.req = [s \in Live(kv) \ {r} |-> kv.req[s]]
BY DEF Dropped, FieldsOK, IsRecord, Fields, ClocksKept

(* Dropping a request preserves the plane invariant and the other          *)
(* requests.                                                               *)
LEMMA DroppedOK ==
    ASSUME NEW kv, PlaneOK(kv), NEW r \in Live(kv), NEW p, p = Dropped(kv, r)
    PROVE  /\ PlaneOK(p) /\ p.cache = kv.cache /\ ClocksKept(kv, p)
           /\ Live(p) = Live(kv) \ {r} /\ OthersKept(kv, p, r)
<1>1. /\ FieldsOK(kv) /\ HotSide(kv) /\ ColdSide(kv)
      /\ Live(kv) \subseteq Requests /\ kv.req \in [Live(kv) -> States] /\ OrdersDiffer(kv)
  BY RestIs
<1>2. /\ r \in Requests
      /\ IsHot(kv, r) => HotTable(kv, r) = kv.req[r].table /\ ColdTable(kv, r) = <<>>
      /\ ~IsHot(kv, r) => ColdTable(kv, r) = kv.req[r].table /\ HotTable(kv, r) = <<>>
  BY LiveTables
<1>3. /\ IsRecord(p) /\ p.cache = kv.cache /\ ClocksKept(kv, p)
      /\ IsHot(kv, r) => p.cold = kv.cold /\ p.hot = Released(kv.hot, TableBlocks(kv.req[r].table))
      /\ ~IsHot(kv, r) => p.hot = kv.hot /\ p.cold = Released(kv.cold, TableBlocks(kv.req[r].table))
      /\ p.req = [s \in Live(kv) \ {r} |-> kv.req[s]]
  BY <1>1, DroppedFields
<1>4. /\ Live(p) = Live(kv) \ {r} /\ p.req \in [Live(p) -> States]
      /\ \A s \in Live(p) : p.req[s] = kv.req[s]
  BY <1>1, <1>3 DEF Live
<1>5. OthersKept(kv, p, r) BY <1>4 DEF OthersKept
<1>6. OrdersDiffer(p) BY <1>1, <1>3, <1>4 DEF OrdersDiffer, ClocksKept
<1>7. /\ \A s \in Requests \ {r} : HotTable(p, s) = HotTable(kv, s) /\ ColdTable(p, s) = ColdTable(kv, s)
      /\ HotTable(p, r) = <<>> /\ ColdTable(p, r) = <<>>
  BY <1>4 DEF HotTable, ColdTable, IsHot
<1>8. HotSide(p) /\ ColdSide(p)
  <2>1. CASE IsHot(kv, r)
    <3>1. HotSide(p) BY <1>1, <1>2, <1>3, <1>7, <2>1, HotDrop
    <3>2. \A s \in Requests : ColdTable(p, s) = ColdTable(kv, s) BY <1>2, <1>7, <2>1
    <3>3. ColdSide(p) BY <1>1, <1>3, <2>1, <3>2, ColdSame
    <3> QED BY <3>1, <3>3
  <2>2. CASE ~IsHot(kv, r)
    <3>1. ColdSide(p) BY <1>1, <1>2, <1>3, <1>7, <2>2, ColdDrop
    <3>2. \A s \in Requests : HotTable(p, s) = HotTable(kv, s) BY <1>2, <1>7, <2>2
    <3>3. HotSide(p) BY <1>1, <1>3, <2>2, <3>2, HotSame
    <3> QED BY <3>1, <3>3
  <2> QED BY <2>1, <2>2
<1>9. PlaneOK(p)
  <2>1. p.nextOrder \in Nat /\ p.clock \in Nat /\ p.batchId \in Nat BY <1>1, <1>3 DEF ClocksKept, FieldsOK
  <2>2. Live(p) \subseteq Requests BY <1>1, <1>4
  <2> QED BY <1>3, <1>4, <1>6, <1>8, <2>1, <2>2, Replaced
<1> QED BY <1>3, <1>4, <1>5, <1>9

(* The release of a request (KvPlacement.release_request) preserves the    *)
(* plane invariant: every count it held is given back, and no other        *)
(* request is touched.                                                     *)
THEOREM ReleaseOK ==
    ASSUME NEW kv, PlaneOK(kv), NEW r \in Live(kv), NEW p, p = ReleaseRequest(kv, r)
    PROVE  /\ PlaneOK(p) /\ ClocksKept(kv, p)
           /\ Live(p) = Live(kv) \ {r} /\ OthersKept(kv, p, r)
<1> DEFINE q == Dropped(kv, r)
<1>1. /\ PlaneOK(q) /\ ClocksKept(kv, q) /\ Live(q) = Live(kv) \ {r} /\ OthersKept(kv, q, r)
  <2>1. q = Dropped(kv, r) OBVIOUS
  <2> HIDE DEF q
  <2> QED BY <2>1, DroppedOK
<1>2. r \in Requests BY RestIs
<1>3. CASE IsHot(kv, r)
  <2>1. p = ReleaseOrder(q, r) BY <1>3 DEF ReleaseRequest, Dropped
  <2> HIDE DEF q
  <2>2. CacheStep(q, p) BY <1>1, <1>2, <2>1, ReleaseOrderOK
  <2> QED BY <1>1, <2>2 DEF CacheStep, CacheOnly, ClocksKept, OthersKept, Live
<1>4. CASE ~IsHot(kv, r)
  <2>1. p = q BY <1>4 DEF ReleaseRequest, Dropped
  <2> QED BY <1>1, <2>1
<1> QED BY <1>3, <1>4

(* Swapped out, or emptied when there is no room.                          *)
THEOREM PreemptOK ==
    ASSUME NEW kv, PlaneOK(kv), NEW r \in Live(kv), IsHot(kv, r), NEW p, p = Preempt(kv, r)
    PROVE  /\ PlaneOK(p) /\ ClocksKept(kv, p) /\ Live(p) = Live(kv) /\ OthersKept(kv, p, r)
           /\ p.req[r].table = <<>> \/ ~IsHot(p, r)
<1>1. CASE PreemptMode(kv, r) = "swap_out"
  <2>0. FieldsOK(kv) BY RestIs
  <2>1. TotalBlocks(kv, r) <= Cardinality(Free(kv.cold))
    <3>1. Cardinality(Free(kv.cold)) >= TotalBlocks(kv, r) BY <1>1 DEF PreemptMode
    <3>2. kv.cold \in [0 .. ColdCapacity - 1 -> Nat] /\ ColdCapacity \in Nat
      BY <2>0, SizesAssumption DEF FieldsOK, ColdBlocks
    <3>3. Cardinality(Free(kv.cold)) \in Nat BY <3>2, PoolFree
    <3>4. TotalBlocks(kv, r) \in Int
      <4>1. Len(kv.req[r].table) \in Nat /\ Layers \in Nat BY LiveTables, SizesAssumption
      <4> QED BY <4>1 DEF TotalBlocks
    <3> QED BY <3>1, <3>3, <3>4
  <2>2. p = SwapOut(kv, r) BY <1>1 DEF Preempt
  <2> QED BY <2>1, <2>2, SwapOutOK
<1>2. CASE PreemptMode(kv, r) # "swap_out"
  <2>1. p = Recompute(kv, r) BY <1>2 DEF Preempt, Recompute
  <2> QED BY <2>1, RecomputeOK
<1> QED BY <1>1, <1>2

----------------------------------------------------------------------------
(* Admission.                                                              *)

(* There is a longest cached prefix.                                       *)
LEMMA HitLengthIs ==
    ASSUME NEW kv, NEW r, NEW limit \in Nat
    PROVE  /\ HitLength(kv, r, limit) \in 0 .. limit
           /\ \A i \in 1 .. HitLength(kv, r, limit) : Key(r, i) \in CacheKeys(kv)
<1> DEFINE Cached(n) == \A i \in 1 .. n : Key(r, i) \in CacheKeys(kv)
           P(n) == Cached(n) /\ (n < limit => Key(r, n + 1) \notin CacheKeys(kv))
           G == {n \in 0 .. limit : Cached(n)}
<1>1. \E n \in 0 .. limit : P(n)
  <2> SUFFICES ASSUME \A n \in 0 .. limit : ~P(n) PROVE FALSE OBVIOUS
  <2>1. 0 \in G OBVIOUS
  <2>2. ASSUME NEW k \in G, k \in 0 .. limit - 1 PROVE k + 1 \in G
    <3>1. Key(r, k + 1) \in CacheKeys(kv) /\ Cached(k) BY <2>2
    <3>2. \A i \in 1 .. k + 1 : i \in 1 .. k \/ i = k + 1 BY <2>2
    <3>3. Cached(k + 1) BY <3>1, <3>2
    <3> QED BY <2>2, <3>3
  <2>3. limit \in G
    <3> HIDE DEF G
    <3>1. \A k \in 0 .. limit : k \in G BY <2>1, <2>2, Sums!PrefixInduction
    <3> QED BY <3>1
  <2>4. Cached(limit) /\ ~(limit < limit) BY <2>3
  <2> QED BY <2>4
<1>2. HitLength(kv, r, limit) = CHOOSE n \in 0 .. limit : P(n) BY DEF HitLength
<1> HIDE DEF P
<1>3. HitLength(kv, r, limit) \in 0 .. limit /\ P(HitLength(kv, r, limit)) BY <1>1, <1>2
<1> QED BY <1>3 DEF P

(* A request may hit at most the whole blocks of its prompt, and one token *)
(* less than all of it.                                                    *)
LEMMA HitLimitIs ==
    ASSUME NEW r \in Requests
    PROVE  HitLimit(r) \in Nat /\ HitLimit(r) <= Len(Content[r]) /\ (Content[r] = <<>> => HitLimit(r) = 0)
<1>1. Prompt[r] \in Nat \ {0} /\ Len(Content[r]) \in Nat /\ BlockTokens \in Nat \ {0}
  BY RequestsAssumption, SizesAssumption
<1>2. (Prompt[r] - 1) \div BlockTokens \in Nat BY <1>1
<1>3. Content[r] = <<>> => Len(Content[r]) = 0 OBVIOUS
<1> QED BY <1>1, <1>2, <1>3 DEF HitLimit, AtMost

(* Admit, from the plane whose cache was looked up and touched.            *)
NewState(kv, n, arrival, table) ==
    [tier |-> "hot", table |-> table, order |-> kv.nextOrder, last |-> -1, hit |-> n, arrival |-> arrival]
WithRequest(kv, r, state) == [s \in Live(kv) \cup {r} |-> IF s = r THEN state ELSE kv.req[s]]
Joins(touched, kv, r, state) ==
    [touched EXCEPT !.hot = Retained(@, TableBlocks(state.table)),
                    !.req = WithRequest(kv, r, state),
                    !.nextOrder = @ + 1]

(* What the arrival of a request on the plane does to each field.          *)
LEMMA JoinsFields ==
    ASSUME NEW kv, NEW touched, FieldsOK(touched), NEW r, NEW state, NEW p, p = Joins(touched, kv, r, state)
    PROVE  /\ IsRecord(p) /\ p.cache = touched.cache /\ p.cold = touched.cold
           /\ p.hot = Retained(touched.hot, TableBlocks(state.table))
           /\ p.nextOrder = touched.nextOrder + 1 /\ p.clock = touched.clock /\ p.batchId = touched.batchId
           /\ p.pending = touched.pending
           /\ p.req = WithRequest(kv, r, state)
BY DEF Joins, FieldsOK, IsRecord, Fields

(* The admission of a request (KvPlacement.admit_request), with the prefix *)
(* it shares, preserves the plane invariant: the hit blocks gain one count *)
(* each.                                                                   *)
THEOREM AdmitOK ==
    ASSUME NEW kv, PlaneOK(kv), NEW r \in Requests, r \notin Live(kv), NEW now \in Int,
           NEW arrival \in Nat, NEW p, p = Admit(kv, r, now, arrival)
    PROVE  /\ PlaneOK(p) /\ Live(p) = Live(kv) \cup {r} /\ OthersKept(kv, p, r)
           /\ IsHot(p, r) /\ Len(p.req[r].table) = AdmitHit(kv, r, now)
           /\ p.pending = kv.pending /\ p.clock = kv.clock /\ p.batchId = kv.batchId
<1> DEFINE n == AdmitHit(kv, r, now)
           looked == IF CacheBlocks > 0 /\ Content[r] # <<>> THEN Expire(kv, now) ELSE kv
           touched == FoldLeft(LAMBDA q, i : MoveToEnd(q, Key(r, i)), looked, [i \in 1 .. n |-> i])
           table == [i \in 1 .. n |-> EntryOf(looked, Key(r, i)).blocks]
           state == NewState(kv, n, arrival, table)
<1>1. p = Joins(touched, kv, r, state) BY DEF Admit, Joins, NewState, WithRequest
<1>2. CacheStep(kv, looked) BY ExpireOK, CacheOnlyItself DEF CacheStep
<1>3. HitLimit(r) \in Nat /\ HitLimit(r) <= Len(Content[r]) /\ (Content[r] = <<>> => HitLimit(r) = 0)
      /\ Len(Content[r]) \in Nat
  BY HitLimitIs, RequestsAssumption
<1>4. n \in Nat /\ n <= Len(Content[r]) /\ \A i \in 1 .. n : Key(r, i) \in CacheKeys(looked)
  <2>1. CASE CacheBlocks > 0
    <3> DEFINE e == Expire(kv, now)
               h == HitLength(e, r, HitLimit(r))
    <3>1. n = h BY <2>1 DEF AdmitHit
    <3>2. h \in 0 .. HitLimit(r) /\ \A i \in 1 .. h : Key(r, i) \in CacheKeys(e) BY <1>3, HitLengthIs
    <3>3. Content[r] # <<>> => looked = e BY <2>1
    <3> HIDE DEF e, h, n, looked
    <3> QED BY <1>3, <3>1, <3>2, <3>3
  <2>2. CASE ~(CacheBlocks > 0)
    <3>1. n = 0 BY <2>2 DEF AdmitHit
    <3> HIDE DEF n
    <3> QED BY <1>3, <3>1
  <2> QED BY <2>1, <2>2
<1> HIDE DEF n
<1>5. PlaneOK(looked) /\ CacheOnly(kv, looked) BY <1>2 DEF CacheStep
<1>6. /\ CacheStep(looked, touched) /\ Range(touched.cache) = Range(looked.cache) /\ touched.hot = looked.hot
  <2> HIDE DEF looked
  <2> QED BY <1>4, <1>5, TouchAllOK
<1> HIDE DEF looked, touched
<1>7. CacheStep(kv, touched) BY <1>2, <1>6, CacheOnlyTransitive DEF CacheStep
<1>8. /\ FieldsOK(touched) /\ HotSide(touched) /\ ColdSide(touched) /\ touched.cache \in Seq(Entries)
      /\ DistinctKeys(touched.cache) /\ EntriesApart(Range(touched.cache)) /\ PlaneOK(touched)
  BY <1>7, RestIs DEF CacheStep
<1>9. /\ touched.req = kv.req /\ touched.nextOrder = kv.nextOrder /\ touched.pending = kv.pending
      /\ touched.clock = kv.clock /\ touched.batchId = kv.batchId
  BY <1>7 DEF CacheStep, CacheOnly
<1>10. Live(touched) = Live(kv) /\ r \notin Live(touched) BY <1>9 DEF Live
<1>11. CacheKeys(touched) = CacheKeys(looked) BY <1>6, CacheKeysAre
<1>12. ASSUME NEW i \in 1 .. n PROVE EntryOf(touched, Key(r, i)) = EntryOf(looked, Key(r, i))
  <2>0. looked.cache \in Seq(Entries) /\ DistinctKeys(looked.cache) BY <1>5, RestIs
  <2>1. Key(r, i) \in CacheKeys(looked) /\ Key(r, i) \in CacheKeys(touched) BY <1>4, <1>11
  <2>2. EntryOf(looked, Key(r, i)) \in Range(looked.cache) /\ EntryOf(looked, Key(r, i)).key = Key(r, i)
    BY <2>0, <2>1, EntryOfKey
  <2>3. \A e \in Range(touched.cache) : e.key = Key(r, i) => e = EntryOf(touched, Key(r, i))
    BY <1>8, <2>1, EntryOfKey
  <2> QED BY <1>6, <2>2, <2>3
<1>13. table = [i \in 1 .. n |-> EntryOf(touched, Key(r, i)).blocks] BY <1>12
<1> HIDE DEF table
<1>14. table \in Seq(HotRows) /\ Len(table) = n
  <2>1. ASSUME NEW i \in 1 .. n PROVE EntryOf(touched, Key(r, i)).blocks \in HotRows
    <3>1. EntryOf(touched, Key(r, i)) \in Entries BY <1>4, <1>8, <1>11, EntryOfKey
    <3> QED BY <3>1 DEF Entries
  <2> QED BY <1>4, <1>13, <2>1
<1>15. kv.nextOrder \in Nat /\ Live(kv) \subseteq Requests /\ kv.req \in [Live(kv) -> States] /\ OrdersDiffer(kv)
  BY RestIs DEF FieldsOK
<1>16. state \in States /\ state.table = table /\ state.tier = "hot" /\ state.order = kv.nextOrder
  BY <1>4, <1>14, <1>15 DEF NewState, States
<1> HIDE DEF state
<1>17. /\ IsRecord(p) /\ p.cache = touched.cache /\ p.cold = touched.cold
       /\ p.hot = Retained(touched.hot, TableBlocks(state.table))
       /\ p.nextOrder = touched.nextOrder + 1 /\ p.clock = touched.clock /\ p.batchId = touched.batchId
       /\ p.pending = touched.pending
       /\ p.req = WithRequest(kv, r, state)
  BY <1>1, <1>8, JoinsFields
<1>18. /\ Live(p) = Live(kv) \cup {r} /\ p.req \in [Live(p) -> States] /\ p.req[r] = state
       /\ \A s \in Live(kv) : s # r /\ p.req[s] = kv.req[s]
  <2>1. Live(p) = Live(kv) \cup {r} BY <1>17 DEF Live, WithRequest
  <2>2. \A s \in Live(kv) : s # r BY DEF Live
  <2> QED BY <1>15, <1>16, <1>17, <2>1, <2>2 DEF WithRequest
<1>19. OrdersDiffer(p)
  <2>1. \A s \in Live(kv) : p.req[s].order = kv.req[s].order /\ kv.req[s].order < kv.nextOrder
                            /\ kv.req[s].order \in Nat
    <3>1. \A s \in Live(kv) : kv.req[s] \in States BY <1>15
    <3> QED BY <1>15, <1>18, <3>1 DEF OrdersDiffer, States
  <2>2. p.req[r].order = kv.nextOrder /\ p.nextOrder = kv.nextOrder + 1 BY <1>9, <1>16, <1>17, <1>18
  <2>3. \A s, t \in Live(kv) : kv.req[s].order = kv.req[t].order => s = t BY <1>15 DEF OrdersDiffer
  <2> QED BY <1>15, <1>18, <2>1, <2>2, <2>3 DEF OrdersDiffer
<1>20. /\ \A s \in Requests \ {r} : HotTable(p, s) = HotTable(touched, s) /\ ColdTable(p, s) = ColdTable(touched, s)
       /\ HotTable(touched, r) = <<>> /\ ColdTable(touched, r) = <<>>
       /\ HotTable(p, r) = table /\ ColdTable(p, r) = <<>>
  <2>1. \A s \in Requests \ {r} : s \in Live(p) <=> s \in Live(touched) BY <1>10, <1>18
  <2>2. \A s \in Live(touched) : p.req[s] = touched.req[s] BY <1>9, <1>10, <1>18
  <2>3. r \in Live(p) BY <1>18
  <2> QED BY <1>10, <1>16, <1>18, <2>1, <2>2, <2>3 DEF HotTable, ColdTable, IsHot
<1>21. HotSide(p)
  <2>1. \A i \in 1 .. n : Key(r, i) \in CacheKeys(touched) BY <1>4, <1>11
  <2>2. /\ p.hot = Retained(touched.hot, TableBlocks(HotTable(p, r)))
        /\ HotTable(p, r) = [i \in 1 .. n |-> EntryOf(touched, Key(r, i)).blocks]
    BY <1>13, <1>16, <1>17, <1>20
  <2>3. \A s \in Requests \ {r} : HotTable(p, s) = HotTable(touched, s) BY <1>20
  <2> DEFINE T == HotTable(p, r)
  <2>4. T = HotTable(p, r) OBVIOUS
  <2>5. T = [i \in 1 .. n |-> EntryOf(touched, Key(r, i)).blocks] BY <2>2
  <2>6. p.hot = Retained(touched.hot, TableBlocks(T)) BY <2>2
  <2> HIDE DEF T
  <2> QED BY <1>4, <1>8, <1>17, <1>20, <2>1, <2>3, <2>4, <2>5, <2>6, HotHit
<1>22. ColdSide(p)
  <2>1. \A s \in Requests : ColdTable(p, s) = ColdTable(touched, s) BY <1>20
  <2> QED BY <1>8, <1>17, <2>1, ColdSame
<1>23. PlaneOK(p)
  <2>1. p.nextOrder \in Nat /\ p.clock \in Nat /\ p.batchId \in Nat BY <1>8, <1>17 DEF FieldsOK
  <2>2. Live(p) \subseteq Requests BY <1>15, <1>18
  <2> QED BY <1>8, <1>17, <1>18, <1>19, <1>21, <1>22, <2>1, <2>2, Replaced
<1>24. OthersKept(kv, p, r) BY <1>18 DEF OthersKept
<1>25. IsHot(p, r) /\ Len(p.req[r].table) = n BY <1>14, <1>16, <1>18 DEF IsHot
<1> QED BY <1>9, <1>17, <1>18, <1>23, <1>24, <1>25 DEF n

----------------------------------------------------------------------------
(* The cost of a batch.                                                    *)

(* Block counts.                                                           *)
LEMMA DivisionIs ==
    ASSUME NEW a \in Nat, NEW d \in Nat \ {0}
    PROVE  /\ a \div d \in Nat /\ d * (a \div d) <= a /\ a < d * (a \div d) + d
OBVIOUS

(* Multiplication by a number is monotone.                                 *)
LEMMA ProductGrows ==
    ASSUME NEW d \in Nat, NEW x \in Nat, NEW y \in Nat, x <= y
    PROVE  d * x <= d * y
OBVIOUS

(* Division by a number is monotone.                                       *)
LEMMA DivisionGrows ==
    ASSUME NEW a \in Nat, NEW b \in Nat, a <= b, NEW d \in Nat \ {0}
    PROVE  a \div d <= b \div d
<1> DEFINE q == a \div d
           s == b \div d
<1>1. q \in Nat /\ d * q <= a /\ s \in Nat /\ b < d * s + d BY DivisionIs
<1> HIDE DEF q, s
<1>2. d * (s + 1) = d * s + d BY <1>1
<1>3. q >= s + 1 => d * (s + 1) <= d * q BY <1>1, ProductGrows
<1>4. d * q \in Nat /\ d * s \in Nat BY <1>1
<1> DEFINE x == d * q
           y == d * s
           z == d * (s + 1)
<1>5. x <= a /\ b < y + d /\ z = y + d /\ (q >= s + 1 => z <= x) /\ x \in Nat /\ y \in Nat
  BY <1>1, <1>2, <1>3, <1>4
<1> HIDE DEF x, y, z
<1>6. q <= s BY <1>1, <1>5
<1> QED BY <1>6 DEF q, s

(* The blocks for a number of tokens cover the tokens' whole blocks.       *)
LEMMA BlocksForIs ==
    ASSUME NEW t \in Nat
    PROVE  /\ BlocksFor(t) \in Nat
           /\ \A r \in Requests : AtMost(t, Prompt[r]) \div BlockTokens \in Nat
                                  /\ AtMost(t, Prompt[r]) \div BlockTokens <= BlocksFor(t)
           /\ t > 0 => BlocksFor(t) > 0
<1>1. BlockTokens \in Nat \ {0} BY SizesAssumption
<1>2. t + BlockTokens - 1 \in Nat /\ t <= t + BlockTokens - 1 BY <1>1
<1>3. BlocksFor(t) \in Nat BY <1>1, <1>2, DivisionIs DEF BlocksFor
<1>4. ASSUME NEW r \in Requests
      PROVE  AtMost(t, Prompt[r]) \div BlockTokens \in Nat /\ AtMost(t, Prompt[r]) \div BlockTokens <= BlocksFor(t)
  <2> DEFINE a == AtMost(t, Prompt[r])
  <2>1. Prompt[r] \in Nat BY RequestsAssumption
  <2>2. a \in Nat /\ a <= t BY <2>1 DEF AtMost
  <2> HIDE DEF a
  <2>3. a \div BlockTokens \in Nat BY <1>1, <2>2, DivisionIs
  <2>4. a <= t + BlockTokens - 1 BY <1>1, <2>2
  <2>5. a \div BlockTokens <= (t + BlockTokens - 1) \div BlockTokens BY <1>1, <1>2, <2>2, <2>4, DivisionGrows
  <2> QED BY <2>3, <2>5 DEF a, BlocksFor
<1>5. t > 0 => BlocksFor(t) > 0
  <2> SUFFICES ASSUME t > 0 PROVE BlocksFor(t) > 0 OBVIOUS
  <2>1. BlockTokens <= t + BlockTokens - 1 BY <1>1
  <2>2. BlockTokens \div BlockTokens <= BlocksFor(t) BY <1>1, <1>2, <2>1, DivisionGrows DEF BlocksFor
  <2>3. BlockTokens \div BlockTokens = 1 BY <1>1
  <2> QED BY <1>3, <2>2, <2>3
<1> QED BY <1>3, <1>4, <1>5

----------------------------------------------------------------------------
(* The slices of an iteration: of different live requests.                 *)
SlicesOK(kv, slices) ==
    /\ slices \in Seq(Range(slices))
    /\ \A i \in DOMAIN slices : /\ slices[i].req \in Live(kv)
                                /\ slices[i].begin \in Nat /\ slices[i].count \in Nat
    /\ \A i, j \in DOMAIN slices : slices[i].req = slices[j].req => i = j

(* What a slice needs of the hot pool.                                     *)
Cost(kv, slice) ==
    Growth(kv, slice) * Layers + IF IsHot(kv, slice.req) THEN 0 ELSE TotalBlocks(kv, slice.req)
Costs(kv, slices) == [i \in DOMAIN slices |-> Cost(kv, slices[i])]
Covered(kv, slices) == Needed(kv, slices) <= Cardinality(Free(kv.hot))

(* The blocks a batch needs are the total of its slices' costs.            *)
LEMMA NeededIs ==
    ASSUME NEW kv, NEW slices
    PROVE  Needed(kv, slices) = Total(Costs(kv, slices), DOMAIN slices)
<1>1. DOMAIN Costs(kv, slices) = DOMAIN slices BY DEF Costs
<1>2. Needed(kv, slices) = SumFunction(Costs(kv, slices)) BY DEF Needed, Costs, Cost
<1> QED BY <1>1, <1>2 DEF SumFunction, Total, SumFunctionOnSet

(* The blocks of a number of rows.                                         *)
LEMMA RowBlocksIs ==
    ASSUME NEW n \in Nat PROVE RowBlocks(n) \in Nat /\ RowBlocks(0) = 0
BY SizesAssumption DEF RowBlocks

(* The cost of a slice: the growth of its request's table, and the whole   *)
(* table if it comes from the cold tier.                                   *)
LEMMA CostIs ==
    ASSUME NEW kv, PlaneOK(kv), NEW s, s.req \in Live(kv), s.begin \in Nat, s.count \in Nat
    PROVE  /\ Growth(kv, s) \in Nat /\ Len(kv.req[s.req].table) \in Nat /\ Tokens(s) \in Nat
           /\ Len(kv.req[s.req].table) + Growth(kv, s) >= BlocksFor(Tokens(s))
           /\ Len(kv.req[s.req].table) >= BlocksFor(Tokens(s)) => Growth(kv, s) = 0
           /\ TotalBlocks(kv, s.req) = RowBlocks(Len(kv.req[s.req].table)) /\ TotalBlocks(kv, s.req) \in Nat
           /\ Cost(kv, s) \in Nat
           /\ IsHot(kv, s.req) => Cost(kv, s) = RowBlocks(Growth(kv, s))
           /\ ~IsHot(kv, s.req) => Cost(kv, s) = RowBlocks(Growth(kv, s)) + TotalBlocks(kv, s.req)
<1>1. Len(kv.req[s.req].table) \in Nat BY LiveTables
<1>2. Tokens(s) \in Nat BY DEF Tokens
<1>3. BlocksFor(Tokens(s)) \in Nat BY <1>2, BlocksForIs
<1>4. /\ Growth(kv, s) \in Nat /\ Len(kv.req[s.req].table) + Growth(kv, s) >= BlocksFor(Tokens(s))
      /\ Len(kv.req[s.req].table) >= BlocksFor(Tokens(s)) => Growth(kv, s) = 0
  BY <1>1, <1>3 DEF Growth, Positive
<1>5. TotalBlocks(kv, s.req) = RowBlocks(Len(kv.req[s.req].table)) BY DEF TotalBlocks, RowBlocks
<1>6. RowBlocks(Len(kv.req[s.req].table)) \in Nat /\ RowBlocks(Growth(kv, s)) \in Nat BY <1>1, <1>4, RowBlocksIs
<1>7. Growth(kv, s) * Layers = RowBlocks(Growth(kv, s)) BY DEF RowBlocks
<1> QED BY <1>1, <1>2, <1>4, <1>5, <1>6, <1>7 DEF Cost

(* A slice is no dearer than all of them, and paying for one leaves the    *)
(* others covered.                                                         *)
LEMMA CostsSum ==
    ASSUME NEW kv, PlaneOK(kv), NEW slices, SlicesOK(kv, slices)
    PROVE  /\ IsFiniteSet(DOMAIN slices) /\ \A i \in DOMAIN slices : Costs(kv, slices)[i] \in Nat
           /\ Needed(kv, slices) \in Nat
           /\ \A i \in DOMAIN slices : Costs(kv, slices)[i] = Cost(kv, slices[i])
                                       /\ Cost(kv, slices[i]) <= Needed(kv, slices)
<1>1. IsFiniteSet(DOMAIN slices)
  <2>1. DOMAIN slices = 1 .. Len(slices) /\ Len(slices) \in Nat BY DEF SlicesOK
  <2> QED BY <2>1, FS_Interval
<1>2. \A i \in DOMAIN slices : Costs(kv, slices)[i] = Cost(kv, slices[i]) /\ Cost(kv, slices[i]) \in Nat
  BY CostIs DEF SlicesOK, Costs
<1>3. Needed(kv, slices) = Total(Costs(kv, slices), DOMAIN slices) BY NeededIs
<1>4. Needed(kv, slices) \in Nat BY <1>1, <1>2, <1>3, SumsAdd
<1>5. ASSUME NEW i \in DOMAIN slices PROVE Cost(kv, slices[i]) <= Needed(kv, slices)
  <2>1. IsFiniteSet(DOMAIN slices \ {i}) BY <1>1, FS_RemoveElement
  <2>2. Total(Costs(kv, slices), DOMAIN slices \ {i}) \in Nat BY <2>1, <1>2, SumsAdd
  <2>3. Needed(kv, slices) = Costs(kv, slices)[i] + Total(Costs(kv, slices), DOMAIN slices \ {i})
    BY <1>1, <1>2, <1>3, SumsAdd
  <2> QED BY <1>2, <2>2, <2>3
<1> QED BY <1>1, <1>2, <1>4, <1>5

(* The free blocks are finitely many.                                      *)
LEMMA FreeCount ==
    ASSUME NEW kv, PlaneOK(kv)
    PROVE  /\ IsFiniteSet(Free(kv.hot)) /\ Cardinality(Free(kv.hot)) \in Nat
           /\ IsFiniteSet(Free(kv.cold)) /\ Cardinality(Free(kv.cold)) \in Nat
           /\ Free(kv.hot) \subseteq HotBlocks
<1>1. HotCapacity \in Nat /\ ColdCapacity \in Nat BY SizesAssumption
<1>2. kv.hot \in [0 .. HotCapacity - 1 -> Nat] /\ kv.cold \in [0 .. ColdCapacity - 1 -> Nat]
  BY RestIs DEF HotBlocks, ColdBlocks
<1> QED BY <1>1, <1>2, PoolFree DEF HotBlocks

(* A batch stays covered when one of its slices has been paid for.         *)
LEMMA Paid ==
    ASSUME NEW kv, PlaneOK(kv), NEW p, PlaneOK(p), NEW slices, SlicesOK(kv, slices), SlicesOK(p, slices),
           Covered(kv, slices), NEW x \in DOMAIN slices,
           \A i \in DOMAIN slices \ {x} : Cost(p, slices[i]) = Cost(kv, slices[i]),
           Cardinality(Free(p.hot)) >= Cardinality(Free(kv.hot)) - (Cost(kv, slices[x]) - Cost(p, slices[x]))
    PROVE  Covered(p, slices)
<1> DEFINE f == Costs(kv, slices)
           g == Costs(p, slices)
           S == DOMAIN slices
<1>1. /\ IsFiniteSet(S) /\ \A i \in S : f[i] \in Nat /\ f[i] = Cost(kv, slices[i])
      /\ \A i \in S : g[i] \in Nat /\ g[i] = Cost(p, slices[i])
      /\ Needed(kv, slices) \in Nat /\ Needed(p, slices) \in Nat
  BY CostsSum
<1>2. Needed(kv, slices) = Total(f, S) /\ Needed(p, slices) = Total(g, S) BY NeededIs
<1> HIDE DEF f, g
<1>3. Total(f, S) - f[x] = Total(g, S) - g[x] BY <1>1, SumChanges
<1>4. Cardinality(Free(kv.hot)) \in Nat /\ Cardinality(Free(p.hot)) \in Nat BY FreeCount
<1>5. f[x] = Cost(kv, slices[x]) /\ g[x] = Cost(p, slices[x]) /\ f[x] \in Nat /\ g[x] \in Nat BY <1>1
<1>6. Needed(kv, slices) <= Cardinality(Free(kv.hot)) BY DEF Covered
<1> QED BY <1>1, <1>2, <1>3, <1>4, <1>5, <1>6 DEF Covered

(* The costs are those of the requests' tables.                            *)
LEMMA SameCost ==
    ASSUME NEW kv, NEW p, NEW s, p.req[s.req] = kv.req[s.req]
    PROVE  Cost(p, s) = Cost(kv, s)
BY DEF Cost, Growth, IsHot, TotalBlocks

----------------------------------------------------------------------------
(* The growth of a batch.                                                  *)

GrowStep(x, y, kv, slice) == GrowAndPublish(kv, slice)
Growths == INSTANCE FoldTheorems WITH Op <- GrowStep

(* The growth of all tables of a batch as a fold.                          *)
LEMMA GrowthsIsFold ==
    ASSUME NEW kv, NEW slices
    PROVE  FoldLeft(GrowAndPublish, kv, slices) = Growths!Fold({}, {}, kv, slices)
BY DEF Growths!Fold, GrowStep, Growths!Iter, Growths!Greatest,
       FoldLeft, MapThenFoldSet, Max

(* A slice has its blocks: growing its table and publishing its blocks.    *)
Holding(kv, slice) ==
    IsHot(kv, slice.req) /\ Len(kv.req[slice.req].table) >= BlocksFor(Tokens(slice))

(* The growth of one slice's table and the publication of its prompt       *)
(* blocks preserve the plane invariant and pay for the slice.              *)
LEMMA GrowAndPublishOK ==
    ASSUME NEW kv, PlaneOK(kv), NEW s, s.req \in Live(kv), s.begin \in Nat, s.count \in Nat,
           IsHot(kv, s.req), Cost(kv, s) <= Cardinality(Free(kv.hot)),
           NEW p, p = GrowAndPublish(kv, s)
    PROVE  /\ PlaneOK(p) /\ ClocksKept(kv, p) /\ Live(p) = Live(kv) /\ OthersKept(kv, p, s.req)
           /\ Holding(p, s) /\ Len(p.req[s.req].table) >= Len(kv.req[s.req].table)
           /\ Cost(p, s) = 0
           /\ Cardinality(Free(p.hot)) >= Cardinality(Free(kv.hot)) - Cost(kv, s)
<1> DEFINE r == s.req
           n == Growth(kv, s)
           q == Grown(kv, r, n)
           complete == AtMost(Tokens(s), Prompt[r]) \div BlockTokens
<1>1. /\ n \in Nat /\ Len(kv.req[r].table) \in Nat /\ Tokens(s) \in Nat
      /\ Len(kv.req[r].table) + n >= BlocksFor(Tokens(s))
      /\ Cost(kv, s) = RowBlocks(n) /\ Cost(kv, s) \in Nat
  BY CostIs
<1>2. r \in Live(kv) /\ IsHot(kv, r) /\ RowBlocks(n) <= Cardinality(Free(kv.hot)) BY <1>1
<1>3. p = IF CacheBlocks > 0 THEN Publish(q, r, complete, kv.req[r].arrival, TRUE) ELSE q
  BY DEF GrowAndPublish, Grown
<1> HIDE DEF n, r
<1>4. /\ PlaneOK(q) /\ q.cache = kv.cache /\ ClocksKept(kv, q)
      /\ Live(q) = Live(kv) /\ OthersKept(kv, q, r)
      /\ IsHot(q, r) /\ Len(q.req[r].table) = Len(kv.req[r].table) + n
      /\ Cardinality(Free(q.hot)) >= Cardinality(Free(kv.hot)) - RowBlocks(n)
  BY <1>1, <1>2, GrownOK
<1>5. complete \in Nat /\ complete <= Len(q.req[r].table)
  <2>1. r \in Requests BY <1>2, LiveTables
  <2>2. complete \in Nat /\ complete <= BlocksFor(Tokens(s)) /\ BlocksFor(Tokens(s)) \in Nat BY <1>1, <2>1, BlocksForIs
  <2> HIDE DEF complete, q
  <2> QED BY <2>2, <1>1, <1>4
<1>6. kv.req[r].arrival \in Int
  <2>1. kv.req[r] \in States BY <1>2, LiveTables
  <2> QED BY <2>1 DEF States
<1> HIDE DEF complete, q
<1>7. PlaneOK(p) /\ CacheOnly(q, p)
  <2>1. CASE CacheBlocks > 0
    <3>1. p = Publish(q, r, complete, kv.req[r].arrival, TRUE) BY <2>1, <1>3
    <3>2. r \in Live(q) /\ TRUE \in BOOLEAN BY <1>2, <1>4
    <3>3. CacheStep(q, Publish(q, r, complete, kv.req[r].arrival, TRUE)) BY <1>4, <1>5, <1>6, <3>2, PublishOK
    <3> QED BY <3>1, <3>3 DEF CacheStep
  <2>2. CASE ~(CacheBlocks > 0) BY <2>2, <1>3, <1>4, CacheOnlyItself
  <2> QED BY <2>1, <2>2
<1>8. p.req = q.req /\ ClocksKept(q, p) /\ Free(q.hot) \subseteq Free(p.hot) BY <1>7 DEF CacheOnly, ClocksKept
<1>9. Live(p) = Live(kv) /\ OthersKept(kv, p, r) BY <1>4, <1>8 DEF Live, OthersKept
<1>10. IsHot(p, r) /\ Len(p.req[r].table) = Len(kv.req[r].table) + n BY <1>4, <1>8 DEF IsHot
<1>11. ClocksKept(kv, p) BY <1>4, <1>8 DEF ClocksKept
<1>12. Len(p.req[r].table) >= BlocksFor(Tokens(s)) /\ Len(p.req[r].table) >= Len(kv.req[r].table)
  <2>1. BlocksFor(Tokens(s)) \in Nat BY <1>1, BlocksForIs
  <2> QED BY <2>1, <1>1, <1>10
<1>13. Cost(p, s) = 0
  <2>1. r \in Live(p) BY <1>2, <1>9
  <2>2. Growth(p, s) = 0 /\ Cost(p, s) = RowBlocks(Growth(p, s)) BY <1>7, <1>10, <1>12, <2>1, CostIs DEF r
  <2> QED BY <2>2, RowBlocksIs
<1>14. Cardinality(Free(p.hot)) >= Cardinality(Free(kv.hot)) - Cost(kv, s)
  <2>1. IsFiniteSet(Free(p.hot)) BY <1>7, FreeCount
  <2>2. Cardinality(Free(q.hot)) <= Cardinality(Free(p.hot)) BY <2>1, <1>8, FS_Subset
  <2>3. /\ Cardinality(Free(q.hot)) \in Nat /\ Cardinality(Free(p.hot)) \in Nat /\ Cardinality(Free(kv.hot)) \in Nat
    BY <1>4, <1>7, FreeCount
  <2> QED BY <2>2, <2>3, <1>1, <1>4
<1> QED BY <1>7, <1>9, <1>10, <1>11, <1>12, <1>13, <1>14 DEF r, Holding

(* What a reservation leaves as it was, and what its slices have then.     *)
AllHot(kv, slices) == \A i \in DOMAIN slices : IsHot(kv, slices[i].req)
OutsidersKept(kv, p, B) == \A s \in Live(kv) \ B : p.req[s] = kv.req[s]

(* Half-way through a reservation's growth, k slices have their blocks.    *)
Growing(kv, a, slices, k) ==
    /\ PlaneOK(a) /\ ClocksKept(kv, a) /\ Live(a) = Live(kv)
    /\ OutsidersKept(kv, a, InBatch(slices))
    /\ AllHot(a, slices) /\ Covered(a, slices)
    /\ \A i \in 1 .. k : Holding(a, slices[i])
CanGrow(a, s) ==
    /\ s.req \in Live(a) /\ s.begin \in Nat /\ s.count \in Nat
    /\ IsHot(a, s.req) /\ Cost(a, s) <= Cardinality(Free(a.hot))

(* One slice more has its blocks.                                          *)
LEMMA GrowingOn ==
    ASSUME NEW kv, PlaneOK(kv), NEW slices, SlicesOK(kv, slices), NEW k \in 0 .. Len(slices) - 1,
           NEW a, Growing(kv, a, slices, k), NEW b, b = GrowAndPublish(a, slices[k + 1])
    PROVE  CanGrow(a, slices[k + 1]) /\ Growing(kv, b, slices, k + 1)
<1> DEFINE x == k + 1
           s == slices[x]
<1>0. slices \in Seq(Range(slices)) /\ DOMAIN slices = 1 .. Len(slices) /\ Len(slices) \in Nat BY DEF SlicesOK
<1>1. /\ PlaneOK(a) /\ ClocksKept(kv, a) /\ Live(a) = Live(kv)
      /\ OutsidersKept(kv, a, InBatch(slices))
      /\ AllHot(a, slices) /\ Covered(a, slices)
      /\ \A i \in 1 .. k : Holding(a, slices[i])
  BY DEF Growing
<1>2. b = GrowAndPublish(a, s) /\ x \in DOMAIN slices /\ k \in Nat BY <1>0
<1>3. 1 .. x = (1 .. k) \cup {x} /\ x \notin 1 .. k /\ 1 .. k \subseteq DOMAIN slices BY <1>2, <1>0
<1> HIDE DEF x
<1>4. SlicesOK(a, slices) BY <1>1 DEF SlicesOK
<1>5. s.req \in Live(a) /\ s.begin \in Nat /\ s.count \in Nat /\ IsHot(a, s.req) BY <1>1, <1>2, <1>4 DEF SlicesOK, AllHot
<1>6. Cost(a, s) <= Cardinality(Free(a.hot))
  <2>1. Needed(a, slices) <= Cardinality(Free(a.hot)) BY <1>1 DEF Covered
  <2>2. Cost(a, s) <= Needed(a, slices) /\ Needed(a, slices) \in Nat BY <1>1, <1>2, <1>4, CostsSum
  <2>3. Cost(a, s) \in Nat BY <1>1, <1>5, CostIs
  <2>4. Cardinality(Free(a.hot)) \in Nat BY <1>1, FreeCount
  <2> QED BY <2>1, <2>2, <2>3, <2>4
<1> HIDE DEF s
<1>7. /\ PlaneOK(b) /\ ClocksKept(a, b) /\ Live(b) = Live(a) /\ OthersKept(a, b, s.req)
      /\ Holding(b, s) /\ Cost(b, s) = 0
      /\ Cardinality(Free(b.hot)) >= Cardinality(Free(a.hot)) - Cost(a, s)
  BY <1>1, <1>2, <1>5, <1>6, GrowAndPublishOK
<1>8. \A i \in DOMAIN slices \ {x} : slices[i].req \in Live(a) /\ b.req[slices[i].req] = a.req[slices[i].req]
  BY <1>2, <1>4, <1>7 DEF SlicesOK, OthersKept, s
<1>9. \A i \in DOMAIN slices \ {x} : Cost(b, slices[i]) = Cost(a, slices[i]) BY <1>8, SameCost
<1>10. SlicesOK(b, slices) BY <1>4, <1>7 DEF SlicesOK
<1>11. Covered(b, slices)
  <2>1. Cardinality(Free(b.hot)) \in Nat /\ Cardinality(Free(a.hot)) \in Nat BY <1>1, <1>7, FreeCount
  <2>2. Cost(a, s) \in Nat BY <1>1, <1>5, CostIs
  <2>3. Cardinality(Free(b.hot)) >= Cardinality(Free(a.hot)) - (Cost(a, slices[x]) - Cost(b, slices[x]))
    BY <2>1, <2>2, <1>7 DEF s
  <2> QED BY <2>3, <1>1, <1>2, <1>4, <1>7, <1>9, <1>10, Paid
<1>12. AllHot(b, slices)
  <2>1. IsHot(b, slices[x].req) BY <1>7 DEF Holding, s
  <2>2. \A i \in DOMAIN slices \ {x} : IsHot(b, slices[i].req) BY <1>1, <1>8 DEF AllHot, IsHot
  <2> QED BY <2>1, <2>2 DEF AllHot
<1>13. \A i \in 1 .. k : Holding(b, slices[i]) BY <1>1, <1>3, <1>8 DEF Holding, IsHot
<1>14. \A i \in 1 .. x : Holding(b, slices[i]) BY <1>3, <1>7, <1>13 DEF s
<1>15. OutsidersKept(kv, b, InBatch(slices))
  <2>1. s.req \in InBatch(slices) BY <1>2 DEF InBatch, s
  <2> QED BY <2>1, <1>1, <1>7 DEF OutsidersKept, OthersKept
<1>16. ClocksKept(kv, b) /\ Live(b) = Live(kv) BY <1>1, <1>7 DEF ClocksKept
<1>17. Growing(kv, b, slices, k + 1) BY <1>7, <1>11, <1>12, <1>14, <1>15, <1>16 DEF Growing, x
<1> QED BY <1>5, <1>6, <1>17 DEF CanGrow, s, x

(* The growth of all tables of a batch that is covered preserves the plane *)
(* invariant, and every slice then has its blocks.                         *)
LEMMA GrowAllOK ==
    ASSUME NEW kv, PlaneOK(kv), NEW slices, SlicesOK(kv, slices), AllHot(kv, slices), Covered(kv, slices)
    PROVE  LET p == FoldLeft(GrowAndPublish, kv, slices) IN
           /\ PlaneOK(p) /\ ClocksKept(kv, p) /\ Live(p) = Live(kv)
           /\ OutsidersKept(kv, p, InBatch(slices))
           /\ \A i \in DOMAIN slices : Holding(p, slices[i])
<1> DEFINE n == Len(slices)
           p(k) == Growths!Partial({}, {}, kv, slices, k)
           G == {k \in 0 .. n : Growing(kv, p(k), slices, k)}
<1>0. slices \in Seq(Range(slices)) /\ DOMAIN slices = 1 .. n /\ n \in Nat BY DEF SlicesOK
<1>ind. Growths!Inductive BY Induction DEF Growths!Inductive
<1>1. p(0) = kv /\ p(n) = Growths!Fold({}, {}, kv, slices) BY <1>0, Growths!FoldEnds, <1>ind
<1>2. ASSUME NEW k \in 0 .. n - 1 PROVE p(k + 1) = GrowAndPublish(p(k), slices[k + 1]) /\ k + 1 \in DOMAIN slices
  <2>1. p(k + 1) = GrowStep({}, {}, p(k), slices[k + 1]) BY <1>0, Growths!FoldStep, <1>ind
  <2>2. k + 1 \in 1 .. n BY <1>0
  <2> QED BY <1>0, <2>1, <2>2 DEF GrowStep
<1> HIDE DEF p
<1>3. 0 \in G
  <2>1. Growing(kv, p(0), slices, 0) BY <1>1 DEF Growing, ClocksKept, OutsidersKept
  <2> QED BY <1>0, <2>1
<1>4. ASSUME NEW k \in G, k \in 0 .. n - 1 PROVE k + 1 \in G
  <2>1. Growing(kv, p(k), slices, k) /\ p(k + 1) = GrowAndPublish(p(k), slices[k + 1]) BY <1>2, <1>4
  <2>2. Growing(kv, p(k + 1), slices, k + 1) BY <2>1, <1>0, <1>4, GrowingOn
  <2> QED BY <2>2, <1>0, <1>4
<1>5. n \in G
  <2> HIDE DEF G
  <2>1. \A k \in 0 .. n : k \in G BY <1>0, <1>3, <1>4, Sums!PrefixInduction
  <2> QED BY <2>1, <1>0
<1>6. FoldLeft(GrowAndPublish, kv, slices) = p(n) BY <1>1, GrowthsIsFold
<1>7. Growing(kv, p(n), slices, n) BY <1>5
<1> QED BY <1>0, <1>6, <1>7 DEF Growing

----------------------------------------------------------------------------
(* The swap-ins of a batch.                                                *)

SwapInStep(x, y, kv, slice) == SwapIn(kv, slice.req)
Arrivals == INSTANCE FoldTheorems WITH Op <- SwapInStep
SwapOutStep(x, y, kv, r) == SwapOut(kv, r)
Departures == INSTANCE FoldTheorems WITH Op <- SwapOutStep

(* The swap-ins of a reservation as a fold.                                *)
LEMMA ArrivalsIsFold ==
    ASSUME NEW kv, NEW cold
    PROVE  FoldLeft(LAMBDA p, s : SwapIn(p, s.req), kv, cold) = Arrivals!Fold({}, {}, kv, cold)
BY DEF Arrivals!Fold, SwapInStep, Arrivals!Iter, Arrivals!Greatest,
       FoldLeft, MapThenFoldSet, Max

(* The swap-outs of a reservation as a fold.                               *)
LEMMA DeparturesIsFold ==
    ASSUME NEW kv, NEW victims
    PROVE  FoldLeft(SwapOut, kv, victims) = Departures!Fold({}, {}, kv, victims)
BY DEF Departures!Fold, SwapOutStep, Departures!Iter, Departures!Greatest,
       FoldLeft, MapThenFoldSet, Max

(* A slice of a request in the cold tier is paid for by moving the request.*)
LEMMA SwapInPays ==
    ASSUME NEW kv, PlaneOK(kv), NEW slices, SlicesOK(kv, slices), Covered(kv, slices),
           NEW x \in DOMAIN slices, NEW r, r = slices[x].req, ~IsHot(kv, r), NEW p, p = SwapIn(kv, r)
    PROVE  /\ PlaneOK(p) /\ p.cache = kv.cache /\ ClocksKept(kv, p)
           /\ Live(p) = Live(kv) /\ OthersKept(kv, p, r) /\ IsHot(p, r)
           /\ SlicesOK(p, slices) /\ Covered(p, slices)
           /\ TotalBlocks(kv, r) <= Cardinality(Free(kv.hot))
<1> DEFINE s == slices[x]
<1>1. r \in Live(kv) /\ s.req \in Live(kv) /\ s.begin \in Nat /\ s.count \in Nat /\ s.req = r BY DEF SlicesOK
<1>2. /\ Cost(kv, s) <= Needed(kv, slices) /\ Needed(kv, slices) \in Nat BY CostsSum
<1> HIDE DEF s
<1>3. /\ Growth(kv, s) \in Nat /\ Cost(kv, s) \in Nat /\ TotalBlocks(kv, r) \in Nat
      /\ RowBlocks(Growth(kv, s)) \in Nat
      /\ Cost(kv, s) = RowBlocks(Growth(kv, s)) + TotalBlocks(kv, r)
  BY <1>1, CostIs, RowBlocksIs
<1>4. TotalBlocks(kv, r) <= Cardinality(Free(kv.hot))
  <2>1. Needed(kv, slices) <= Cardinality(Free(kv.hot)) BY DEF Covered
  <2>2. Cardinality(Free(kv.hot)) \in Nat BY FreeCount
  <2> QED BY <1>2, <1>3, <2>1, <2>2
<1>5. /\ PlaneOK(p) /\ p.cache = kv.cache /\ ClocksKept(kv, p)
      /\ Live(p) = Live(kv) /\ OthersKept(kv, p, r)
      /\ IsHot(p, r) /\ Len(p.req[r].table) = Len(kv.req[r].table)
      /\ Cardinality(Free(p.hot)) >= Cardinality(Free(kv.hot)) - TotalBlocks(kv, r)
  BY <1>1, <1>4, SwapInOK
<1>6. SlicesOK(p, slices) BY <1>5 DEF SlicesOK
<1>7. Growth(p, s) = Growth(kv, s) BY <1>1, <1>5 DEF Growth
<1>8. Cost(p, s) = RowBlocks(Growth(kv, s)) BY <1>1, <1>5, <1>7, CostIs
<1>9. \A i \in DOMAIN slices \ {x} : Cost(p, slices[i]) = Cost(kv, slices[i])
  <2>1. \A i \in DOMAIN slices \ {x} : slices[i].req \in Live(kv) \ {r} BY <1>1 DEF SlicesOK, s
  <2>2. \A i \in DOMAIN slices \ {x} : p.req[slices[i].req] = kv.req[slices[i].req] BY <1>5, <2>1 DEF OthersKept
  <2> QED BY <2>2, SameCost
<1>10. Cardinality(Free(p.hot)) >= Cardinality(Free(kv.hot)) - (Cost(kv, slices[x]) - Cost(p, slices[x]))
  <2>1. Cardinality(Free(kv.hot)) \in Nat /\ Cardinality(Free(p.hot)) \in Nat BY <1>5, FreeCount
  <2>2. Cost(kv, s) - Cost(p, s) = TotalBlocks(kv, r) BY <1>3, <1>8
  <2>3. Cardinality(Free(p.hot)) >= Cardinality(Free(kv.hot)) - (Cost(kv, s) - Cost(p, s)) BY <1>5, <2>1, <2>2
  <2> QED BY <2>3 DEF s
<1>11. Covered(p, slices) BY <1>5, <1>6, <1>9, <1>10, Paid
<1> QED BY <1>4, <1>5, <1>6, <1>11

(* Every request of the batch in the cold tier comes back.                 *)
ColdOf(kv, slices) == Keep(slices, {s \in Range(slices) : ~IsHot(kv, s.req)})

(* The slices of a batch whose requests are cold.                          *)
LEMMA ColdOfIs ==
    ASSUME NEW kv, NEW slices, SlicesOK(kv, slices)
    PROVE  LET cold == ColdOf(kv, slices) IN
           /\ cold \in Seq(Range(slices)) /\ DOMAIN cold = 1 .. Len(cold) /\ Len(cold) \in Nat
           /\ \A k \in DOMAIN cold : \E x \in DOMAIN slices : cold[k] = slices[x] /\ ~IsHot(kv, slices[x].req)
           /\ \A k, m \in DOMAIN cold : cold[k] = cold[m] => k = m
           /\ \A x \in DOMAIN slices : ~IsHot(kv, slices[x].req) => \E k \in DOMAIN cold : cold[k] = slices[x]
<1> DEFINE T == Range(slices)
           S == {s \in T : ~IsHot(kv, s.req)}
           cold == Keep(slices, S)
<1>1. slices \in Seq(T) BY DEF SlicesOK
<1> HIDE DEF S, T
<1>2. /\ cold \in Seq(T) /\ DOMAIN cold = 1 .. Len(cold)
      /\ Range(cold) = Range(slices) \cap S
      /\ \A n \in DOMAIN cold : NthLeast(Places(slices, S), n) \in DOMAIN slices
      /\ \A m, n \in DOMAIN cold : m < n => NthLeast(Places(slices, S), m) < NthLeast(Places(slices, S), n)
  BY <1>1, KeepInOrder
<1>3. \A n \in DOMAIN cold : cold[n] = slices[NthLeast(Places(slices, S), n)] BY <1>1, KeepAt
<1> HIDE DEF cold
<1>4. Len(cold) \in Nat BY <1>2
<1>5. ASSUME NEW k \in DOMAIN cold PROVE \E x \in DOMAIN slices : cold[k] = slices[x] /\ ~IsHot(kv, slices[x].req)
  <2>1. cold[k] \in S BY <1>2 DEF Range
  <2> QED BY <2>1, <1>2, <1>3 DEF S
<1>6. ASSUME NEW k \in DOMAIN cold, NEW m \in DOMAIN cold, cold[k] = cold[m] PROVE k = m
  <2>1. NthLeast(Places(slices, S), k) = NthLeast(Places(slices, S), m) BY <1>2, <1>3, <1>6 DEF SlicesOK
  <2>2. DOMAIN slices = 1 .. Len(slices) /\ Len(slices) \in Nat BY <1>1
  <2>3. NthLeast(Places(slices, S), k) \in Int BY <1>2, <2>2
  <2>4. k \in Int /\ m \in Int BY <1>2, <1>4
  <2>5. ~(k < m) /\ ~(m < k) BY <1>2, <2>1, <2>3
  <2> QED BY <2>4, <2>5
<1>7. ASSUME NEW x \in DOMAIN slices, ~IsHot(kv, slices[x].req) PROVE \E k \in DOMAIN cold : cold[k] = slices[x]
  <2>1. slices[x] \in T /\ slices[x] \in Range(slices) BY DEF T, Range
  <2>2. slices[x] \in Range(cold) BY <2>1, <1>2, <1>7 DEF S
  <2> QED BY <2>2 DEF Range
<1> QED BY <1>2, <1>4, <1>5, <1>6, <1>7 DEF ColdOf, cold, S, T

(* Half-way through the arrivals, k of the cold requests are back.         *)
Arriving(kv, a, slices, cold, k) ==
    /\ PlaneOK(a) /\ ClocksKept(kv, a) /\ Live(a) = Live(kv)
    /\ OutsidersKept(kv, a, InBatch(slices))
    /\ SlicesOK(a, slices) /\ Covered(a, slices)
    /\ \A i \in 1 .. k : IsHot(a, cold[i].req)
    /\ \A i \in k + 1 .. Len(cold) : ~IsHot(a, cold[i].req)
    /\ \A s \in Live(kv) : IsHot(kv, s) => IsHot(a, s)
CanArrive(a, r) == r \in Live(a) /\ ~IsHot(a, r) /\ TotalBlocks(a, r) <= Cardinality(Free(a.hot))

(* One request more arrives.                                               *)
LEMMA ArrivingOn ==
    ASSUME NEW kv, PlaneOK(kv), NEW slices, SlicesOK(kv, slices),
           NEW cold, cold = ColdOf(kv, slices), NEW k \in 0 .. Len(cold) - 1,
           NEW a, Arriving(kv, a, slices, cold, k), NEW b, b = SwapIn(a, cold[k + 1].req)
    PROVE  CanArrive(a, cold[k + 1].req) /\ Arriving(kv, b, slices, cold, k + 1)
<1> DEFINE n == Len(cold)
           z == k + 1
           r == cold[z].req
<1>0. /\ cold \in Seq(Range(slices)) /\ DOMAIN cold = 1 .. n /\ n \in Nat
      /\ \A c \in DOMAIN cold : \E x \in DOMAIN slices : cold[c] = slices[x] /\ ~IsHot(kv, slices[x].req)
      /\ \A c, m \in DOMAIN cold : cold[c] = cold[m] => c = m
      /\ \A x \in DOMAIN slices : ~IsHot(kv, slices[x].req) => \E c \in DOMAIN cold : cold[c] = slices[x]
  BY ColdOfIs
<1>20. \A c, m \in DOMAIN cold : cold[c].req = cold[m].req => c = m
  <2> SUFFICES ASSUME NEW c \in DOMAIN cold, NEW m \in DOMAIN cold, cold[c].req = cold[m].req PROVE c = m OBVIOUS
  <2>1. PICK x \in DOMAIN slices : cold[c] = slices[x] BY <1>0
  <2>2. PICK y \in DOMAIN slices : cold[m] = slices[y] BY <1>0
  <2>3. x = y BY <2>1, <2>2 DEF SlicesOK
  <2> QED BY <2>1, <2>2, <2>3, <1>0
<1>1. /\ PlaneOK(a) /\ ClocksKept(kv, a) /\ Live(a) = Live(kv)
      /\ OutsidersKept(kv, a, InBatch(slices))
      /\ SlicesOK(a, slices) /\ Covered(a, slices)
      /\ \A i \in 1 .. k : IsHot(a, cold[i].req)
      /\ \A i \in k + 1 .. n : ~IsHot(a, cold[i].req)
      /\ \A s \in Live(kv) : IsHot(kv, s) => IsHot(a, s)
  BY DEF Arriving
<1>2. b = SwapIn(a, r) /\ z \in DOMAIN cold /\ k \in Nat BY <1>0
<1>3. /\ 1 .. z = (1 .. k) \cup {z} /\ z \notin 1 .. k /\ 1 .. k \subseteq DOMAIN cold
      /\ z \in k + 1 .. n /\ z + 1 .. n \subseteq k + 1 .. n /\ z \notin z + 1 .. n
      /\ z + 1 .. n \subseteq DOMAIN cold
  BY <1>2, <1>0
<1>4. PICK x \in DOMAIN slices : cold[z] = slices[x] BY <1>2, <1>0
<1>5. ~IsHot(a, r) BY <1>1, <1>3
<1> HIDE DEF z
<1>6. r = slices[x].req /\ r \in InBatch(slices) BY <1>4 DEF InBatch
<1>7. \A i \in 1 .. k : cold[i].req # r BY <1>2, <1>3, <1>20
<1>8. \A i \in z + 1 .. n : cold[i].req # r BY <1>2, <1>3, <1>20
<1>9. \A i \in DOMAIN cold : cold[i].req \in Live(a)
  <2>1. \A x1 \in DOMAIN slices : slices[x1].req \in Live(a) BY <1>1 DEF SlicesOK
  <2> QED BY <2>1, <1>0
<1> HIDE DEF r
<1>10. /\ PlaneOK(b) /\ ClocksKept(a, b) /\ Live(b) = Live(a) /\ OthersKept(a, b, r) /\ IsHot(b, r)
       /\ SlicesOK(b, slices) /\ Covered(b, slices)
       /\ TotalBlocks(a, r) <= Cardinality(Free(a.hot))
  BY <1>1, <1>2, <1>5, <1>6, SwapInPays
<1>11. ClocksKept(kv, b) /\ Live(b) = Live(kv) BY <1>1, <1>10 DEF ClocksKept
<1>12. OutsidersKept(kv, b, InBatch(slices)) BY <1>1, <1>6, <1>10 DEF OutsidersKept, OthersKept
<1>13. \A s \in Live(a) \ {r} : IsHot(b, s) = IsHot(a, s) BY <1>10 DEF OthersKept, IsHot
<1>14. \A i \in 1 .. k : IsHot(b, cold[i].req) BY <1>1, <1>3, <1>7, <1>9, <1>13
<1>15. \A i \in 1 .. z : IsHot(b, cold[i].req) BY <1>3, <1>10, <1>14 DEF r
<1>16. \A i \in z + 1 .. n : ~IsHot(b, cold[i].req) BY <1>1, <1>3, <1>8, <1>9, <1>13
<1>17. \A s \in Live(kv) : IsHot(kv, s) => IsHot(b, s) BY <1>1, <1>10, <1>13
<1>18. Arriving(kv, b, slices, cold, k + 1) BY <1>10, <1>11, <1>12, <1>15, <1>16, <1>17 DEF Arriving, z, n
<1>19. r \in Live(a) BY <1>1, <1>6 DEF SlicesOK
<1> QED BY <1>5, <1>10, <1>18, <1>19 DEF CanArrive, r, z

(* The swap-ins of a batch that is covered preserve the plane invariant    *)
(* and keep it covered.                                                    *)
LEMMA SwapInAllOK ==
    ASSUME NEW kv, PlaneOK(kv), NEW slices, SlicesOK(kv, slices), Covered(kv, slices),
           NEW cold, cold = ColdOf(kv, slices)
    PROVE  LET p == FoldLeft(LAMBDA q, s : SwapIn(q, s.req), kv, cold) IN
           /\ PlaneOK(p) /\ ClocksKept(kv, p) /\ Live(p) = Live(kv)
           /\ OutsidersKept(kv, p, InBatch(slices))
           /\ AllHot(p, slices) /\ Covered(p, slices)
<1> DEFINE n == Len(cold)
           p(k) == Arrivals!Partial({}, {}, kv, cold, k)
           G == {k \in 0 .. n : Arriving(kv, p(k), slices, cold, k)}
<1>0. /\ cold \in Seq(Range(slices)) /\ DOMAIN cold = 1 .. n /\ n \in Nat
      /\ \A k \in DOMAIN cold : \E x \in DOMAIN slices : cold[k] = slices[x] /\ ~IsHot(kv, slices[x].req)
      /\ \A k, m \in DOMAIN cold : cold[k] = cold[m] => k = m
      /\ \A x \in DOMAIN slices : ~IsHot(kv, slices[x].req) => \E k \in DOMAIN cold : cold[k] = slices[x]
  BY ColdOfIs
<1>ind. Arrivals!Inductive BY Induction DEF Arrivals!Inductive
<1>1. p(0) = kv /\ p(n) = Arrivals!Fold({}, {}, kv, cold) BY <1>0, Arrivals!FoldEnds, <1>ind
<1>2. ASSUME NEW k \in 0 .. n - 1 PROVE p(k + 1) = SwapIn(p(k), cold[k + 1].req) /\ k + 1 \in DOMAIN cold
  <2>1. p(k + 1) = SwapInStep({}, {}, p(k), cold[k + 1]) BY <1>0, Arrivals!FoldStep, <1>ind
  <2>2. k + 1 \in 1 .. n BY <1>0
  <2> QED BY <1>0, <2>1, <2>2 DEF SwapInStep
<1> HIDE DEF p
<1>3. 0 \in G
  <2>1. \A i \in 1 .. n : ~IsHot(kv, cold[i].req) BY <1>0
  <2>2. Arriving(kv, p(0), slices, cold, 0) BY <1>1, <2>1 DEF Arriving, ClocksKept, OutsidersKept
  <2> QED BY <1>0, <2>2
<1>4. ASSUME NEW k \in G, k \in 0 .. n - 1 PROVE k + 1 \in G
  <2>1. Arriving(kv, p(k), slices, cold, k) /\ p(k + 1) = SwapIn(p(k), cold[k + 1].req) BY <1>2, <1>4
  <2>2. Arriving(kv, p(k + 1), slices, cold, k + 1) BY <2>1, <1>0, <1>4, ArrivingOn
  <2> QED BY <2>2, <1>0, <1>4
<1>5. n \in G
  <2> HIDE DEF G
  <2>1. \A k \in 0 .. n : k \in G BY <1>0, <1>3, <1>4, Sums!PrefixInduction
  <2> QED BY <2>1, <1>0
<1>6. FoldLeft(LAMBDA q, s : SwapIn(q, s.req), kv, cold) = p(n) BY <1>1, ArrivalsIsFold
<1>7. Arriving(kv, p(n), slices, cold, n) BY <1>5
<1> HIDE DEF n
<1>9. AllHot(p(n), slices)
  <2> SUFFICES ASSUME NEW x \in DOMAIN slices PROVE IsHot(p(n), slices[x].req) BY DEF AllHot
  <2>1. slices[x].req \in Live(kv) BY DEF SlicesOK
  <2>2. CASE IsHot(kv, slices[x].req) BY <2>1, <2>2, <1>7 DEF Arriving
  <2>3. CASE ~IsHot(kv, slices[x].req)
    <3>1. PICK k \in DOMAIN cold : cold[k] = slices[x] BY <1>0, <2>3
    <3> QED BY <3>1, <1>0, <1>7 DEF Arriving
  <2> QED BY <2>2, <2>3
<1> QED BY <1>6, <1>7, <1>9 DEF Arriving

----------------------------------------------------------------------------
(* The swap-outs of a plan.                                                *)

(* The victims of a reservation: hot requests, each once, outside it.      *)
VictimsOK(kv, slices, victims) ==
    /\ victims \in Seq(Live(kv))
    /\ \A k \in DOMAIN victims : IsHot(kv, victims[k]) /\ victims[k] \notin InBatch(slices)
    /\ \A k, m \in DOMAIN victims : victims[k] = victims[m] => k = m

Sizes(kv, victims) == [k \in DOMAIN victims |-> TotalBlocks(kv, victims[k])]
Moved(kv, victims) == Total(Sizes(kv, victims), DOMAIN victims)

(* Half-way through the departures, k victims are in the cold tier.        *)
Departing(kv, a, victims, k) ==
    /\ PlaneOK(a) /\ a.cache = kv.cache /\ ClocksKept(kv, a) /\ Live(a) = Live(kv)
    /\ OutsidersKept(kv, a, UpTo(victims, k))
    /\ \A i \in 1 .. k : ~IsHot(a, victims[i])
    /\ Total(Sizes(kv, victims), k + 1 .. Len(victims)) <= Cardinality(Free(a.cold))
CanDepart(a, r) == r \in Live(a) /\ IsHot(a, r) /\ TotalBlocks(a, r) <= Cardinality(Free(a.cold))

(* One victim more departs.                                                *)
LEMMA DepartingOn ==
    ASSUME NEW kv, PlaneOK(kv), NEW slices, NEW victims, VictimsOK(kv, slices, victims),
           NEW k \in 0 .. Len(victims) - 1, NEW a, Departing(kv, a, victims, k),
           NEW b, b = SwapOut(a, victims[k + 1])
    PROVE  CanDepart(a, victims[k + 1]) /\ Departing(kv, b, victims, k + 1)
<1> DEFINE n == Len(victims)
           z == k + 1
           r == victims[z]
           f == Sizes(kv, victims)
<1>0. /\ victims \in Seq(Live(kv)) /\ DOMAIN victims = 1 .. n /\ n \in Nat
      /\ \A c \in DOMAIN victims : victims[c] \in Live(kv) /\ IsHot(kv, victims[c])
      /\ \A c, m \in DOMAIN victims : victims[c] = victims[m] => c = m
  BY DEF VictimsOK
<1>20. \A c \in DOMAIN victims : f[c] = TotalBlocks(kv, victims[c]) /\ f[c] \in Nat
  <2> SUFFICES ASSUME NEW c \in DOMAIN victims PROVE TotalBlocks(kv, victims[c]) \in Nat BY DEF Sizes
  <2>1. Len(kv.req[victims[c]].table) \in Nat BY <1>0, LiveTables
  <2> QED BY <2>1, RowBlocksIs DEF TotalBlocks, RowBlocks
<1>1. /\ PlaneOK(a) /\ a.cache = kv.cache /\ ClocksKept(kv, a) /\ Live(a) = Live(kv)
      /\ OutsidersKept(kv, a, UpTo(victims, k))
      /\ \A i \in 1 .. k : ~IsHot(a, victims[i])
      /\ Total(f, z .. n) <= Cardinality(Free(a.cold))
  BY DEF Departing
<1>2. b = SwapOut(a, r) /\ z \in DOMAIN victims /\ k \in Nat BY <1>0
<1>3. /\ 1 .. z = (1 .. k) \cup {z} /\ z \notin 1 .. k /\ 1 .. k \subseteq DOMAIN victims
      /\ z \in z .. n /\ (z .. n) \ {z} = z + 1 .. n /\ z .. n \subseteq DOMAIN victims
      /\ z \in Int
  BY <1>2, <1>0
<1>4. UpTo(victims, z) = UpTo(victims, k) \cup {r} BY <1>2, UpToOneMore
<1> HIDE DEF z, f
<1>5. r \in Live(kv) /\ IsHot(kv, r) BY <1>2, <1>0
<1>6. r \notin UpTo(victims, k) BY <1>2, <1>3, <1>0 DEF UpTo
<1>7. a.req[r] = kv.req[r] BY <1>1, <1>5, <1>6 DEF OutsidersKept
<1>8. r \in Live(a) /\ IsHot(a, r) /\ TotalBlocks(a, r) = f[z] BY <1>1, <1>2, <1>5, <1>7, <1>20 DEF IsHot, TotalBlocks
<1>9. /\ Total(f, z .. n) = f[z] + Total(f, z + 1 .. n) /\ Total(f, z + 1 .. n) \in Nat /\ f[z] \in Nat
  <2>1. IsFiniteSet(z .. n) /\ IsFiniteSet(z + 1 .. n) BY <1>3, <1>0, FS_Interval
  <2>2. \A i \in z .. n : f[i] \in Nat BY <1>3, <1>20
  <2>3. \A i \in z + 1 .. n : f[i] \in Nat BY <1>3, <2>2
  <2>4. Total(f, z .. n) = f[z] + Total(f, (z .. n) \ {z}) BY <1>3, <2>1, <2>2, SumsAdd
  <2>5. Total(f, z + 1 .. n) \in Nat BY <2>1, <2>3, SumsAdd
  <2> QED BY <2>2, <2>4, <2>5, <1>3
<1>10. Cardinality(Free(a.cold)) \in Nat BY <1>1, FreeCount
<1>11. TotalBlocks(a, r) <= Cardinality(Free(a.cold)) BY <1>1, <1>8, <1>9, <1>10
<1> HIDE DEF r
<1>12. /\ PlaneOK(b) /\ b.cache = a.cache /\ ClocksKept(a, b)
       /\ Live(b) = Live(a) /\ OthersKept(a, b, r) /\ ~IsHot(b, r)
       /\ Cardinality(Free(b.cold)) >= Cardinality(Free(a.cold)) - TotalBlocks(a, r)
  BY <1>1, <1>2, <1>8, <1>11, SwapOutOK
<1>13. ClocksKept(kv, b) /\ Live(b) = Live(kv) /\ b.cache = kv.cache BY <1>1, <1>12 DEF ClocksKept
<1>14. OutsidersKept(kv, b, UpTo(victims, z)) BY <1>1, <1>4, <1>12 DEF OutsidersKept, OthersKept
<1>15. \A i \in 1 .. z : ~IsHot(b, victims[i])
  <2> SUFFICES ASSUME NEW i \in 1 .. k PROVE ~IsHot(b, victims[i]) BY <1>3, <1>12 DEF r
  <2>1. victims[i] \in Live(a) /\ ~IsHot(a, victims[i]) /\ victims[i] # r
    BY <1>1, <1>2, <1>3, <1>0 DEF r
  <2> QED BY <2>1, <1>12 DEF OthersKept, IsHot
<1>16. Total(f, z + 1 .. n) <= Cardinality(Free(b.cold))
  <2>1. Cardinality(Free(b.cold)) \in Nat BY <1>12, FreeCount
  <2> QED BY <2>1, <1>1, <1>8, <1>9, <1>10, <1>12
<1>17. Departing(kv, b, victims, k + 1) BY <1>12, <1>13, <1>14, <1>15, <1>16 DEF Departing, z, f
<1> QED BY <1>8, <1>11, <1>17 DEF CanDepart, r, z

(* The victims move one after the other.                                   *)
LEMMA SwapOutAllOK ==
    ASSUME NEW kv, PlaneOK(kv), NEW slices, NEW victims, VictimsOK(kv, slices, victims),
           Moved(kv, victims) <= Cardinality(Free(kv.cold))
    PROVE  LET p == FoldLeft(SwapOut, kv, victims) IN
           /\ PlaneOK(p) /\ p.cache = kv.cache /\ ClocksKept(kv, p) /\ Live(p) = Live(kv)
           /\ OutsidersKept(kv, p, Range(victims))
           /\ \A s \in Range(victims) : ~IsHot(p, s)
<1> DEFINE n == Len(victims)
           p(k) == Departures!Partial({}, {}, kv, victims, k)
           f == Sizes(kv, victims)
           G == {k \in 0 .. n : Departing(kv, p(k), victims, k)}
<1>0. /\ victims \in Seq(Live(kv)) /\ DOMAIN victims = 1 .. n /\ n \in Nat
      /\ \A k \in DOMAIN victims : victims[k] \in Live(kv) /\ IsHot(kv, victims[k])
      /\ \A k, m \in DOMAIN victims : victims[k] = victims[m] => k = m
  BY DEF VictimsOK
<1>ind. Departures!Inductive BY Induction DEF Departures!Inductive
<1>1. p(0) = kv /\ p(n) = Departures!Fold({}, {}, kv, victims) BY <1>0, Departures!FoldEnds, <1>ind
<1>2. ASSUME NEW k \in 0 .. n - 1 PROVE p(k + 1) = SwapOut(p(k), victims[k + 1]) /\ k + 1 \in DOMAIN victims
  <2>1. p(k + 1) = SwapOutStep({}, {}, p(k), victims[k + 1]) BY <1>0, Departures!FoldStep, <1>ind
  <2>2. k + 1 \in 1 .. n BY <1>0
  <2> QED BY <1>0, <2>1, <2>2 DEF SwapOutStep
<1> HIDE DEF p, f
<1>3. 0 \in G
  <2>1. UpTo(victims, 0) = {} BY DEF UpTo
  <2>2. Total(f, 0 + 1 .. n) <= Cardinality(Free(kv.cold)) BY <1>0 DEF Moved, f
  <2>3. OutsidersKept(kv, kv, {}) /\ ClocksKept(kv, kv) BY DEF ClocksKept, OutsidersKept
  <2>4. \A i \in 1 .. 0 : ~IsHot(kv, victims[i]) OBVIOUS
  <2>5. Departing(kv, p(0), victims, 0) BY <1>1, <2>1, <2>2, <2>3, <2>4 DEF Departing, f
  <2> QED BY <1>0, <2>5
<1>4. ASSUME NEW k \in G, k \in 0 .. n - 1 PROVE k + 1 \in G
  <2>1. Departing(kv, p(k), victims, k) /\ p(k + 1) = SwapOut(p(k), victims[k + 1]) BY <1>2, <1>4
  <2>2. Departing(kv, p(k + 1), victims, k + 1) BY <2>1, <1>0, <1>4, DepartingOn
  <2> QED BY <2>2, <1>0, <1>4
<1>5. n \in G
  <2> HIDE DEF G
  <2>1. \A k \in 0 .. n : k \in G BY <1>0, <1>3, <1>4, Sums!PrefixInduction
  <2> QED BY <2>1, <1>0
<1>6. FoldLeft(SwapOut, kv, victims) = p(n) BY <1>1, DeparturesIsFold
<1>7. Departing(kv, p(n), victims, n) BY <1>5
<1>8. UpTo(victims, n) = Range(victims) BY <1>0 DEF UpTo, Range
<1>10. \A s \in Range(victims) : ~IsHot(p(n), s) BY <1>0, <1>7 DEF Range, Departing
<1> QED BY <1>6, <1>7, <1>8, <1>10 DEF Departing

(* A front of a sequence.                                                  *)
LEMMA SomeFront ==
    ASSUME NEW n \in Nat, NEW G
    PROVE  \E k \in 0 .. n : (k = n \/ k \in G) /\ \A m \in 0 .. k - 1 : m \notin G
<1> DEFINE Early == {k \in 0 .. n : \A m \in 0 .. k - 1 : m \notin G}
<1> SUFFICES ASSUME \A k \in 0 .. n : ~((k = n \/ k \in G) /\ \A m \in 0 .. k - 1 : m \notin G)
             PROVE  FALSE
    OBVIOUS
<1>1. 0 \in Early OBVIOUS
<1>2. ASSUME NEW k \in Early, k \in 0 .. n - 1 PROVE k + 1 \in Early
  <2>1. k \notin G BY <1>2
  <2>2. \A m \in 0 .. (k + 1) - 1 : m \in 0 .. k - 1 \/ m = k BY <1>2
  <2> QED BY <1>2, <2>1, <2>2
<1>3. n \in Early
  <2> HIDE DEF Early
  <2>1. \A k \in 0 .. n : k \in Early BY <1>1, <1>2, Sums!PrefixInduction
  <2> QED BY <2>1
<1> QED BY <1>3

----------------------------------------------------------------------------
(* The plan of a reservation.                                              *)

(* The entries that may be evicted, each once.                             *)
LEMMA EvictableIs ==
    ASSUME NEW kv, PlaneOK(kv)
    PROVE  LET e == Evictable(kv) IN
           /\ e \in Seq(Entries) /\ Range(e) \subseteq Range(kv.cache)
           /\ \A c, d \in DOMAIN e : e[c] = e[d] => c = d
<1> DEFINE S == {e \in Range(kv.cache) : \A b \in Range(e.blocks) : kv.hot[b] <= 1}
           seq == kv.cache
           kept == Keep(seq, S)
<1>1. seq \in Seq(Entries) /\ DistinctKeys(seq) BY RestIs
<1> HIDE DEF S
<1>2. /\ kept \in Seq(Entries) /\ DOMAIN kept = 1 .. Len(kept)
      /\ Range(kept) = Range(seq) \cap S
      /\ \A n \in DOMAIN kept : NthLeast(Places(seq, S), n) \in DOMAIN seq
      /\ \A m, n \in DOMAIN kept : m < n => NthLeast(Places(seq, S), m) < NthLeast(Places(seq, S), n)
  BY <1>1, KeepInOrder
<1>3. \A n \in DOMAIN kept : kept[n] = seq[NthLeast(Places(seq, S), n)] BY <1>1, KeepAt
<1> HIDE DEF kept
<1>4. ASSUME NEW k \in DOMAIN kept, NEW m \in DOMAIN kept, kept[k] = kept[m] PROVE k = m
  <2>1. NthLeast(Places(seq, S), k) = NthLeast(Places(seq, S), m) BY <1>1, <1>2, <1>3, <1>4 DEF DistinctKeys
  <2>2. DOMAIN seq = 1 .. Len(seq) /\ Len(seq) \in Nat BY <1>1
  <2>3. NthLeast(Places(seq, S), k) \in Int BY <1>2, <2>2
  <2>4. k \in Int /\ m \in Int BY <1>2
  <2>5. ~(k < m) /\ ~(m < k) BY <1>2, <2>1, <2>3
  <2> QED BY <2>4, <2>5
<1> QED BY <1>2, <1>4 DEF Evictable, kept, S

(* The front of a sequence without repetitions.                            *)
LEMMA FrontOfSeq ==
    ASSUME NEW T, NEW seq \in Seq(T), NEW n \in 0 .. Len(seq),
           \A c, d \in DOMAIN seq : seq[c] = seq[d] => c = d
    PROVE  LET f == SubSeq(seq, 1, n) IN
           /\ f \in Seq(T) /\ DOMAIN f = 1 .. n /\ DOMAIN f \subseteq DOMAIN seq
           /\ \A k \in DOMAIN f : f[k] = seq[k]
           /\ Range(f) \subseteq Range(seq)
           /\ \A c, d \in DOMAIN f : f[c] = f[d] => c = d
<1> DEFINE f == SubSeq(seq, 1, n)
<1>1. /\ f \in Seq(T) /\ DOMAIN f = 1 .. n /\ DOMAIN f \subseteq DOMAIN seq
      /\ \A k \in DOMAIN f : f[k] = seq[k]
  OBVIOUS
<1> HIDE DEF f
<1>2. Range(f) \subseteq Range(seq) BY <1>1 DEF Range
<1>3. \A c, d \in DOMAIN f : f[c] = f[d] => c = d BY <1>1
<1> QED BY <1>1, <1>2, <1>3 DEF f

(* The candidates, by the last batch they were in, then by their order.    *)
Earlier(kv, r, s) ==
    \/ kv.req[r].last < kv.req[s].last
    \/ kv.req[r].last = kv.req[s].last /\ kv.req[r].order < kv.req[s].order
Movable(kv, slices) == {r \in Live(kv) \ InBatch(slices) : IsHot(kv, r) /\ kv.req[r].table # <<>>}

(* The candidates for migration are hot requests outside the batch, each   *)
(* once.                                                                   *)
LEMMA CandidatesAre ==
    ASSUME NEW kv, PlaneOK(kv), NEW slices
    PROVE  VictimsOK(kv, slices, Candidates(kv, slices))
<1> DEFINE C == Movable(kv, slices)
           R == {p \in C \X C : Earlier(kv, p[1], p[2])}
           K == Candidates(kv, slices)
           N == Cardinality(C)
<1>1. C \subseteq Live(kv) /\ C \subseteq Requests /\ kv.req \in [Live(kv) -> States] /\ OrdersDiffer(kv)
  BY RestIs DEF Movable
<1>2. IsFiniteSet(C) /\ N \in Nat
  <2>1. NRequests \in Nat BY SizesAssumption
  <2>2. IsFiniteSet(Requests) BY <2>1, FS_Interval DEF Requests
  <2> QED BY <1>1, <2>2, FS_Subset, FS_CardinalityType
<1>3. \A r \in C : kv.req[r].last \in Int /\ kv.req[r].order \in Int
  <2>1. \A r \in C : kv.req[r] \in States BY <1>1
  <2> QED BY <2>1 DEF States
<1>4. \A r, s \in C : kv.req[r].order = kv.req[s].order => r = s BY <1>1 DEF OrdersDiffer
<1> HIDE DEF C
<1>5. \A r, s \in C : <<r, s>> \in R <=> Earlier(kv, r, s) OBVIOUS
<1>6. IsOrderOn(R, C)
  <2> HIDE DEF R
  <2>1. \A x \in C : <<x, x>> \notin R BY <1>3, <1>5 DEF Earlier
  <2>2. \A x, y \in C : x # y => <<x, y>> \in R \/ <<y, x>> \in R BY <1>3, <1>4, <1>5 DEF Earlier
  <2>3. \A x, y, z \in C : <<x, y>> \in R /\ <<y, z>> \in R => <<x, z>> \in R BY <1>3, <1>5 DEF Earlier
  <2> QED BY <2>1, <2>2, <2>3 DEF IsOrderOn
<1>7. \A x \in C : Below(R, C, x) = {s \in C : Earlier(kv, s, x)} BY <1>5 DEF Below
<1> HIDE DEF R
<1>8. ASSUME NEW n \in 1 .. N
      PROVE  \E x \in C : Cardinality({s \in C : Earlier(kv, s, x)}) = n - 1
  <2>1. PICK x \in C : Cardinality(Below(R, C, x)) = n - 1 BY <1>2, <1>6, RankExists
  <2> QED BY <2>1, <1>7
<1>9. K = [n \in 1 .. N |-> CHOOSE r \in C : Cardinality({s \in C : Earlier(kv, s, r)}) = n - 1]
  BY DEF Candidates, C, Movable, Earlier
<1> HIDE DEF K, N
<1>10. K \in [1 .. N -> C] /\ DOMAIN K = 1 .. N /\ \A n \in 1 .. N : K[n] \in C /\ Cardinality({s \in C : Earlier(kv, s, K[n])}) = n - 1
  <2> DEFINE Rank(x) == Cardinality({s \in C : Earlier(kv, s, x)})
  <2>1. \A n \in 1 .. N : \E x \in C : Rank(x) = n - 1 BY <1>8
  <2>2. K = [n \in 1 .. N |-> CHOOSE r \in C : Rank(r) = n - 1] BY <1>9
  <2> HIDE DEF Rank
  <2>3. DOMAIN K = 1 .. N /\ \A n \in 1 .. N : K[n] \in C /\ Rank(K[n]) = n - 1 BY <2>1, <2>2
  <2>4. K \in [1 .. N -> C] BY <2>2, <2>3
  <2> QED BY <2>3, <2>4 DEF Rank
<1>11. K \in Seq(Live(kv))
  <2>1. \A n \in 1 .. N : K[n] \in Live(kv) BY <1>1, <1>10
  <2>2. K \in [1 .. N -> Live(kv)] BY <1>10, <2>1
  <2> QED BY <1>2, <2>2
<1>12. \A n \in DOMAIN K : IsHot(kv, K[n]) /\ K[n] \notin InBatch(slices) BY <1>10 DEF C, Movable
<1>13. \A m, n \in DOMAIN K : K[m] = K[n] => m = n
  <2> SUFFICES ASSUME NEW m \in 1 .. N, NEW n \in 1 .. N, K[m] = K[n] PROVE m = n BY <1>10
  <2>1. m - 1 = n - 1 BY <1>10
  <2> QED BY <2>1
<1> QED BY <1>11, <1>12, <1>13 DEF VictimsOK, K

(* What a plan that works says.                                            *)
KeysOf(entries) == [i \in DOMAIN entries |-> entries[i].key]
PlanWorks(kv, slices, plan, entries, victims) ==
    /\ plan.evict = KeysOf(entries) /\ plan.victims = victims
    /\ entries \in Seq(Entries) /\ Range(entries) \subseteq Range(kv.cache)
    /\ \A c, d \in DOMAIN entries : entries[c] = entries[d] => c = d
    /\ VictimsOK(kv, slices, victims)
    /\ Moved(kv, victims) <= Cardinality(Free(kv.cold))
    /\ Cardinality(Reclaimed(kv, entries, victims)) >= Needed(kv, slices) - Cardinality(Free(kv.hot))

(* How many of the entries, and of the candidates, go.                     *)
EntriesNeeded(kv, seq, deficit) ==
    CHOOSE n \in 0 .. Len(seq) :
        /\ n = Len(seq) \/ Cardinality(Reclaimed(kv, SubSeq(seq, 1, n), <<>>)) >= deficit
        /\ \A m \in 0 .. n - 1 : ~(Cardinality(Reclaimed(kv, SubSeq(seq, 1, m), <<>>)) >= deficit)
VictimsNeeded(kv, entries, seq, deficit) ==
    CHOOSE n \in 0 .. Len(seq) :
        /\ n = Len(seq) \/ Cardinality(Reclaimed(kv, entries, SubSeq(seq, 1, n))) >= deficit
        /\ \A m \in 0 .. n - 1 : ~(Cardinality(Reclaimed(kv, entries, SubSeq(seq, 1, m))) >= deficit)

(* The entries and the victims a plan takes are fronts of their sequences. *)
LEMMA FrontsAre ==
    ASSUME NEW T, NEW seq \in Seq(T), NEW kv, NEW entries, NEW deficit
    PROVE  /\ EntriesNeeded(kv, seq, deficit) \in 0 .. Len(seq)
           /\ VictimsNeeded(kv, entries, seq, deficit) \in 0 .. Len(seq)
<1>0. Len(seq) \in Nat OBVIOUS
<1>1. EntriesNeeded(kv, seq, deficit) \in 0 .. Len(seq)
  <2> DEFINE G == {k \in 0 .. Len(seq) : Cardinality(Reclaimed(kv, SubSeq(seq, 1, k), <<>>)) >= deficit}
  <2>1. PICK k \in 0 .. Len(seq) : (k = Len(seq) \/ k \in G) /\ \A m \in 0 .. k - 1 : m \notin G BY <1>0, SomeFront
  <2>2. \A m \in 0 .. k - 1 : m \in 0 .. Len(seq) BY <1>0
  <2> QED BY <2>1, <2>2 DEF EntriesNeeded
<1>2. VictimsNeeded(kv, entries, seq, deficit) \in 0 .. Len(seq)
  <2> DEFINE G == {k \in 0 .. Len(seq) : Cardinality(Reclaimed(kv, entries, SubSeq(seq, 1, k))) >= deficit}
  <2>1. PICK k \in 0 .. Len(seq) : (k = Len(seq) \/ k \in G) /\ \A m \in 0 .. k - 1 : m \notin G BY <1>0, SomeFront
  <2>2. \A m \in 0 .. k - 1 : m \in 0 .. Len(seq) BY <1>0
  <2> QED BY <2>1, <2>2 DEF VictimsNeeded
<1> QED BY <1>1, <1>2

(* A reservation that is possible has a plan whose evictions and           *)
(* migrations make room for the batch.                                     *)
LEMMA PlanIs ==
    ASSUME NEW kv, PlaneOK(kv), NEW slices, CanReserve(kv, slices)
    PROVE  \E entries, victims : PlanWorks(kv, slices, Plan(kv, slices), entries, victims)
<1> DEFINE deficit == Needed(kv, slices) - Cardinality(Free(kv.hot))
           all == Evictable(kv)
           m == EntriesNeeded(kv, all, deficit)
           entries == SubSeq(all, 1, m)
           candidates == Candidates(kv, slices)
           n == VictimsNeeded(kv, entries, candidates, deficit)
           short == Cardinality(Reclaimed(kv, entries, <<>>)) < deficit
           victims == IF short /\ HasCold THEN SubSeq(candidates, 1, n) ELSE <<>>
           moved == SumFunction([i \in DOMAIN victims |-> TotalBlocks(kv, victims[i])])
<1>1. Plan(kv, slices) =
        [ok |-> /\ Cardinality(Reclaimed(kv, entries, victims)) >= deficit
                /\ moved <= Cardinality(Free(kv.cold)),
         evict |-> KeysOf(entries), victims |-> victims]
  BY DEF Plan, KeysOf, ShortestFront, EntriesNeeded, VictimsNeeded
<1>14. moved = Moved(kv, victims)
  <2> HIDE DEF victims
  <2> QED BY DEF Moved, Sizes, SumFunction, Total, SumFunctionOnSet
<1>2. all \in Seq(Entries) /\ Range(all) \subseteq Range(kv.cache) /\ \A c, d \in DOMAIN all : all[c] = all[d] => c = d
  BY EvictableIs
<1>3. VictimsOK(kv, slices, candidates) BY CandidatesAre
<1> HIDE DEF all, candidates, deficit
<1>4. Len(all) \in Nat /\ Len(candidates) \in Nat BY <1>2, <1>3 DEF VictimsOK
<1>5. m \in 0 .. Len(all) BY <1>2, FrontsAre
<1> HIDE DEF m
<1>6. /\ entries \in Seq(Entries) /\ Range(entries) \subseteq Range(kv.cache)
      /\ \A c, d \in DOMAIN entries : entries[c] = entries[d] => c = d
  BY <1>2, <1>5, FrontOfSeq
<1> HIDE DEF entries
<1>7. n \in 0 .. Len(candidates) BY <1>3, FrontsAre DEF VictimsOK
<1> HIDE DEF n
<1>8. VictimsOK(kv, slices, SubSeq(candidates, 1, n))
  <2> DEFINE f == SubSeq(candidates, 1, n)
  <2>1. candidates \in Seq(Live(kv)) /\ \A c, d \in DOMAIN candidates : candidates[c] = candidates[d] => c = d
    BY <1>3 DEF VictimsOK
  <2>2. /\ f \in Seq(Live(kv)) /\ DOMAIN f \subseteq DOMAIN candidates
        /\ \A k \in DOMAIN f : f[k] = candidates[k]
        /\ \A c, d \in DOMAIN f : f[c] = f[d] => c = d
    BY <2>1, <1>7, FrontOfSeq
  <2> HIDE DEF f
  <2>3. VictimsOK(kv, slices, f) BY <2>2, <1>3 DEF VictimsOK
  <2> QED BY <2>3 DEF f
<1>9. VictimsOK(kv, slices, <<>>) BY DEF VictimsOK
<1>10. VictimsOK(kv, slices, victims) BY <1>8, <1>9
<1> HIDE DEF victims, moved
<1>11. /\ Cardinality(Reclaimed(kv, entries, victims)) >= deficit /\ moved <= Cardinality(Free(kv.cold))
  <2>1. Plan(kv, slices).ok BY DEF CanReserve
  <2> QED BY <2>1, <1>1
<1>12. Plan(kv, slices).evict = KeysOf(entries) /\ Plan(kv, slices).victims = victims BY <1>1
<1>13. PlanWorks(kv, slices, Plan(kv, slices), entries, victims)
  BY <1>6, <1>10, <1>11, <1>12, <1>14 DEF PlanWorks, deficit
<1> QED BY <1>13

----------------------------------------------------------------------------
(* Reservation and preemption.                                             *)

(* A block all of whose references go is free.                             *)
LEMMA ReclaimedIsFree ==
    ASSUME NEW kv, PlaneOK(kv), NEW entries \in Seq(Entries), Range(entries) \subseteq Range(kv.cache),
           \A c, d \in DOMAIN entries : entries[c] = entries[d] => c = d,
           NEW slices, NEW victims, VictimsOK(kv, slices, victims),
           NEW p, PlaneOK(p), Range(p.cache) = Range(kv.cache) \ Range(entries), Live(p) = Live(kv),
           OutsidersKept(kv, p, Range(victims)), \A s \in Range(victims) : ~IsHot(p, s),
           NEW b \in Reclaimed(kv, entries, victims)
    PROVE  b \in Free(p.hot)
<1> DEFINE E == {i \in DOMAIN entries : b \in Range(entries[i].blocks)}
           V == {i \in DOMAIN victims : b \in TableBlocks(kv.req[victims[i]].table)}
           R == Readers(kv, b)
           g == [i \in V |-> victims[i]]
<1>1. b \in HotBlocks /\ Cardinality(E) + Cardinality(V) = kv.hot[b] BY DEF Reclaimed
<1>2. /\ RequestsOK(kv) /\ RequestsOK(p) /\ HotCounted(kv) /\ HotCounted(p) /\ EntriesApart(Range(kv.cache))
      /\ p.hot \in [HotBlocks -> Nat] /\ kv.cache \in Seq(Entries)
  BY PlaneParts DEF CacheOK, FieldsOK
<1>3. IsFiniteSet(R) /\ Cardinality(R) \in Nat BY <1>2, ReadersFinite
<1>4. /\ IsFiniteSet(E) /\ Cardinality(E) \in Nat /\ IsFiniteSet(V) /\ Cardinality(V) \in Nat
  <2>1. DOMAIN entries = 1 .. Len(entries) /\ Len(entries) \in Nat OBVIOUS
  <2>2. DOMAIN victims = 1 .. Len(victims) /\ Len(victims) \in Nat BY DEF VictimsOK
  <2>3. IsFiniteSet(DOMAIN entries) /\ IsFiniteSet(DOMAIN victims) BY <2>1, <2>2, FS_Interval
  <2>4. E \in SUBSET DOMAIN entries /\ V \in SUBSET DOMAIN victims OBVIOUS
  <2> HIDE DEF E, V
  <2> QED BY <2>3, <2>4, FS_Subset, FS_CardinalityType
<1>5. kv.hot[b] = Cardinality(R) + InCache(kv, b) BY <1>1, <1>2 DEF HotCounted
<1>6. g \in Injection(V, R)
  <2>1. \A i \in V : victims[i] \in R BY DEF VictimsOK, Readers
  <2>2. \A i, j \in V : g[i] = g[j] => i = j BY DEF VictimsOK
  <2>3. g \in [V -> R] BY <2>1
  <2> QED BY <2>2, <2>3 DEF Injection, IsInjective
<1>7. Cardinality(V) <= Cardinality(R) /\ (Cardinality(V) = Cardinality(R) => \A s \in R : \E i \in V : victims[i] = s)
  <2>0. g \in Injection(V, R) /\ IsFiniteSet(R) BY <1>3, <1>6
  <2>1. Cardinality(V) <= Cardinality(R) /\ (Cardinality(V) = Cardinality(R) <=> g \in Surjection(V, R))
    <3> HIDE DEF g, R, V
    <3> QED BY <2>0, FS_Injection
  <2>2. g \in Surjection(V, R) => \A s \in R : \E i \in V : victims[i] = s BY DEF Surjection
  <2> QED BY <2>1, <2>2
<1>8. \A e, f \in Range(kv.cache) : b \in Range(e.blocks) /\ b \in Range(f.blocks) => e = f
  <2> SUFFICES ASSUME NEW e \in Range(kv.cache), NEW f \in Range(kv.cache),
                      b \in Range(e.blocks), b \in Range(f.blocks)
               PROVE  e = f
      OBVIOUS
  <2>1. e \in Entries /\ f \in Entries BY <1>2 DEF Range
  <2>2. e.blocks \in HotRows /\ f.blocks \in HotRows BY <2>1 DEF Entries
  <2>3. PICK l \in 1 .. Layers : e.blocks[l] = b BY <2>2 DEF Range, HotRows
  <2>4. PICK m \in 1 .. Layers : f.blocks[m] = b BY <2>2 DEF Range, HotRows
  <2> QED BY <2>3, <2>4, <1>2 DEF EntriesApart
<1>9. Cardinality(E) <= InCache(kv, b) /\ (InCache(kv, b) = 1 /\ Cardinality(E) = 1 => E # {})
      /\ InCache(kv, b) \in {0, 1}
  <2>1. InCache(kv, b) \in {0, 1} BY DEF InCache
  <2>2. CASE E = {}
    <3>1. Cardinality(E) = 0 BY <2>2, FS_EmptySet
    <3> HIDE DEF E
    <3> QED BY <2>1, <3>1
  <2>3. CASE E # {}
    <3>1. PICK i \in E : TRUE BY <2>3
    <3>2. \A j \in E : entries[j] \in Range(kv.cache) BY DEF Range
    <3>3. E = {i} BY <3>1, <3>2, <1>8
    <3>4. Cardinality(E) = 1 BY <3>3, FS_Singleton
    <3>5. Caches(Range(kv.cache), b) BY <3>1, <3>2 DEF Caches
    <3>6. InCache(kv, b) = 1 BY <3>5 DEF InCache
    <3> HIDE DEF E
    <3> QED BY <2>3, <3>4, <3>6
  <2> QED BY <2>2, <2>3
<1> HIDE DEF E, V, R, g
<1>10. Cardinality(V) = Cardinality(R) /\ Cardinality(E) = InCache(kv, b)
  BY <1>1, <1>3, <1>4, <1>5, <1>7, <1>9
<1>11. Readers(p, b) = {}
  <2> SUFFICES ASSUME NEW s \in Readers(p, b) PROVE FALSE OBVIOUS
  <2>1. s \in Live(kv) /\ IsHot(p, s) /\ b \in TableBlocks(p.req[s].table) BY DEF Readers
  <2>2. s \notin Range(victims) BY <2>1
  <2>3. p.req[s] = kv.req[s] BY <2>1, <2>2 DEF OutsidersKept
  <2>4. s \in R BY <2>1, <2>3 DEF Readers, IsHot, R
  <2>5. PICK i \in V : victims[i] = s BY <2>4, <1>7, <1>10
  <2>6. s \in Range(victims) BY <2>5 DEF V, Range
  <2> QED BY <2>2, <2>6
<1>12. InCache(p, b) = 0
  <2> SUFFICES ASSUME NEW e \in Range(p.cache), b \in Range(e.blocks) PROVE FALSE BY DEF InCache, Caches
  <2>1. e \in Range(kv.cache) /\ e \notin Range(entries) OBVIOUS
  <2>2. InCache(kv, b) = 1 BY <2>1 DEF InCache, Caches
  <2>3. PICK i \in E : TRUE BY <2>2, <1>9, <1>10
  <2>4. i \in DOMAIN entries /\ b \in Range(entries[i].blocks) BY DEF E
  <2>5. entries[i] \in Range(entries) BY <2>4 DEF Range
  <2>6. entries[i] = e BY <2>1, <2>4, <2>5, <1>8
  <2> QED BY <2>1, <2>5, <2>6
<1>13. p.hot[b] = 0
  <2>1. p.hot[b] = Cardinality(Readers(p, b)) + InCache(p, b) BY <1>1, <1>2 DEF HotCounted
  <2> QED BY <2>1, <1>11, <1>12, FS_EmptySet
<1> QED BY <1>1, <1>2, <1>13 DEF Free

(* After the evictions and the moves, what the slices need is free.        *)
LEMMA MakesRoom ==
    ASSUME NEW kv, PlaneOK(kv), NEW slices, SlicesOK(kv, slices), NEW plan, NEW entries, NEW victims,
           PlanWorks(kv, slices, plan, entries, victims),
           NEW q, q = FoldLeft(Evict, kv, KeysOf(entries)), NEW p, p = FoldLeft(SwapOut, q, victims)
    PROVE  /\ PlaneOK(p) /\ ClocksKept(kv, p) /\ Live(p) = Live(kv)
           /\ OutsidersKept(kv, p, Range(victims)) /\ Range(victims) \cap InBatch(slices) = {}
           /\ SlicesOK(p, slices) /\ Covered(p, slices)
           /\ CacheStep(kv, q) /\ Range(q.cache) \subseteq Range(kv.cache) /\ p.cache = q.cache
           /\ VictimsOK(q, slices, victims) /\ Moved(q, victims) <= Cardinality(Free(q.cold))
<1>1. /\ entries \in Seq(Entries) /\ Range(entries) \subseteq Range(kv.cache)
      /\ \A c, d \in DOMAIN entries : entries[c] = entries[d] => c = d
      /\ VictimsOK(kv, slices, victims) /\ Moved(kv, victims) <= Cardinality(Free(kv.cold))
      /\ Cardinality(Reclaimed(kv, entries, victims)) >= Needed(kv, slices) - Cardinality(Free(kv.hot))
  BY DEF PlanWorks
<1>2. CacheStep(kv, q) /\ Range(q.cache) = Range(kv.cache) \ Range(entries) BY <1>1, EvictAllOK DEF KeysOf
<1>3. PlaneOK(q) /\ q.req = kv.req /\ q.cold = kv.cold /\ ClocksKept(kv, q) /\ Free(kv.hot) \subseteq Free(q.hot)
  BY <1>2 DEF CacheStep, CacheOnly, ClocksKept
<1>4. Live(q) = Live(kv) /\ (\A r : IsHot(q, r) = IsHot(kv, r)) /\ \A r : TotalBlocks(q, r) = TotalBlocks(kv, r)
  BY <1>3 DEF Live, IsHot, TotalBlocks
<1>5. VictimsOK(q, slices, victims) BY <1>1, <1>4 DEF VictimsOK
<1>6. Moved(q, victims) <= Cardinality(Free(q.cold))
  <2>1. Sizes(q, victims) = Sizes(kv, victims) BY <1>4 DEF Sizes
  <2> QED BY <2>1, <1>1, <1>3 DEF Moved
<1>7. /\ PlaneOK(p) /\ p.cache = q.cache /\ ClocksKept(q, p) /\ Live(p) = Live(q)
      /\ OutsidersKept(q, p, Range(victims))
      /\ \A s \in Range(victims) : ~IsHot(p, s)
  BY <1>3, <1>5, <1>6, SwapOutAllOK
<1>8. ClocksKept(kv, p) /\ Live(p) = Live(kv) BY <1>3, <1>4, <1>7 DEF ClocksKept
<1>9. OutsidersKept(kv, p, Range(victims)) BY <1>3, <1>4, <1>7 DEF OutsidersKept
<1>10. Range(victims) \cap InBatch(slices) = {} BY <1>1 DEF VictimsOK, Range
<1>11. SlicesOK(p, slices) BY <1>8 DEF SlicesOK
<1>12. Needed(p, slices) = Needed(kv, slices)
  <2>1. \A i \in DOMAIN slices : slices[i].req \in Live(kv) /\ slices[i].req \notin Range(victims)
    BY <1>10 DEF SlicesOK, InBatch
  <2>2. \A i \in DOMAIN slices : p.req[slices[i].req] = kv.req[slices[i].req] BY <2>1, <1>9 DEF OutsidersKept
  <2>3. \A i \in DOMAIN slices : Cost(p, slices[i]) = Cost(kv, slices[i]) BY <2>2, SameCost
  <2>4. Costs(p, slices) = Costs(kv, slices) BY <2>3 DEF Costs
  <2> QED BY <2>4, NeededIs
<1>13. \A b \in Reclaimed(kv, entries, victims) : b \in Free(p.hot)
  BY <1>1, <1>2, <1>7, <1>8, <1>9, ReclaimedIsFree
<1>14. Free(kv.hot) \subseteq Free(p.hot)
  <2> SUFFICES ASSUME NEW b \in Free(kv.hot) PROVE b \in Free(p.hot) OBVIOUS
  <2>1. HotSide(kv) /\ HotCounted(p) /\ p.hot \in [HotBlocks -> Nat] BY <1>7, RestIs, PlaneParts
  <2>2. b \in HotBlocks /\ HotReaders(kv, b) = {} /\ InCache(kv, b) = 0
        /\ \A r \in Requests : b \notin TableBlocks(HotTable(kv, r))
    BY <2>1, FreeIsUnread
  <2>3. Readers(p, b) = {}
    <3> SUFFICES ASSUME NEW s \in Readers(p, b) PROVE FALSE OBVIOUS
    <3>1. s \in Live(kv) /\ IsHot(p, s) /\ b \in TableBlocks(p.req[s].table) BY <1>8 DEF Readers
    <3>2. p.req[s] = kv.req[s] BY <3>1, <1>7, <1>9 DEF OutsidersKept
    <3>3. s \in Requests /\ IsHot(kv, s) BY <3>1, <3>2, LiveTables DEF IsHot
    <3>4. HotTable(kv, s) = p.req[s].table BY <3>1, <3>2, <3>3 DEF HotTable
    <3> QED BY <2>2, <3>1, <3>3, <3>4
  <2>4. InCache(p, b) = 0
    <3>1. ~Caches(Range(kv.cache), b) BY <2>2 DEF InCache
    <3>2. ~Caches(Range(p.cache), b) BY <3>1, <1>2, <1>7 DEF Caches
    <3> QED BY <3>2 DEF InCache
  <2>5. p.hot[b] = 0
    <3>1. p.hot[b] = Cardinality(Readers(p, b)) + InCache(p, b) BY <2>1, <2>2 DEF HotCounted
    <3> QED BY <3>1, <2>3, <2>4, FS_EmptySet
  <2> QED BY <2>1, <2>2, <2>5 DEF Free
<1>15. Covered(p, slices)
  <2> DEFINE F == Free(kv.hot)
             X == Reclaimed(kv, entries, victims)
  <2>1. IsFiniteSet(Free(p.hot)) /\ Cardinality(Free(p.hot)) \in Nat /\ IsFiniteSet(F) /\ Cardinality(F) \in Nat
    BY <1>7, FreeCount
  <2>2. X \subseteq Free(p.hot) /\ F \subseteq Free(p.hot) BY <1>13, <1>14
  <2>3. F \cap X = {}
    <3>1. \A b \in X : kv.hot[b] # 0
      <4>1. kv.hot \in [HotBlocks -> Nat] BY RestIs
      <4> SUFFICES ASSUME NEW b \in X PROVE kv.hot[b] # 0 OBVIOUS
      <4> DEFINE drops == Cardinality({i \in DOMAIN entries : b \in Range(entries[i].blocks)})
                 + Cardinality({i \in DOMAIN victims : b \in TableBlocks(kv.req[victims[i]].table)})
      <4>2. drops > 0 /\ drops = kv.hot[b] /\ b \in HotBlocks BY DEF Reclaimed
      <4> HIDE DEF drops
      <4> QED BY <4>1, <4>2
    <3> HIDE DEF X
    <3> QED BY <3>1 DEF Free
  <2> HIDE DEF X, F
  <2>4. IsFiniteSet(X) /\ Cardinality(X) \in Nat BY <2>1, <2>2, FS_Subset, FS_CardinalityType
  <2>5. Cardinality(F \cup X) = Cardinality(F) + Cardinality(X) - Cardinality({}) BY <2>1, <2>3, <2>4, FS_Union
  <2>6. Cardinality(F \cup X) <= Cardinality(Free(p.hot))
    <3>1. F \cup X \in SUBSET Free(p.hot) BY <2>2
    <3> QED BY <3>1, <2>1, FS_Subset
  <2>7. Cardinality({}) = 0 BY FS_EmptySet
  <2>8. Needed(kv, slices) \in Nat BY CostsSum
  <2>9. Cardinality(X) >= Needed(kv, slices) - Cardinality(F) BY <1>1 DEF X, F
  <2> QED BY <1>12, <2>1, <2>4, <2>5, <2>6, <2>7, <2>8, <2>9 DEF Covered
<1> QED BY <1>2, <1>5, <1>6, <1>7, <1>8, <1>9, <1>10, <1>11, <1>15

(* The stages of a reservation: evictions, departures, arrivals, growth.   *)
Staged(kv, slices, p, victims, q, o, in) ==
    /\ CacheStep(kv, q) /\ Range(q.cache) \subseteq Range(kv.cache)
    /\ VictimsOK(q, slices, victims) /\ Moved(q, victims) <= Cardinality(Free(q.cold))
    /\ o = FoldLeft(SwapOut, q, victims)
    /\ PlaneOK(o) /\ ClocksKept(kv, o) /\ Live(o) = Live(kv) /\ o.cache = q.cache
    /\ SlicesOK(o, slices) /\ Covered(o, slices)
    /\ in = FoldLeft(LAMBDA t, s : SwapIn(t, s.req), o, ColdOf(o, slices))
    /\ PlaneOK(in) /\ ClocksKept(o, in) /\ Live(in) = Live(o)
    /\ AllHot(in, slices) /\ SlicesOK(in, slices) /\ Covered(in, slices)
    /\ p = [FoldLeft(GrowAndPublish, in, slices) EXCEPT !.pending = TRUE]

(* A reservation that has room goes through its stages: departures,        *)
(* evictions, arrivals, growth.                                            *)
LEMMA ReserveStages ==
    ASSUME NEW kv, PlaneOK(kv), NEW slices, SlicesOK(kv, slices), CanReserve(kv, slices),
           NEW p, p = Reserve(kv, slices)
    PROVE  \E victims, q, o, in : Staged(kv, slices, p, victims, q, o, in)
<1> DEFINE plan == Plan(kv, slices)
<1>1. PICK entries, victims : PlanWorks(kv, slices, plan, entries, victims) BY PlanIs
<1> DEFINE q == FoldLeft(Evict, kv, KeysOf(entries))
           o == FoldLeft(SwapOut, q, victims)
           cold == ColdOf(kv, slices)
           in == FoldLeft(LAMBDA t, s : SwapIn(t, s.req), o, cold)
           g == FoldLeft(GrowAndPublish, in, slices)
<1>2. plan.evict = KeysOf(entries) /\ plan.victims = victims BY <1>1 DEF PlanWorks
<1>3. p = [g EXCEPT !.pending = TRUE] BY <1>2 DEF Reserve, ColdOf
<1> HIDE DEF plan
<1>4. /\ PlaneOK(o) /\ ClocksKept(kv, o) /\ Live(o) = Live(kv)
      /\ OutsidersKept(kv, o, Range(victims)) /\ Range(victims) \cap InBatch(slices) = {}
      /\ SlicesOK(o, slices) /\ Covered(o, slices)
      /\ CacheStep(kv, q) /\ Range(q.cache) \subseteq Range(kv.cache) /\ o.cache = q.cache
      /\ VictimsOK(q, slices, victims) /\ Moved(q, victims) <= Cardinality(Free(q.cold))
      /\ o = FoldLeft(SwapOut, q, victims)
  <2>1. q = FoldLeft(Evict, kv, KeysOf(entries)) /\ o = FoldLeft(SwapOut, q, victims) OBVIOUS
  <2> HIDE DEF q, o
  <2> QED BY <1>1, <2>1, MakesRoom
<1> HIDE DEF q, o
<1>5. cold = ColdOf(o, slices)
  <2>1. \A i \in DOMAIN slices : slices[i].req \in Live(kv) /\ slices[i].req \notin Range(victims)
    BY <1>4 DEF SlicesOK, InBatch
  <2>2. \A i \in DOMAIN slices : IsHot(o, slices[i].req) = IsHot(kv, slices[i].req)
    BY <2>1, <1>4 DEF OutsidersKept, IsHot
  <2>3. {s \in Range(slices) : ~IsHot(kv, s.req)} = {s \in Range(slices) : ~IsHot(o, s.req)} BY <2>2 DEF Range
  <2> QED BY <2>3 DEF ColdOf
<1>15. in = FoldLeft(LAMBDA t, s : SwapIn(t, s.req), o, ColdOf(o, slices)) BY <1>5
<1> HIDE DEF cold
<1>6. /\ PlaneOK(in) /\ ClocksKept(o, in) /\ Live(in) = Live(o)
      /\ AllHot(in, slices) /\ Covered(in, slices)
  BY <1>4, <1>5, SwapInAllOK
<1> HIDE DEF in
<1>7. SlicesOK(in, slices) BY <1>4, <1>6 DEF SlicesOK
<1> QED BY <1>3, <1>4, <1>6, <1>7, <1>15 DEF Staged

(* A reservation that the plan says is possible.                           *)
THEOREM ReserveOK ==
    ASSUME NEW kv, PlaneOK(kv), NEW slices, SlicesOK(kv, slices), CanReserve(kv, slices),
           NEW p, p = Reserve(kv, slices)
    PROVE  /\ PlaneOK(p) /\ Live(p) = Live(kv) /\ p.pending = TRUE
           /\ p.nextOrder = kv.nextOrder /\ p.clock = kv.clock /\ p.batchId = kv.batchId
           /\ \A i \in DOMAIN slices : Holding(p, slices[i])
<1>1. PICK victims, q, o, in : Staged(kv, slices, p, victims, q, o, in) BY ReserveStages
<1> DEFINE g == FoldLeft(GrowAndPublish, in, slices)
<1>2. /\ ClocksKept(kv, o) /\ Live(o) = Live(kv)
      /\ PlaneOK(in) /\ ClocksKept(o, in) /\ Live(in) = Live(o)
      /\ AllHot(in, slices) /\ SlicesOK(in, slices) /\ Covered(in, slices)
      /\ p = [g EXCEPT !.pending = TRUE]
  BY <1>1 DEF Staged
<1>8. /\ PlaneOK(g) /\ ClocksKept(in, g) /\ Live(g) = Live(in)
      /\ \A i \in DOMAIN slices : Holding(g, slices[i])
  BY <1>2, GrowAllOK
<1> HIDE DEF g
<1>9. /\ IsRecord(g) /\ FieldsOK(g) BY <1>8, RestIs DEF FieldsOK
<1>10. /\ IsRecord(p) /\ p.pending = TRUE /\ p.req = g.req /\ p.hot = g.hot /\ p.cold = g.cold /\ p.cache = g.cache
       /\ p.nextOrder = g.nextOrder /\ p.clock = g.clock /\ p.batchId = g.batchId
  BY <1>2, <1>9 DEF IsRecord, Fields
<1>11. PlaneOK(p)
  <2>1. RequestsOK(g) /\ CacheOK(g) /\ HotCounted(g) /\ ColdCounted(g) /\ OrdersDiffer(g) /\ CacheFits(g)
    BY <1>8, PlaneParts
  <2>2. /\ RequestsOK(p) /\ (\A b : Readers(p, b) = Readers(g, b)) /\ (\A b : ColdOwned(p, b) <=> ColdOwned(g, b))
        /\ (\A e : ReadsItsKey(p, e) <=> ReadsItsKey(g, e)) /\ OrdersDiffer(p)
    BY <1>10, <2>1, RequestsKept
  <2>3. FieldsOK(p) BY <1>9, <1>10 DEF FieldsOK
  <2>4. CacheOK(p) /\ CacheFits(p) BY <1>10, <2>1, <2>2 DEF CacheOK, CacheFits
  <2>5. HotCounted(p) /\ ColdCounted(p) BY <1>10, <2>1, <2>2 DEF HotCounted, ColdCounted, InCache
  <2> QED BY <2>2, <2>3, <2>4, <2>5, PlaneParts
<1>12. \A i \in DOMAIN slices : Holding(p, slices[i]) BY <1>8, <1>10 DEF Holding, IsHot
<1>13. Live(p) = Live(kv) BY <1>2, <1>8, <1>10 DEF Live
<1>14. p.nextOrder = kv.nextOrder /\ p.clock = kv.clock /\ p.batchId = kv.batchId
  BY <1>2, <1>8, <1>10 DEF ClocksKept
<1> QED BY <1>10, <1>11, <1>12, <1>13, <1>14

----------------------------------------------------------------------------
(* Execution of a batch.                                                   *)

(* PlaneOK is not about data, nor about the clocks.                        *)
LEMMA Relabelled ==
    ASSUME NEW kv, PlaneOK(kv), NEW p, IsRecord(p),
           p.req = kv.req /\ p.hot = kv.hot /\ p.cold = kv.cold /\ p.cache = kv.cache,
           p.nextOrder = kv.nextOrder, p.clock \in Nat /\ p.batchId \in Nat
    PROVE  PlaneOK(p) /\ Live(p) = Live(kv)
<1>1. /\ FieldsOK(kv) /\ RequestsOK(kv) /\ CacheOK(kv) /\ HotCounted(kv) /\ ColdCounted(kv)
      /\ OrdersDiffer(kv) /\ CacheFits(kv)
  BY PlaneParts
<1>2. /\ RequestsOK(p) /\ (\A b : Readers(p, b) = Readers(kv, b)) /\ (\A b : ColdOwned(p, b) <=> ColdOwned(kv, b))
      /\ (\A e : ReadsItsKey(p, e) <=> ReadsItsKey(kv, e)) /\ OrdersDiffer(p) /\ Live(p) = Live(kv)
  BY <1>1, RequestsKept
<1>3. FieldsOK(p) BY <1>1 DEF FieldsOK
<1>4. CacheOK(p) /\ CacheFits(p) BY <1>1, <1>2 DEF CacheOK, CacheFits
<1>5. HotCounted(p) /\ ColdCounted(p) BY <1>1, <1>2 DEF HotCounted, ColdCounted, InCache
<1> QED BY <1>2, <1>3, <1>4, <1>5, PlaneParts

(* The abstraction of the placement clock to ranks (Settled) preserves the *)
(* plane invariant.                                                        *)
LEMMA SettledOK ==
    ASSUME NEW kv, PlaneOK(kv), NEW p, p = Settled(kv)
    PROVE  /\ PlaneOK(p) /\ Live(p) = Live(kv) /\ p.req = kv.req /\ ClocksKept(kv, p)
<1>1. FieldsOK(kv) BY RestIs
<1>2. IsRecord(p) BY <1>1 DEF Settled, FieldsOK, IsRecord, Fields
<1>3. /\ p.req = kv.req /\ p.hot = kv.hot /\ p.cold = kv.cold /\ p.cache = kv.cache
      /\ p.nextOrder = kv.nextOrder /\ p.clock = kv.clock /\ p.batchId = kv.batchId /\ p.pending = kv.pending
  BY <1>1 DEF Settled, FieldsOK, IsRecord, Fields
<1>4. PlaneOK(p) /\ Live(p) = Live(kv) BY <1>1, <1>2, <1>3, Relabelled DEF FieldsOK
<1> QED BY <1>3, <1>4 DEF ClocksKept

(* Writing the appends of a batch.                                         *)
WriteStep(x, y, kv, slice) == Written(kv, slice)
Writes == INSTANCE FoldTheorems WITH Op <- WriteStep
CompletionStep(x, y, kv, slice) == PublishCompleted(kv, slice)
Completions == INSTANCE FoldTheorems WITH Op <- CompletionStep

(* The writes of a batch as a fold.                                        *)
LEMMA WritesIsFold ==
    ASSUME NEW kv, NEW slices
    PROVE  FoldLeft(Written, kv, slices) = Writes!Fold({}, {}, kv, slices)
BY DEF Writes!Fold, WriteStep, Writes!Iter, Writes!Greatest,
       FoldLeft, MapThenFoldSet, Max

(* The publications after a batch as a fold.                               *)
LEMMA CompletionsIsFold ==
    ASSUME NEW kv, NEW slices
    PROVE  FoldLeft(PublishCompleted, kv, slices) = Completions!Fold({}, {}, kv, slices)
BY DEF Completions!Fold, CompletionStep, Completions!Iter, Completions!Greatest,
       FoldLeft, MapThenFoldSet, Max

DataOnly(kv, p) ==
    /\ IsRecord(p)
    /\ p.req = kv.req /\ p.hot = kv.hot /\ p.cold = kv.cold /\ p.cache = kv.cache
    /\ p.nextOrder = kv.nextOrder /\ p.clock = kv.clock /\ p.batchId = kv.batchId
    /\ p.pending = kv.pending

(* A slice's writes change the data alone.                                 *)
LEMMA WrittenIs ==
    ASSUME NEW kv, IsRecord(kv), NEW s
    PROVE  DataOnly(kv, Written(kv, s))
BY DEF Written, DataOnly, IsRecord, Fields

(* A batch's writes change the data alone.                                 *)
LEMMA WriteAllIs ==
    ASSUME NEW kv, IsRecord(kv), NEW slices, slices \in Seq(Range(slices))
    PROVE  DataOnly(kv, FoldLeft(Written, kv, slices))
<1> DEFINE n == Len(slices)
           p(k) == Writes!Partial({}, {}, kv, slices, k)
           G == {k \in 0 .. n : DataOnly(kv, p(k))}
<1>0. n \in Nat OBVIOUS
<1>ind. Writes!Inductive BY Induction DEF Writes!Inductive
<1>1. p(0) = kv /\ p(n) = Writes!Fold({}, {}, kv, slices) BY Writes!FoldEnds, <1>ind
<1>2. ASSUME NEW k \in 0 .. n - 1 PROVE p(k + 1) = Written(p(k), slices[k + 1])
  <2>1. p(k + 1) = WriteStep({}, {}, p(k), slices[k + 1]) BY Writes!FoldStep, <1>ind
  <2> QED BY <2>1 DEF WriteStep
<1> HIDE DEF p
<1>3. 0 \in G BY <1>0, <1>1 DEF DataOnly
<1>4. ASSUME NEW k \in G, k \in 0 .. n - 1 PROVE k + 1 \in G
  <2> DEFINE a == p(k)
             b == p(k + 1)
  <2>1. DataOnly(kv, a) BY <1>4
  <2>2. b = Written(a, slices[k + 1]) BY <1>2, <1>4
  <2> HIDE DEF a, b
  <2>3. DataOnly(a, b)
    <3>1. IsRecord(a) BY <2>1 DEF DataOnly
    <3> QED BY <3>1, <2>2, WrittenIs
  <2>4. DataOnly(kv, b) BY <2>1, <2>3 DEF DataOnly
  <2> QED BY <2>4, <1>0, <1>4 DEF b
<1>5. n \in G
  <2> HIDE DEF G
  <2>1. \A k \in 0 .. n : k \in G BY <1>0, <1>3, <1>4, Sums!PrefixInduction
  <2> QED BY <2>1, <1>0
<1> QED BY <1>1, <1>5, WritesIsFold

(* The publication of a completed slice's blocks preserves the plane       *)
(* invariant.                                                              *)
LEMMA PublishCompletedOK ==
    ASSUME NEW kv, PlaneOK(kv), NEW s, s.req \in Live(kv), s.begin \in Nat, s.count \in Nat,
           IsHot(kv, s.req), Len(kv.req[s.req].table) >= BlocksFor(Tokens(s)),
           NEW p, p = PublishCompleted(kv, s)
    PROVE  CacheStep(kv, p)
<1> DEFINE r == s.req
           complete == AtMost(Tokens(s), Prompt[r]) \div BlockTokens
<1>1. Tokens(s) \in Nat BY DEF Tokens
<1>2. complete \in Nat /\ complete <= Len(kv.req[r].table)
  <2>1. r \in Requests /\ Len(kv.req[r].table) \in Nat BY LiveTables
  <2>2. complete \in Nat /\ complete <= BlocksFor(Tokens(s)) /\ BlocksFor(Tokens(s)) \in Nat BY <1>1, <2>1, BlocksForIs
  <2> HIDE DEF complete
  <2> QED BY <2>1, <2>2
<1>3. kv.clock \in Int BY RestIs DEF FieldsOK
<1>4. p = IF CacheBlocks > 0 THEN Publish(kv, r, complete, kv.clock, FALSE) ELSE kv BY DEF PublishCompleted
<1> HIDE DEF complete
<1>5. CASE CacheBlocks > 0
  <2>1. FALSE \in BOOLEAN OBVIOUS
  <2>2. CacheStep(kv, Publish(kv, r, complete, kv.clock, FALSE)) BY <1>2, <1>3, <2>1, PublishOK
  <2> QED BY <2>2, <1>4, <1>5
<1>6. CASE ~(CacheBlocks > 0) BY <1>4, <1>6, CacheOnlyItself DEF CacheStep
<1> QED BY <1>5, <1>6

(* The publication of all completed slices' blocks preserves the plane     *)
(* invariant.                                                              *)
LEMMA CompleteAllOK ==
    ASSUME NEW kv, PlaneOK(kv), NEW slices, SlicesOK(kv, slices), Mappable(kv, slices)
    PROVE  CacheStep(kv, FoldLeft(PublishCompleted, kv, slices))
<1> DEFINE n == Len(slices)
           p(k) == Completions!Partial({}, {}, kv, slices, k)
           G == {k \in 0 .. n : CacheStep(kv, p(k))}
<1>0. slices \in Seq(Range(slices)) /\ DOMAIN slices = 1 .. n /\ n \in Nat BY DEF SlicesOK
<1>ind. Completions!Inductive BY Induction DEF Completions!Inductive
<1>1. p(0) = kv /\ p(n) = Completions!Fold({}, {}, kv, slices) BY <1>0, Completions!FoldEnds, <1>ind
<1>2. ASSUME NEW k \in 0 .. n - 1 PROVE p(k + 1) = PublishCompleted(p(k), slices[k + 1]) /\ k + 1 \in DOMAIN slices
  <2>1. p(k + 1) = CompletionStep({}, {}, p(k), slices[k + 1]) BY <1>0, Completions!FoldStep, <1>ind
  <2> QED BY <2>1, <1>0 DEF CompletionStep
<1> HIDE DEF p
<1>3. 0 \in G BY <1>0, <1>1, CacheOnlyItself DEF CacheStep
<1>4. ASSUME NEW k \in G, k \in 0 .. n - 1 PROVE k + 1 \in G
  <2> DEFINE a == p(k)
             b == p(k + 1)
             s == slices[k + 1]
  <2>1. PlaneOK(a) /\ CacheOnly(kv, a) BY <1>4 DEF CacheStep
  <2>2. b = PublishCompleted(a, s) /\ k + 1 \in DOMAIN slices BY <1>2, <1>4
  <2>3. /\ s.req \in Live(kv) /\ s.begin \in Nat /\ s.count \in Nat
        /\ IsHot(kv, s.req) /\ Len(kv.req[s.req].table) >= BlocksFor(Tokens(s))
    BY <2>2 DEF SlicesOK, Mappable
  <2> HIDE DEF a, b, s
  <2>4. a.req = kv.req BY <2>1 DEF CacheOnly
  <2>5. s.req \in Live(a) /\ IsHot(a, s.req) /\ Len(a.req[s.req].table) >= BlocksFor(Tokens(s))
    BY <2>3, <2>4 DEF Live, IsHot
  <2>6. CacheStep(a, b) BY <2>1, <2>2, <2>3, <2>5, PublishCompletedOK
  <2>7. CacheStep(kv, b) BY <2>1, <2>6, CacheOnlyTransitive DEF CacheStep
  <2> QED BY <2>7, <1>0, <1>4 DEF b
<1>5. n \in G
  <2> HIDE DEF G
  <2>1. \A k \in 0 .. n : k \in G BY <1>0, <1>3, <1>4, Sums!PrefixInduction
  <2> QED BY <2>1, <1>0
<1> QED BY <1>1, <1>5, CompletionsIsFold

(* The execution of a batch that can be mapped preserves the plane         *)
(* invariant and every table.                                              *)
THEOREM ExecuteOK ==
    ASSUME NEW kv, PlaneOK(kv), NEW slices, SlicesOK(kv, slices), Mappable(kv, slices),
           NEW p, p = Execute(kv, slices)
    PROVE  /\ PlaneOK(p) /\ Live(p) = Live(kv) /\ p.req = kv.req
           /\ p.nextOrder = kv.nextOrder /\ p.pending = FALSE
<1> DEFINE m == [kv EXCEPT !.pending = FALSE, !.batchId = @ + 1, !.clock = IF Ttl = 0 THEN @ ELSE @ + 1]
           w == FoldLeft(Written, m, slices)
<1>0. FieldsOK(kv) /\ slices \in Seq(Range(slices)) BY RestIs DEF SlicesOK
<1>1. /\ IsRecord(m) /\ m.req = kv.req /\ m.hot = kv.hot /\ m.cold = kv.cold /\ m.cache = kv.cache
      /\ m.nextOrder = kv.nextOrder /\ m.pending = FALSE /\ m.clock \in Nat /\ m.batchId \in Nat
  BY <1>0 DEF FieldsOK, IsRecord, Fields
<1>2. p = FoldLeft(PublishCompleted, w, slices) BY DEF Execute
<1> HIDE DEF m
<1>3. DataOnly(m, w) BY <1>0, <1>1, WriteAllIs
<1> HIDE DEF w
<1>4. PlaneOK(w) /\ Live(w) = Live(kv) /\ w.req = kv.req /\ w.nextOrder = kv.nextOrder /\ w.pending = FALSE
  BY <1>1, <1>3, Relabelled DEF DataOnly
<1>5. SlicesOK(w, slices) /\ Mappable(w, slices) BY <1>4 DEF SlicesOK, Mappable, IsHot
<1>6. CacheStep(w, p) BY <1>2, <1>4, <1>5, CompleteAllOK
<1>7. p.req = kv.req /\ p.nextOrder = kv.nextOrder /\ p.pending = FALSE
  BY <1>4, <1>6 DEF CacheStep, CacheOnly
<1> QED BY <1>6, <1>7 DEF CacheStep, Live

----------------------------------------------------------------------------
(* What the invariant gives: exact counts, the budget of the cache.        *)

(* The sets that HotHolds and ColdHolds count.                             *)
HotHolders(kv, b) ==
    {h \in Live(kv) \X (1 .. HotCapacity) \X (1 .. Layers) :
        /\ IsHot(kv, h[1]) /\ h[2] \in DOMAIN kv.req[h[1]].table
        /\ kv.req[h[1]].table[h[2]][h[3]] = b}
EntryPlaces(kv, b) == {e \in (DOMAIN kv.cache) \X (1 .. Layers) : kv.cache[e[1]].blocks[e[2]] = b}
ColdHolders(kv, b) ==
    {h \in Live(kv) \X (1 .. ColdCapacity) \X (1 .. Layers) :
        /\ ~IsHot(kv, h[1]) /\ h[2] \in DOMAIN kv.req[h[1]].table
        /\ kv.req[h[1]].table[h[2]][h[3]] = b}

(* The holds of a block are its places in tables and in entries.           *)
LEMMA HoldsAre ==
    ASSUME NEW kv, NEW b
    PROVE  /\ HotHolds(kv, b) = Cardinality(HotHolders(kv, b)) + Cardinality(EntryPlaces(kv, b))
           /\ ColdHolds(kv, b) = Cardinality(ColdHolders(kv, b))
BY DEF HotHolds, ColdHolds, HotHolders, EntryPlaces, ColdHolders

(* A table of blocks that differ is no longer than there are blocks.       *)
LEMMA TableFits ==
    ASSUME NEW N \in Nat, NEW table \in Seq([1 .. Layers -> 0 .. N - 1]), Distinct(table)
    PROVE  Len(table) <= N
<1> DEFINE I == 1 .. Len(table)
           S == 0 .. N - 1
           f == [i \in I |-> table[i][1]]
<1>0. Layers \in Nat \ {0} /\ 1 \in 1 .. Layers BY SizesAssumption
<1>1. DOMAIN table = I /\ Len(table) \in Nat OBVIOUS
<1>2. \A i \in I : table[i] \in [1 .. Layers -> S] BY <1>1
<1>3. f \in [I -> S] BY <1>0, <1>2
<1>4. ASSUME NEW i \in I, NEW j \in I, f[i] = f[j] PROVE i = j
  <2>1. table[i][1] = table[j][1] BY <1>4
  <2> QED BY <2>1, <1>0, <1>1 DEF Distinct
<1>5. f \in Injection(I, S) BY <1>3, <1>4 DEF Injection, IsInjective
<1>6. IsFiniteSet(S) /\ Cardinality(S) = N BY FS_Interval
<1>7. IsFiniteSet(I) /\ Cardinality(I) = Len(table) BY <1>1, FS_Interval
<1> HIDE DEF f, I, S
<1> QED BY <1>5, <1>6, <1>7, FS_Injection

(* A request holds a hot block at one place of its table at most.          *)
LEMMA HoldersAreReaders ==
    ASSUME NEW kv, RequestsOK(kv), NEW b
    PROVE  Cardinality(HotHolders(kv, b)) = Cardinality(Readers(kv, b))
<1> DEFINE H == HotHolders(kv, b)
           R == Readers(kv, b)
           f == [h \in H |-> h[1]]
           grid == Live(kv) \X (1 .. HotCapacity) \X (1 .. Layers)
<1>1. \A h \in H : /\ h \in grid /\ IsHot(kv, h[1]) /\ h[2] \in DOMAIN kv.req[h[1]].table
                   /\ kv.req[h[1]].table[h[2]][h[3]] = b
  BY DEF HotHolders
<1>2. f \in [H -> R]
  <2> SUFFICES ASSUME NEW h \in H PROVE h[1] \in R OBVIOUS
  <2>1. h[1] \in Live(kv) /\ h[3] \in 1 .. Layers BY <1>1
  <2>2. b \in TableBlocks(kv.req[h[1]].table) BY <1>1, <2>1 DEF TableBlocks
  <2> QED BY <1>1, <2>1, <2>2 DEF Readers
<1>3. ASSUME NEW h \in H, NEW g \in H, f[h] = f[g] PROVE h = g
  <2>1. h \in grid /\ g \in grid /\ h[1] = g[1] BY <1>1, <1>3
  <2>2. /\ h[2] \in DOMAIN kv.req[h[1]].table /\ g[2] \in DOMAIN kv.req[h[1]].table
        /\ kv.req[h[1]].table[h[2]][h[3]] = kv.req[h[1]].table[g[2]][g[3]]
    BY <1>1, <2>1
  <2>3. Distinct(kv.req[h[1]].table) BY <2>1 DEF RequestsOK, TablesDistinct
  <2>4. h[2] = g[2] /\ h[3] = g[3] BY <2>1, <2>2, <2>3 DEF Distinct
  <2> QED BY <2>1, <2>4
<1>4. ASSUME NEW r \in R PROVE \E h \in H : f[h] = r
  <2>1. r \in Live(kv) /\ IsHot(kv, r) /\ b \in TableBlocks(kv.req[r].table) BY DEF Readers
  <2>2. PICK i \in DOMAIN kv.req[r].table, l \in 1 .. Layers : kv.req[r].table[i][l] = b BY <2>1 DEF TableBlocks
  <2>3. kv.req[r].table \in Seq([1 .. Layers -> 0 .. HotCapacity - 1]) /\ Distinct(kv.req[r].table)
    BY <2>1 DEF RequestsOK, TablesDistinct, HotRows, HotBlocks
  <2>4. HotCapacity \in Nat BY SizesAssumption
  <2>5. Len(kv.req[r].table) <= HotCapacity BY <2>3, <2>4, TableFits
  <2>6. i \in 1 .. HotCapacity BY <2>2, <2>3, <2>4, <2>5
  <2>7. <<r, i, l>> \in H BY <2>1, <2>2, <2>6 DEF HotHolders
  <2> QED BY <2>7
<1>5. IsFiniteSet(R) BY ReadersFinite
<1> HIDE DEF f, H, R
<1>6. f \in Injection(H, R) BY <1>2, <1>3 DEF Injection, IsInjective
<1>7. f \in Surjection(H, R) BY <1>2, <1>4 DEF Surjection
<1>8. Cardinality(H) = Cardinality(R) BY <1>5, <1>6, <1>7, FS_Injection
<1> QED BY <1>8 DEF H, R

(* A set of at most one element.                                           *)
LEMMA AtMostOne ==
    ASSUME NEW S, \A x, y \in S : x = y
    PROVE  IsFiniteSet(S) /\ Cardinality(S) = IF S = {} THEN 0 ELSE 1
<1>1. CASE S = {} BY <1>1, FS_EmptySet
<1>2. CASE S # {}
  <2>1. PICK x \in S : TRUE BY <1>2
  <2>2. S = {x} BY <2>1
  <2> QED BY <2>2, <1>2, FS_Singleton
<1> QED BY <1>1, <1>2

(* The cache holds a block in one entry at most.                           *)
LEMMA PlacesCounted ==
    ASSUME NEW kv, FieldsOK(kv), CacheOK(kv), NEW b
    PROVE  Cardinality(EntryPlaces(kv, b)) = InCache(kv, b)
<1> DEFINE E == EntryPlaces(kv, b)
<1>0. kv.cache \in Seq(Entries) BY DEF FieldsOK
<1>1. \A e \in E : /\ e \in (DOMAIN kv.cache) \X (1 .. Layers)
                   /\ kv.cache[e[1]].blocks[e[2]] = b
  BY DEF EntryPlaces
<1>2. ASSUME NEW d \in E, NEW e \in E PROVE d = e
  <2>1. /\ d[1] \in DOMAIN kv.cache /\ e[1] \in DOMAIN kv.cache
        /\ d[2] \in 1 .. Layers /\ e[2] \in 1 .. Layers /\ d = <<d[1], d[2]>> /\ e = <<e[1], e[2]>>
    BY <1>1
  <2>2. kv.cache[d[1]] \in Range(kv.cache) /\ kv.cache[e[1]] \in Range(kv.cache) BY <2>1 DEF Range
  <2>3. kv.cache[d[1]].blocks[d[2]] = kv.cache[e[1]].blocks[e[2]] BY <1>1
  <2>4. kv.cache[d[1]] = kv.cache[e[1]] /\ d[2] = e[2] BY <2>1, <2>2, <2>3 DEF CacheOK, EntriesApart
  <2>5. d[1] = e[1] BY <2>1, <2>4 DEF CacheOK, DistinctKeys
  <2> QED BY <2>1, <2>4, <2>5
<1>3. E # {} <=> Caches(Range(kv.cache), b)
  <2>1. ASSUME NEW e \in E PROVE Caches(Range(kv.cache), b)
    <3>1. e[1] \in DOMAIN kv.cache /\ e[2] \in 1 .. Layers /\ kv.cache[e[1]].blocks[e[2]] = b BY <1>1
    <3>2. kv.cache[e[1]] \in Entries BY <1>0, <3>1
    <3>3. kv.cache[e[1]].blocks \in HotRows BY <3>2 DEF Entries
    <3>4. b \in Range(kv.cache[e[1]].blocks) BY <3>1, <3>3 DEF Range, HotRows
    <3>5. kv.cache[e[1]] \in Range(kv.cache) BY <3>1 DEF Range
    <3> QED BY <3>4, <3>5 DEF Caches
  <2>2. ASSUME Caches(Range(kv.cache), b) PROVE E # {}
    <3>1. PICK i \in DOMAIN kv.cache : b \in Range(kv.cache[i].blocks) BY <2>2 DEF Caches, Range
    <3>2. kv.cache[i] \in Entries BY <1>0, <3>1
    <3>3. kv.cache[i].blocks \in HotRows BY <3>2 DEF Entries
    <3>4. PICK l \in 1 .. Layers : kv.cache[i].blocks[l] = b BY <3>1, <3>3 DEF Range, HotRows
    <3>5. <<i, l>> \in E BY <3>1, <3>4 DEF EntryPlaces
    <3> QED BY <3>5
  <2> QED BY <2>1, <2>2
<1> HIDE DEF E
<1>4. Cardinality(E) = IF E = {} THEN 0 ELSE 1 BY <1>2, AtMostOne
<1> QED BY <1>3, <1>4 DEF InCache, E

(* A cold block has one holder at most.                                    *)
LEMMA ColdHoldersCounted ==
    ASSUME NEW kv, RequestsOK(kv), NEW b
    PROVE  Cardinality(ColdHolders(kv, b)) = IF ColdOwned(kv, b) THEN 1 ELSE 0
<1> DEFINE H == ColdHolders(kv, b)
           grid == Live(kv) \X (1 .. ColdCapacity) \X (1 .. Layers)
<1>1. \A h \in H : /\ h \in grid /\ ~IsHot(kv, h[1]) /\ h[2] \in DOMAIN kv.req[h[1]].table
                   /\ kv.req[h[1]].table[h[2]][h[3]] = b
  BY DEF ColdHolders
<1>2. \A h \in H : b \in TableBlocks(kv.req[h[1]].table) /\ h[1] \in Live(kv)
  BY <1>1 DEF TableBlocks
<1>3. ASSUME NEW h \in H, NEW g \in H PROVE h = g
  <2>1. h \in grid /\ g \in grid BY <1>1
  <2>2. h[1] = g[1] BY <1>1, <1>2 DEF RequestsOK, ColdApart
  <2>3. /\ h[2] \in DOMAIN kv.req[h[1]].table /\ g[2] \in DOMAIN kv.req[h[1]].table
        /\ kv.req[h[1]].table[h[2]][h[3]] = kv.req[h[1]].table[g[2]][g[3]]
    BY <1>1, <2>2
  <2>4. Distinct(kv.req[h[1]].table) BY <2>1 DEF RequestsOK, TablesDistinct
  <2>5. h[2] = g[2] /\ h[3] = g[3] BY <2>1, <2>3, <2>4 DEF Distinct
  <2> QED BY <2>1, <2>2, <2>5
<1>4. ColdOwned(kv, b) => H # {}
  <2> SUFFICES ASSUME NEW r \in Live(kv), ~IsHot(kv, r), b \in TableBlocks(kv.req[r].table)
               PROVE  H # {}
      BY DEF ColdOwned
  <2>2. PICK i \in DOMAIN kv.req[r].table, l \in 1 .. Layers : kv.req[r].table[i][l] = b BY DEF TableBlocks
  <2>3. kv.req[r].table \in Seq([1 .. Layers -> 0 .. ColdCapacity - 1]) /\ Distinct(kv.req[r].table)
    BY DEF RequestsOK, TablesDistinct, ColdRows, ColdBlocks
  <2>4. ColdCapacity \in Nat BY SizesAssumption
  <2>5. Len(kv.req[r].table) <= ColdCapacity BY <2>3, <2>4, TableFits
  <2>6. i \in 1 .. ColdCapacity BY <2>2, <2>3, <2>4, <2>5
  <2>7. <<r, i, l>> \in H BY <2>2, <2>6 DEF ColdHolders
  <2> QED BY <2>7
<1>5. H # {} => ColdOwned(kv, b) BY <1>1, <1>2 DEF ColdOwned
<1> HIDE DEF H
<1>6. Cardinality(H) = IF H = {} THEN 0 ELSE 1 BY <1>3, AtMostOne
<1> QED BY <1>4, <1>5, <1>6 DEF H

(* Under the plane invariant every reference count is the number of        *)
(* holders of the block.                                                   *)
THEOREM CountsOK ==
    ASSUME NEW kv, PlaneOK(kv)
    PROVE  CountsAreHolders(kv)
<1>1. /\ FieldsOK(kv) /\ RequestsOK(kv) /\ CacheOK(kv) /\ HotCounted(kv) /\ ColdCounted(kv)
  BY PlaneParts
<1>2. \A b \in HotBlocks : kv.hot[b] = HotHolds(kv, b)
  BY <1>1, HoldsAre, HoldersAreReaders, PlacesCounted DEF HotCounted
<1>3. \A b \in ColdBlocks : kv.cold[b] = ColdHolds(kv, b) /\ kv.cold[b] <= 1
  BY <1>1, HoldsAre, ColdHoldersCounted DEF ColdCounted
<1> QED BY <1>2, <1>3 DEF CountsAreHolders

(* The empty plane satisfies the plane invariant.                          *)
LEMMA EmptyPlaneOK ==
    /\ PlaneOK(EmptyPlane) /\ Live(EmptyPlane) = {}
    /\ EmptyPlane.nextOrder = 0 /\ EmptyPlane.pending = FALSE /\ EmptyPlane.clock = 0
<1> DEFINE e == EmptyPlane
<1>1. /\ e.hot = [b \in HotBlocks |-> 0] /\ e.cold = [b \in ColdBlocks |-> 0] /\ e.req = <<>>
      /\ e.nextOrder = 0 /\ e.cache = <<>> /\ e.pending = FALSE /\ e.clock = 0 /\ e.batchId = 0
      /\ IsRecord(e)
  BY DEF EmptyPlane, IsRecord, Fields
<1> HIDE DEF e
<1>2. Live(e) = {} BY <1>1 DEF Live
<1>4. FieldsOK(e) BY <1>1 DEF FieldsOK
<1>5. RequestsOK(e)
  <2>1. e.req \in [{} -> States] BY <1>1
  <2> QED BY <1>2, <2>1 DEF RequestsOK, TablesDistinct, SharedByKey, ColdApart
<1>6. Range(e.cache) = {} BY <1>1 DEF Range
<1>7. CacheOK(e) BY <1>1, <1>6 DEF CacheOK, DistinctKeys, EntriesApart
<1>8. HotCounted(e)
  <2>1. \A b : Readers(e, b) = {} BY <1>2 DEF Readers
  <2>2. \A b : InCache(e, b) = 0 BY <1>6 DEF InCache, Caches
  <2>3. \A b \in HotBlocks : e.hot[b] = 0 BY <1>1
  <2>4. Cardinality({}) = 0 BY FS_EmptySet
  <2> QED BY <2>1, <2>2, <2>3, <2>4 DEF HotCounted
<1>9. ColdCounted(e) BY <1>1, <1>2 DEF ColdCounted, ColdOwned
<1>10. OrdersDiffer(e) BY <1>2 DEF OrdersDiffer
<1>11. CacheFits(e)
  <2>1. Layers \in Nat \ {0} /\ CacheBlocks \in Nat BY SizesAssumption
  <2>2. CacheBlocks \div Layers \in Nat BY <2>1, DivisionIs
  <2>3. Len(e.cache) = 0 BY <1>1
  <2> QED BY <2>2, <2>3 DEF CacheFits
<1>12. PlaneOK(e) BY <1>4, <1>5, <1>7, <1>8, <1>9, <1>10, <1>11, PlaneParts
<1> QED BY <1>1, <1>2, <1>12 DEF e

----------------------------------------------------------------------------
(* What a batch reads of the plane.                                        *)

(* What a batch reads of the plane does not depend on the values of the    *)
(* placement clock.                                                        *)
LEMMA SettledReadsTheSame ==
    ASSUME NEW p, PlaneOK(p), NEW slices
    PROVE  /\ PlaneOK(Settled(p)) /\ Live(Settled(p)) = Live(p) /\ Settled(p).pending = p.pending
           /\ SlicesOK(p, slices) => SlicesOK(Settled(p), slices)
           /\ Mappable(p, slices) => Mappable(Settled(p), slices)
<1> DEFINE q == Settled(p)
<1>1. PlaneOK(q) /\ Live(q) = Live(p) /\ q.req = p.req /\ ClocksKept(p, q) BY SettledOK
<1> HIDE DEF q
<1>2. \A r : IsHot(q, r) = IsHot(p, r) BY <1>1 DEF IsHot
<1>3. SlicesOK(p, slices) => SlicesOK(q, slices) BY <1>1 DEF SlicesOK
<1>4. Mappable(p, slices) => Mappable(q, slices) BY <1>1, <1>2 DEF Mappable
<1> QED BY <1>1, <1>3, <1>4 DEF q, ClocksKept

(* Nothing happens to the requests of a batch when others come and go.     *)
LEMMA BatchUntouched ==
    ASSUME NEW p, NEW q, NEW r, OthersKept(p, q, r), Live(p) \ {r} \subseteq Live(q),
           NEW slices, r \notin InBatch(slices), SlicesOK(p, slices)
    PROVE  /\ SlicesOK(q, slices)
           /\ Mappable(p, slices) => Mappable(q, slices)
<1>1. \A i \in DOMAIN slices : slices[i].req \in Live(p) \ {r} BY DEF SlicesOK, InBatch
<1>2. \A i \in DOMAIN slices : q.req[slices[i].req] = p.req[slices[i].req] BY <1>1 DEF OthersKept
<1>3. SlicesOK(q, slices) BY <1>1 DEF SlicesOK
<1>4. Mappable(p, slices) => Mappable(q, slices) BY <1>1, <1>2 DEF Mappable, IsHot
<1> QED BY <1>3, <1>4

(* A reservation that is possible makes the batch mappable.                *)
LEMMA ReservedBatch ==
    ASSUME NEW p, PlaneOK(p), NEW slices, SlicesOK(p, slices), CanReserve(p, slices),
           NEW q, q = Settled(Reserve(p, slices))
    PROVE  PlaneOK(q) /\ SlicesOK(q, slices) /\ Mappable(q, slices) /\ q.pending = TRUE
<1> DEFINE m == Reserve(p, slices)
<1>1. /\ PlaneOK(m) /\ Live(m) = Live(p) /\ m.pending = TRUE
      /\ \A i \in DOMAIN slices : Holding(m, slices[i])
  BY ReserveOK
<1>2. q = Settled(m) OBVIOUS
<1> HIDE DEF m
<1>3. SlicesOK(m, slices) BY <1>1 DEF SlicesOK
<1>4. Mappable(m, slices) BY <1>1, <1>3 DEF Mappable, Holding, SlicesOK
<1> QED BY <1>1, <1>2, <1>3, <1>4, SettledReadsTheSame

(* The tokens of a prefix hit are a number of tokens.                      *)
LEMMA AdmitHitIs ==
    ASSUME NEW p, PlaneOK(p), NEW r \in Requests, r \notin Live(p), NEW now \in Int,
           NEW hit, hit = AdmitHit(p, r, now) * BlockTokens
    PROVE  hit \in Nat
<1> DEFINE q == Admit(p, r, now, 0)
<1>1. PlaneOK(q) /\ r \in Live(q) /\ Len(q.req[r].table) = AdmitHit(p, r, now) BY AdmitOK
<1> HIDE DEF q
<1>2. AdmitHit(p, r, now) \in Nat BY <1>1, LiveTables
<1> QED BY <1>2, SizesAssumption

(* The empty batch.                                                        *)
LEMMA NoSlices == ASSUME NEW p PROVE SlicesOK(p, <<>>)
BY DEF SlicesOK, Range

----------------------------------------------------------------------------
(* The progress of a batch, and data that is right.                        *)

(* Progress: the requests of the batch, those of them whose slices are not *)
(* written yet, and for each request the tokens written and the tokens     *)
(* that will be when the batch has run.                                    *)
ProgressOK(g) ==
    /\ g.done \in [Requests -> Nat] /\ g.reach \in [Requests -> Nat] /\ g.todo \subseteq g.batch
    /\ \A r \in Requests : g.done[r] <= g.reach[r] /\ (r \notin g.todo => g.done[r] = g.reach[r])

(* Ordinal i is full with t tokens; the batch still writes it for r.       *)
Full(i, t) == i <= t \div BlockTokens
Due(g, r, i) == r \in g.todo /\ ~Full(i, g.done[r]) /\ i <= BlocksFor(g.reach[r])
DueBlock(kv, g, b) ==
    \E w \in Live(kv) : IsHot(kv, w) /\ \E i \in DOMAIN kv.req[w].table :
        Due(g, w, i) /\ \E l \in 1 .. Layers : kv.req[w].table[i][l] = b

(* Where a request reads, it finds its tokens, or will when the batch has  *)
(* run; a block shared by two is full then, and one of them has it full    *)
(* already; so is a block of the cache that a request has.                 *)
Reading(kv, g, r, i, l) ==
    LET b == kv.req[r].table[i][l]
    IN  IF IsHot(kv, r)
        THEN kv.hotData[b] = Stored(r, i, l, g.done[r]) \/ (r \in g.batch /\ DueBlock(kv, g, b))
        ELSE kv.coldData[b] = Stored(r, i, l, g.done[r])
TableRight(kv, g, r) ==
    /\ BlocksFor(g.done[r]) <= Len(kv.req[r].table)
    /\ \A i \in 1 .. BlocksFor(g.done[r]) : \A l \in 1 .. Layers : Reading(kv, g, r, i, l)
SharedRight(kv, g, r, s) ==
    \A i \in DOMAIN kv.req[r].table : \A j \in DOMAIN kv.req[s].table : \A l, m \in 1 .. Layers :
        kv.req[r].table[i][l] = kv.req[s].table[j][m] =>
            /\ Full(i, g.reach[r]) /\ Full(j, g.reach[s])
            /\ Full(i, g.done[r]) \/ Full(j, g.done[s])
CachedRight(kv, g, r, blocks) ==
    \A i \in DOMAIN kv.req[r].table : \A l, m \in 1 .. Layers :
        kv.req[r].table[i][l] = blocks[m] => Full(i, g.reach[r])
EntryCell(key, l) ==
    [identity |-> [key |-> key, of |-> 0, at |-> Len(key)], layer |-> l, fill |-> BlockTokens]
EntryRight(kv, g, key, blocks) ==
    \A l \in 1 .. Layers : kv.hotData[blocks[l]] = EntryCell(key, l) \/ DueBlock(kv, g, blocks[l])

(* What the cache offers: keys and blocks.                                 *)
Cached(kv) == {<<e.key, e.blocks>> : e \in Range(kv.cache)}

TablesRight(kv, g) == \A r \in Live(kv) : TableRight(kv, g, r)
SharesRight(kv, g) ==
    \A r, s \in Live(kv) : r # s /\ IsHot(kv, r) /\ IsHot(kv, s) => SharedRight(kv, g, r, s)
CacheRight(kv, g) ==
    \A c \in Cached(kv) :
        /\ EntryRight(kv, g, c[1], c[2])
        /\ \A r \in Live(kv) : IsHot(kv, r) => CachedRight(kv, g, r, c[2])
DataOK(kv, g) == TablesRight(kv, g) /\ SharesRight(kv, g) /\ CacheRight(kv, g)

----------------------------------------------------------------------------
(* A full ordinal stays full, and is one of those that tokens need.        *)
LEMMA FullIs ==
    ASSUME NEW t \in Nat, NEW u \in Nat, t <= u
    PROVE  /\ \A i \in Nat : Full(i, t) => Full(i, u)
           /\ \A i \in Nat : Full(i, t) => i <= BlocksFor(t)
<1>1. BlockTokens \in Nat \ {0} BY SizesAssumption
<1>2. t \div BlockTokens \in Nat /\ u \div BlockTokens \in Nat BY <1>1, DivisionIs
<1>3. t \div BlockTokens <= u \div BlockTokens BY <1>1, DivisionGrows
<1>4. t + BlockTokens - 1 \in Nat /\ t <= t + BlockTokens - 1 BY <1>1
<1>5. t \div BlockTokens <= (t + BlockTokens - 1) \div BlockTokens BY <1>1, <1>4, DivisionGrows
<1>6. (t + BlockTokens - 1) \div BlockTokens \in Nat BY <1>1, <1>4, DivisionIs
<1> QED BY <1>2, <1>3, <1>5, <1>6 DEF Full, BlocksFor

(* The fill of a full ordinal is that of a whole block.                    *)
LEMMA FullFill ==
    ASSUME NEW t \in Nat, NEW i \in Nat \ {0}, Full(i, t)
    PROVE  AtMost(t - (i - 1) * BlockTokens, BlockTokens) = BlockTokens
<1> DEFINE d == BlockTokens
           q == t \div d
<1>1. d \in Nat \ {0} BY SizesAssumption
<1>2. q \in Nat /\ d * q <= t BY <1>1, DivisionIs
<1>3. i <= q BY DEF Full
<1> HIDE DEF q
<1>4. d * i <= d * q BY <1>1, <1>2, <1>3, ProductGrows
<1>5. (i - 1) * d = d * i - d BY <1>1
<1>6. d * i \in Nat /\ d * q \in Nat BY <1>1, <1>2
<1> DEFINE x == d * i
           y == d * q
           z == (i - 1) * d
<1>7. x <= y /\ y <= t /\ z = x - d /\ x \in Nat /\ y \in Nat BY <1>2, <1>4, <1>5, <1>6
<1> HIDE DEF x, y
<1>8. z \in Int BY <1>1, <1>7
<1> HIDE DEF z
<1>9. AtMost(t - z, d) = d BY <1>1, <1>7, <1>8 DEF AtMost
<1> QED BY <1>9 DEF z

(* A full block holds the same whoever filled it.                          *)
LEMMA FullStored ==
    ASSUME NEW r, NEW i \in Nat \ {0}, NEW l, NEW t \in Nat, NEW u \in Nat, Full(i, t), Full(i, u)
    PROVE  Stored(r, i, l, t) = Stored(r, i, l, u)
BY FullFill DEF Stored

(* Blocks named by the same key are at the same ordinal and hold the same. *)
LEMMA KeyIs ==
    ASSUME NEW r \in Requests, NEW i, i \in 1 .. Len(Content[r])
    PROVE  /\ i \in Nat \ {0} /\ Len(Key(r, i)) = i
           /\ Identity(r, i) = [key |-> Key(r, i), of |-> 0, at |-> i]
<1>1. Content[r] \in Seq(Range(Content[r])) BY RequestsAssumption
<1>2. Len(Content[r]) \in Nat BY <1>1
<1>3. i \in Nat \ {0} /\ i <= Len(Content[r]) BY <1>2
<1>4. Len(Key(r, i)) = i BY <1>1, <1>3 DEF Key
<1> QED BY <1>3, <1>4 DEF Identity

(* What a request stores in a full block that a key names is what the      *)
(* cache entry of that key holds.                                          *)
LEMMA FullEntry ==
    ASSUME NEW r \in Requests, NEW i, NEW key, NamesKey(r, i, key), NEW l, NEW t \in Nat, Full(i, t)
    PROVE  Stored(r, i, l, t) = EntryCell(key, l)
<1>1. i \in Nat \ {0} /\ Len(key) = i /\ Identity(r, i) = [key |-> key, of |-> 0, at |-> i]
  BY KeyIs DEF NamesKey
<1> QED BY <1>1, FullFill DEF Stored, EntryCell

(* What a number of whole blocks fills and needs.                          *)
LEMMA WholeBlocks ==
    ASSUME NEW n \in Nat
    PROVE  /\ n * BlockTokens \in Nat /\ BlocksFor(n * BlockTokens) = n
           /\ \A i \in Nat : Full(i, n * BlockTokens) <=> i <= n
<1> DEFINE d == BlockTokens
           t == n * d
<1>1. d \in Nat \ {0} BY SizesAssumption
<1>2. t \in Nat BY <1>1
<1>3. d * n = t /\ d * (n + 1) = t + d /\ d * n \in Nat BY <1>1
<1> HIDE DEF t
<1>4. ASSUME NEW q \in Nat, NEW a \in Nat, d * q <= a, a < d * q + d, t <= a, a < t + d PROVE q = n
  <2>1. q >= n + 1 => d * (n + 1) <= d * q BY <1>1, ProductGrows
  <2>2. n >= q + 1 => d * (q + 1) <= d * n BY <1>1, ProductGrows
  <2>3. d * (q + 1) = d * q + d BY <1>1
  <2> DEFINE x == d * q
             y == d * n
             z == d * (q + 1)
             w == d * (n + 1)
  <2>4. /\ x \in Nat /\ y = t /\ z = x + d /\ w = t + d /\ x <= a /\ a < x + d
        /\ (q >= n + 1 => w <= x) /\ (n >= q + 1 => z <= y)
    BY <1>1, <1>3, <1>4, <2>1, <2>2, <2>3
  <2> HIDE DEF x, y, z, w
  <2> QED BY <2>4, <1>1, <1>2, <1>4
<1>5. t \div d = n
  <2>1. /\ t \div d \in Nat /\ d * (t \div d) <= t /\ t < d * (t \div d) + d BY <1>1, <1>2, DivisionIs
  <2> DEFINE q == t \div d
  <2>2. q \in Nat /\ d * q <= t /\ t < d * q + d BY <2>1
  <2> HIDE DEF q
  <2>3. t <= t /\ t < t + d BY <1>1, <1>2
  <2>4. q = n BY <2>2, <2>3, <1>2, <1>4
  <2> QED BY <2>4 DEF q
<1>6. (t + d - 1) \div d = n
  <2> DEFINE a == t + d - 1
             q == a \div d
  <2>1. a \in Nat /\ t <= a /\ a < t + d BY <1>1, <1>2
  <2> HIDE DEF a
  <2>2. q \in Nat /\ d * q <= a /\ a < d * q + d BY <1>1, <2>1, DivisionIs
  <2> HIDE DEF q
  <2>3. q = n BY <2>1, <2>2, <1>4
  <2> QED BY <2>3 DEF q, a
<1> QED BY <1>2, <1>5, <1>6 DEF Full, BlocksFor, t

----------------------------------------------------------------------------
(* Data through evictions and new blocks.                                  *)

(* Blocks that are held are not free.                                      *)
LEMMA HeldBlocks ==
    ASSUME NEW kv, PlaneOK(kv)
    PROVE  /\ \A r \in Live(kv) : IsHot(kv, r) =>
                  \A i \in DOMAIN kv.req[r].table : \A l \in 1 .. Layers :
                      /\ kv.req[r].table[i][l] \in HotBlocks
                      /\ kv.req[r].table[i][l] \notin Free(kv.hot)
           /\ \A r \in Live(kv) : ~IsHot(kv, r) =>
                  \A i \in DOMAIN kv.req[r].table : \A l \in 1 .. Layers :
                      /\ kv.req[r].table[i][l] \in ColdBlocks
                      /\ kv.req[r].table[i][l] \notin Free(kv.cold)
           /\ \A c \in Cached(kv) : \A l \in 1 .. Layers : c[2][l] \in HotBlocks /\ c[2][l] \notin Free(kv.hot)
<1>0. HotSide(kv) /\ ColdSide(kv) /\ kv.cache \in Seq(Entries) BY RestIs
<1>1. ASSUME NEW r \in Live(kv), IsHot(kv, r), NEW i \in DOMAIN kv.req[r].table, NEW l \in 1 .. Layers
      PROVE  kv.req[r].table[i][l] \in HotBlocks /\ kv.req[r].table[i][l] \notin Free(kv.hot)
  <2> DEFINE b == kv.req[r].table[i][l]
  <2>1. r \in Requests /\ HotTable(kv, r) = kv.req[r].table /\ kv.req[r].table \in Seq(HotRows)
    BY <1>1, LiveTables
  <2>5. kv.req[r].table[i] \in HotRows BY <1>1, <2>1
  <2>2. b \in HotBlocks BY <2>5 DEF HotRows
  <2>3. b \in TableBlocks(HotTable(kv, r)) BY <1>1, <2>1 DEF TableBlocks
  <2> HIDE DEF b
  <2>4. b \notin Free(kv.hot) BY <1>0, <2>1, <2>3, FreeIsUnread
  <2> QED BY <2>2, <2>4 DEF b
<1>2. ASSUME NEW r \in Live(kv), ~IsHot(kv, r), NEW i \in DOMAIN kv.req[r].table, NEW l \in 1 .. Layers
      PROVE  kv.req[r].table[i][l] \in ColdBlocks /\ kv.req[r].table[i][l] \notin Free(kv.cold)
  <2> DEFINE b == kv.req[r].table[i][l]
  <2>1. r \in Requests /\ ColdTable(kv, r) = kv.req[r].table /\ kv.req[r].table \in Seq(ColdRows)
    BY <1>2, LiveTables
  <2>5. kv.req[r].table[i] \in ColdRows BY <1>2, <2>1
  <2>2. b \in ColdBlocks BY <2>5 DEF ColdRows
  <2>3. b \in TableBlocks(ColdTable(kv, r)) BY <1>2, <2>1 DEF TableBlocks
  <2> HIDE DEF b
  <2>4. kv.cold[b] = 1 BY <1>0, <2>1, <2>2, <2>3 DEF ColdSide
  <2> QED BY <2>2, <2>4 DEF b, Free
<1>3. ASSUME NEW c \in Cached(kv), NEW l \in 1 .. Layers
      PROVE  c[2][l] \in HotBlocks /\ c[2][l] \notin Free(kv.hot)
  <2>1. PICK e \in Range(kv.cache) : c = <<e.key, e.blocks>> BY <1>3 DEF Cached
  <2>2. e \in Entries BY <1>0, <2>1 DEF Range
  <2>3. e.blocks \in [1 .. Layers -> HotBlocks] BY <2>2 DEF Entries, HotRows
  <2> DEFINE b == c[2][l]
  <2>4. b \in HotBlocks /\ b \in Range(e.blocks) BY <2>1, <2>3 DEF Range
  <2> HIDE DEF b
  <2>5. Caches(Range(kv.cache), b) BY <2>1, <2>4 DEF Caches
  <2>6. InCache(kv, b) = 1 BY <2>5 DEF InCache
  <2>7. b \notin Free(kv.hot) BY <1>0, <2>6, FreeIsUnread
  <2> QED BY <2>4, <2>7 DEF b
<1> QED BY <1>1, <1>2, <1>3

(* From one plane and progress to another, in which only the requests of R *)
(* are different, only free blocks were written, and nothing is offered    *)
(* that was not before.                                                    *)
Elsewhere(kv, p, R) ==
    /\ Live(p) \ R = Live(kv) \ R
    /\ \A s \in Live(kv) \ R : p.req[s] = kv.req[s]
    /\ \A b \in HotBlocks \ Free(kv.hot) : p.hotData[b] = kv.hotData[b]
    /\ \A b \in ColdBlocks \ Free(kv.cold) : p.coldData[b] = kv.coldData[b]
    /\ Cached(p) \subseteq Cached(kv)
SameProgress(g, h, R) ==
    \A s \in Requests \ R :
        /\ h.done[s] = g.done[s] /\ h.reach[s] = g.reach[s] /\ (s \in g.todo <=> s \in h.todo)
        /\ s \in g.batch => s \in h.batch
DuesKept(kv, g, p, h, R) ==
    \A w \in R \cap Live(kv) : IsHot(kv, w) =>
        \A i \in DOMAIN kv.req[w].table : Due(g, w, i) =>
            \A l \in 1 .. Layers : DueBlock(p, h, kv.req[w].table[i][l])
OwnRight(p, h, r) ==
    /\ TableRight(p, h, r)
    /\ IsHot(p, r) => /\ \A s \in Live(p) \ {r} : IsHot(p, s) => SharedRight(p, h, r, s)
                      /\ \A c \in Cached(p) : CachedRight(p, h, r, c[2])

(* A block that is due stays due when the requests elsewhere keep their    *)
(* rows and the batch keeps its plan.                                      *)
LEMMA DueBlocksStay ==
    ASSUME NEW kv, NEW p, NEW R, NEW g, NEW h, Live(kv) \subseteq Requests,
           Elsewhere(kv, p, R), SameProgress(g, h, R), DuesKept(kv, g, p, h, R),
           NEW b, DueBlock(kv, g, b)
    PROVE  DueBlock(p, h, b)
<1>1. PICK w \in Live(kv) : IsHot(kv, w) /\ \E i \in DOMAIN kv.req[w].table :
         Due(g, w, i) /\ \E l \in 1 .. Layers : kv.req[w].table[i][l] = b
  BY DEF DueBlock
<1>2. PICK i \in DOMAIN kv.req[w].table : Due(g, w, i) /\ \E l \in 1 .. Layers : kv.req[w].table[i][l] = b
  BY <1>1
<1>3. PICK l \in 1 .. Layers : kv.req[w].table[i][l] = b BY <1>2
<1>4. CASE w \in R BY <1>1, <1>2, <1>3, <1>4 DEF DuesKept
<1>5. CASE w \notin R
  <2>1. w \in Live(p) /\ p.req[w] = kv.req[w] /\ IsHot(p, w) BY <1>1, <1>5 DEF Elsewhere, IsHot
  <2>2. w \in Requests \ R BY <1>5
  <2>3. Due(h, w, i) BY <1>2, <2>2 DEF Due, SameProgress
  <2> QED BY <1>2, <1>3, <2>1, <2>3 DEF DueBlock
<1> QED BY <1>4, <1>5

(* Data that is right stays right when it changes only for some requests,  *)
(* and those have theirs right afterwards.                                 *)
LEMMA Carried ==
    ASSUME NEW kv, PlaneOK(kv), NEW g, ProgressOK(g), DataOK(kv, g), NEW p, NEW h, NEW R,
           Elsewhere(kv, p, R), SameProgress(g, h, R), DuesKept(kv, g, p, h, R),
           \A r \in R \cap Live(p) : OwnRight(p, h, r)
    PROVE  DataOK(p, h)
<1>0. Live(kv) \subseteq Requests BY RestIs
<1>1. \A b : DueBlock(kv, g, b) => DueBlock(p, h, b) BY <1>0, DueBlocksStay
<1>2. ASSUME NEW s \in Live(p), s \notin R
      PROVE  /\ s \in Live(kv) /\ p.req[s] = kv.req[s] /\ IsHot(p, s) = IsHot(kv, s)
             /\ h.done[s] = g.done[s] /\ h.reach[s] = g.reach[s] /\ (s \in g.batch => s \in h.batch)
  BY <1>0, <1>2 DEF Elsewhere, SameProgress, IsHot
<1>3. TablesRight(p, h)
  <2> SUFFICES ASSUME NEW s \in Live(p), s \notin R PROVE TableRight(p, h, s)
    BY DEF TablesRight, OwnRight
  <2>1. TableRight(kv, g, s) BY <1>2 DEF DataOK, TablesRight
  <2>2. BlocksFor(h.done[s]) <= Len(p.req[s].table) BY <1>2, <2>1 DEF TableRight
  <2>3. ASSUME NEW i \in 1 .. BlocksFor(h.done[s]), NEW l \in 1 .. Layers PROVE Reading(p, h, s, i, l)
    <3>1. Reading(kv, g, s, i, l) BY <1>2, <2>1, <2>3 DEF TableRight
    <3>2. i \in DOMAIN kv.req[s].table
      <4>1. Len(kv.req[s].table) \in Nat /\ DOMAIN kv.req[s].table = 1 .. Len(kv.req[s].table)
        BY <1>2, LiveTables
      <4>2. i \in 1 .. BlocksFor(g.done[s]) /\ BlocksFor(g.done[s]) <= Len(kv.req[s].table)
        BY <1>2, <2>1, <2>3 DEF TableRight
      <4>3. g.done[s] \in Nat BY <1>0, <1>2 DEF ProgressOK
      <4>4. BlocksFor(g.done[s]) \in Nat BY <4>3, BlocksForIs
      <4> DEFINE n == BlocksFor(g.done[s])
                 m == Len(kv.req[s].table)
      <4>5. i \in 1 .. n /\ n <= m /\ n \in Nat /\ m \in Nat BY <4>1, <4>2, <4>4
      <4> HIDE DEF n, m
      <4>6. i \in 1 .. m BY <4>5
      <4> QED BY <4>1, <4>6 DEF m
    <3> DEFINE b == kv.req[s].table[i][l]
    <3>3. CASE IsHot(kv, s)
      <4>1. b \in HotBlocks \ Free(kv.hot) BY <1>2, <3>2, <3>3, HeldBlocks
      <4>2. p.hotData[b] = kv.hotData[b] BY <4>1 DEF Elsewhere
      <4> QED BY <1>1, <1>2, <3>1, <3>3, <4>2 DEF Reading
    <3>4. CASE ~IsHot(kv, s)
      <4>1. b \in ColdBlocks \ Free(kv.cold) BY <1>2, <3>2, <3>4, HeldBlocks
      <4>2. p.coldData[b] = kv.coldData[b] BY <4>1 DEF Elsewhere
      <4> QED BY <1>2, <3>1, <3>4, <4>2 DEF Reading
    <3> QED BY <3>3, <3>4
  <2> QED BY <2>2, <2>3 DEF TableRight
<1>4. SharesRight(p, h)
  <2> SUFFICES ASSUME NEW r \in Live(p), NEW s \in Live(p), r # s, IsHot(p, r), IsHot(p, s)
               PROVE  SharedRight(p, h, r, s)
    BY DEF SharesRight
  <2>1. CASE r \in R BY <2>1 DEF OwnRight
  <2>2. CASE s \in R
    <3>1. SharedRight(p, h, s, r) BY <2>2 DEF OwnRight
    <3> QED BY <3>1 DEF SharedRight
  <2>3. CASE r \notin R /\ s \notin R
    <3>1. SharedRight(kv, g, r, s) BY <1>2, <2>3 DEF DataOK, SharesRight
    <3> QED BY <1>2, <2>3, <3>1 DEF SharedRight
  <2> QED BY <2>1, <2>2, <2>3
<1>5. CacheRight(p, h)
  <2> SUFFICES ASSUME NEW c \in Cached(p)
               PROVE  /\ EntryRight(p, h, c[1], c[2])
                      /\ \A r \in Live(p) : IsHot(p, r) => CachedRight(p, h, r, c[2])
    BY DEF CacheRight
  <2>1. c \in Cached(kv) BY DEF Elsewhere
  <2>2. EntryRight(kv, g, c[1], c[2]) /\ \A r \in Live(kv) : IsHot(kv, r) => CachedRight(kv, g, r, c[2])
    BY <2>1 DEF DataOK, CacheRight
  <2>3. EntryRight(p, h, c[1], c[2])
    <3> SUFFICES ASSUME NEW l \in 1 .. Layers
                 PROVE  p.hotData[c[2][l]] = EntryCell(c[1], l) \/ DueBlock(p, h, c[2][l])
      BY DEF EntryRight
    <3>1. c[2][l] \in HotBlocks \ Free(kv.hot) BY <2>1, HeldBlocks
    <3>2. p.hotData[c[2][l]] = kv.hotData[c[2][l]] BY <3>1 DEF Elsewhere
    <3> QED BY <1>1, <2>2, <3>2 DEF EntryRight
  <2>4. ASSUME NEW r \in Live(p), IsHot(p, r) PROVE CachedRight(p, h, r, c[2])
    <3>1. CASE r \in R BY <2>4, <3>1 DEF OwnRight
    <3>2. CASE r \notin R
      <4>1. CachedRight(kv, g, r, c[2]) BY <1>2, <2>2, <2>4, <3>2
      <4> QED BY <1>2, <3>2, <4>1 DEF CachedRight
    <3> QED BY <3>1, <3>2
  <2> QED BY <2>3, <2>4
<1> QED BY <1>3, <1>4, <1>5 DEF DataOK

(* Nothing but the cache changed, which offers less.                       *)
LEMMA Offered ==
    ASSUME NEW kv, PlaneOK(kv), NEW g, ProgressOK(g), DataOK(kv, g), NEW p, p.req = kv.req,
           p.hotData = kv.hotData, p.coldData = kv.coldData, Cached(p) \subseteq Cached(kv)
    PROVE  DataOK(p, g)
<1>1. Elsewhere(kv, p, {}) BY DEF Elsewhere, Live
<1>2. SameProgress(g, g, {}) /\ DuesKept(kv, g, p, g, {}) BY DEF SameProgress, DuesKept
<1>3. \A r \in {} \cap Live(p) : OwnRight(p, g, r) OBVIOUS
<1> QED BY <1>1, <1>2, <1>3, Carried

(* The data of free blocks is of no use.                                   *)
LEMMA SettledData ==
    ASSUME NEW kv, PlaneOK(kv), NEW g, ProgressOK(g), DataOK(kv, g)
    PROVE  DataOK(Settled(kv), g)
<1> DEFINE p == Settled(kv)
<1>1. IsRecord(kv) BY RestIs DEF FieldsOK
<1>2. /\ p.req = kv.req /\ p.cache = kv.cache
      /\ p.hotData = [b \in HotBlocks |-> IF kv.hot[b] = 0 THEN Junk ELSE kv.hotData[b]]
      /\ p.coldData = [b \in ColdBlocks |-> IF kv.cold[b] = 0 THEN Junk ELSE kv.coldData[b]]
  BY <1>1 DEF Settled, IsRecord, Fields
<1> HIDE DEF p
<1>3. DOMAIN kv.hot = HotBlocks /\ DOMAIN kv.cold = ColdBlocks BY RestIs
<1>4. Elsewhere(kv, p, {}) BY <1>2, <1>3 DEF Elsewhere, Live, Cached, Free
<1>5. SameProgress(g, g, {}) /\ DuesKept(kv, g, p, g, {}) BY DEF SameProgress, DuesKept
<1>6. \A r \in {} \cap Live(p) : OwnRight(p, g, r) OBVIOUS
<1>7. DataOK(p, g) BY <1>4, <1>5, <1>6, Carried
<1> QED BY <1>7 DEF p

----------------------------------------------------------------------------
(* Data through a growing table.                                           *)

(* A block of a table is at one place of it.                               *)
PlaceOf(table, b) == CHOOSE i \in DOMAIN table : b \in Range(table[i])
LayerOf(table, b) == CHOOSE l \in 1 .. Layers : table[PlaceOf(table, b)][l] = b

(* A block of a table is at the place and the layer that PlaceOf and       *)
(* LayerOf name.                                                           *)
LEMMA PlacesAre ==
    ASSUME NEW F, NEW T \in Seq([1 .. Layers -> F]), Distinct(T), NEW i \in DOMAIN T, NEW l \in 1 .. Layers
    PROVE  PlaceOf(T, T[i][l]) = i /\ LayerOf(T, T[i][l]) = l /\ T[i][l] \in TableBlocks(T)
<1> DEFINE b == T[i][l]
<1>1. \A j \in DOMAIN T : DOMAIN T[j] = 1 .. Layers OBVIOUS
<1>2. \A j \in DOMAIN T : b \in Range(T[j]) <=> j = i
  <2> SUFFICES ASSUME NEW j \in DOMAIN T PROVE b \in Range(T[j]) <=> j = i OBVIOUS
  <2>1. b \in Range(T[i]) BY <1>1 DEF Range
  <2>2. ASSUME b \in Range(T[j]) PROVE j = i
    <3>1. PICK m \in 1 .. Layers : T[j][m] = b BY <1>1, <2>2 DEF Range
    <3> QED BY <3>1 DEF Distinct
  <2> QED BY <2>1, <2>2
<1>3. PlaceOf(T, b) = i BY <1>2 DEF PlaceOf
<1>4. \A m \in 1 .. Layers : T[i][m] = b <=> m = l BY DEF Distinct
<1>5. LayerOf(T, b) = l BY <1>3, <1>4 DEF LayerOf
<1> QED BY <1>3, <1>5 DEF TableBlocks

(* A swap-out copies the table, and a swap-in copies it back.              *)
LEMMA SwapOutCopies ==
    ASSUME NEW kv, PlaneOK(kv), NEW r \in Live(kv), IsHot(kv, r),
           TotalBlocks(kv, r) <= Cardinality(Free(kv.cold)), NEW p, p = SwapOut(kv, r)
    PROVE  /\ p.hotData = kv.hotData
           /\ \A b \in ColdBlocks \ Free(kv.cold) : p.coldData[b] = kv.coldData[b]
           /\ \A i \in DOMAIN kv.req[r].table : \A l \in 1 .. Layers :
                 p.coldData[p.req[r].table[i][l]] = kv.hotData[kv.req[r].table[i][l]]
<1> DEFINE old == kv.req[r].table
           new == NewTable(kv.cold, Len(old))
<1>1. FieldsOK(kv) /\ kv.req \in [Live(kv) -> States] BY RestIs
<1>2. r \in Requests /\ old \in Seq(HotRows) /\ Len(old) \in Nat BY LiveTables
<1>3. kv.cold \in [0 .. ColdCapacity - 1 -> Nat] /\ ColdCapacity \in Nat
  BY <1>1, SizesAssumption DEF FieldsOK, ColdBlocks
<1>4. /\ new \in Seq([1 .. Layers -> Free(kv.cold)]) /\ Distinct(new) /\ DOMAIN new = 1 .. Len(old)
      /\ TableBlocks(new) \in SUBSET Free(kv.cold)
  <2>1. RowBlocks(Len(old)) <= Cardinality(Free(kv.cold)) BY DEF TotalBlocks, RowBlocks
  <2> HIDE DEF old
  <2> QED BY <1>2, <1>3, <2>1, NewTableIs
<1>5. Free(kv.cold) \in SUBSET ColdBlocks BY <1>3, PoolFree DEF ColdBlocks
<1>6. p.req[r].table = new /\ DOMAIN old = 1 .. Len(old)
  <2>1. p.req = [kv.req EXCEPT ![r] = [@ EXCEPT !.table = new, !.tier = "cold"]] BY <1>1, SwapOutFields
  <2>2. p.req[r] = [kv.req[r] EXCEPT !.table = new, !.tier = "cold"] BY <2>1 DEF Live
  <2>3. kv.req[r] \in States BY <1>1
  <2> HIDE DEF new
  <2> QED BY <2>2, <2>3, <1>2 DEF States
<1>7. /\ p.hotData = kv.hotData
      /\ p.coldData = [b \in ColdBlocks |->
             IF b \in TableBlocks(new) THEN kv.hotData[old[PlaceOf(new, b)][LayerOf(new, b)]] ELSE kv.coldData[b]]
  BY <1>1 DEF SwapOut, FieldsOK, IsRecord, Fields, PlaceOf, LayerOf
<1> HIDE DEF new, old
<1>8. \A b \in ColdBlocks \ Free(kv.cold) : p.coldData[b] = kv.coldData[b] BY <1>4, <1>7
<1>9. ASSUME NEW i \in DOMAIN old, NEW l \in 1 .. Layers PROVE p.coldData[new[i][l]] = kv.hotData[old[i][l]]
  <2>1. i \in DOMAIN new BY <1>4, <1>6
  <2>2. PlaceOf(new, new[i][l]) = i /\ LayerOf(new, new[i][l]) = l /\ new[i][l] \in TableBlocks(new)
    BY <1>4, <2>1, PlacesAre
  <2> QED BY <1>4, <1>5, <1>7, <2>2
<1> QED BY <1>6, <1>7, <1>8, <1>9 DEF old

(* A swap-in copies every block of the table to a block of HBM that was    *)
(* free, and changes no other.                                             *)
LEMMA SwapInCopies ==
    ASSUME NEW kv, PlaneOK(kv), NEW r \in Live(kv), ~IsHot(kv, r),
           TotalBlocks(kv, r) <= Cardinality(Free(kv.hot)), NEW p, p = SwapIn(kv, r)
    PROVE  /\ p.coldData = kv.coldData
           /\ \A b \in HotBlocks \ Free(kv.hot) : p.hotData[b] = kv.hotData[b]
           /\ \A i \in DOMAIN kv.req[r].table : \A l \in 1 .. Layers :
                 /\ p.hotData[p.req[r].table[i][l]] = kv.coldData[kv.req[r].table[i][l]]
                 /\ p.req[r].table[i][l] \in Free(kv.hot)
           /\ DOMAIN p.req[r].table = DOMAIN kv.req[r].table
<1> DEFINE old == kv.req[r].table
           new == NewTable(kv.hot, Len(old))
<1>1. FieldsOK(kv) /\ kv.req \in [Live(kv) -> States] BY RestIs
<1>2. r \in Requests /\ old \in Seq(ColdRows) /\ Len(old) \in Nat BY LiveTables
<1>3. kv.hot \in [0 .. HotCapacity - 1 -> Nat] /\ HotCapacity \in Nat
  BY <1>1, SizesAssumption DEF FieldsOK, HotBlocks
<1>4. /\ new \in Seq([1 .. Layers -> Free(kv.hot)]) /\ Distinct(new) /\ DOMAIN new = 1 .. Len(old)
      /\ TableBlocks(new) \in SUBSET Free(kv.hot)
  <2>1. RowBlocks(Len(old)) <= Cardinality(Free(kv.hot)) BY DEF TotalBlocks, RowBlocks
  <2> HIDE DEF old
  <2> QED BY <1>2, <1>3, <2>1, NewTableIs
<1>5. Free(kv.hot) \in SUBSET HotBlocks BY <1>3, PoolFree DEF HotBlocks
<1>6. p.req[r].table = new /\ DOMAIN old = 1 .. Len(old)
  <2>1. p.req = [kv.req EXCEPT ![r] = [@ EXCEPT !.table = new, !.tier = "hot"]] BY <1>1, SwapInFields
  <2>2. p.req[r] = [kv.req[r] EXCEPT !.table = new, !.tier = "hot"] BY <2>1 DEF Live
  <2>3. kv.req[r] \in States BY <1>1
  <2> HIDE DEF new
  <2> QED BY <2>2, <2>3, <1>2 DEF States
<1>7. /\ p.coldData = kv.coldData
      /\ p.hotData = [b \in HotBlocks |->
             IF b \in TableBlocks(new) THEN kv.coldData[old[PlaceOf(new, b)][LayerOf(new, b)]] ELSE kv.hotData[b]]
  BY <1>1 DEF SwapIn, FieldsOK, IsRecord, Fields, PlaceOf, LayerOf
<1> HIDE DEF new, old
<1>8. \A b \in HotBlocks \ Free(kv.hot) : p.hotData[b] = kv.hotData[b] BY <1>4, <1>7
<1>9. ASSUME NEW i \in DOMAIN old, NEW l \in 1 .. Layers
      PROVE  p.hotData[new[i][l]] = kv.coldData[old[i][l]] /\ new[i][l] \in Free(kv.hot)
  <2>1. i \in DOMAIN new BY <1>4, <1>6
  <2>2. PlaceOf(new, new[i][l]) = i /\ LayerOf(new, new[i][l]) = l /\ new[i][l] \in TableBlocks(new)
    BY <1>4, <2>1, PlacesAre
  <2> QED BY <1>4, <1>5, <1>7, <2>2
<1> QED BY <1>4, <1>6, <1>7, <1>8, <1>9 DEF old

(* Where nothing changed but one request's state and table.                *)
LEMMA OthersElsewhere ==
    ASSUME NEW kv, NEW p, NEW r, OthersKept(kv, p, r), Live(p) \ {r} = Live(kv) \ {r}, p.cache = kv.cache,
           \A b \in HotBlocks \ Free(kv.hot) : p.hotData[b] = kv.hotData[b],
           \A b \in ColdBlocks \ Free(kv.cold) : p.coldData[b] = kv.coldData[b]
    PROVE  Elsewhere(kv, p, {r})
BY DEF Elsewhere, OthersKept, Cached

(* A table that is not as long as the tokens need has less rows.           *)
LEMMA WrittenRows ==
    ASSUME NEW kv, PlaneOK(kv), NEW g, ProgressOK(g), NEW r \in Live(kv), TableRight(kv, g, r)
    PROVE  1 .. BlocksFor(g.done[r]) \subseteq DOMAIN kv.req[r].table
<1>1. Len(kv.req[r].table) \in Nat /\ DOMAIN kv.req[r].table = 1 .. Len(kv.req[r].table) /\ r \in Requests
  BY LiveTables
<1>2. g.done[r] \in Nat BY <1>1 DEF ProgressOK
<1>3. BlocksFor(g.done[r]) \in Nat BY <1>2, BlocksForIs
<1> DEFINE n == BlocksFor(g.done[r])
           m == Len(kv.req[r].table)
<1>4. n <= m /\ n \in Nat /\ m \in Nat BY <1>1, <1>3 DEF TableRight
<1> HIDE DEF n, m
<1>5. 1 .. n \subseteq 1 .. m BY <1>4
<1> QED BY <1>1, <1>5 DEF n, m

(* Data survives a swap-out of a request that is not in the batch.         *)
LEMMA SwapOutData ==
    ASSUME NEW kv, PlaneOK(kv), NEW g, ProgressOK(g), DataOK(kv, g),
           NEW r \in Live(kv), IsHot(kv, r), r \notin g.batch,
           TotalBlocks(kv, r) <= Cardinality(Free(kv.cold)), NEW p, p = SwapOut(kv, r)
    PROVE  DataOK(p, g)
<1>1. /\ p.cache = kv.cache /\ Live(p) = Live(kv) /\ OthersKept(kv, p, r)
      /\ ~IsHot(p, r) /\ Len(p.req[r].table) = Len(kv.req[r].table)
  BY SwapOutOK
<1>2. /\ p.hotData = kv.hotData
      /\ \A b \in ColdBlocks \ Free(kv.cold) : p.coldData[b] = kv.coldData[b]
      /\ \A i \in DOMAIN kv.req[r].table : \A l \in 1 .. Layers :
            p.coldData[p.req[r].table[i][l]] = kv.hotData[kv.req[r].table[i][l]]
  BY SwapOutCopies
<1>3. Elsewhere(kv, p, {r}) BY <1>1, <1>2, OthersElsewhere
<1>4. r \notin g.todo BY DEF ProgressOK
<1>5. SameProgress(g, g, {r}) /\ DuesKept(kv, g, p, g, {r}) BY <1>4 DEF SameProgress, DuesKept, Due
<1>6. OwnRight(p, g, r)
  <2>1. TableRight(kv, g, r) BY DEF DataOK, TablesRight
  <2>2. 1 .. BlocksFor(g.done[r]) \subseteq DOMAIN kv.req[r].table BY <2>1, WrittenRows
  <2>3. ASSUME NEW i \in 1 .. BlocksFor(g.done[r]), NEW l \in 1 .. Layers PROVE Reading(p, g, r, i, l)
    <3>1. Reading(kv, g, r, i, l) BY <2>1 DEF TableRight
    <3>2. kv.hotData[kv.req[r].table[i][l]] = Stored(r, i, l, g.done[r]) BY <3>1 DEF Reading
    <3>3. p.coldData[p.req[r].table[i][l]] = Stored(r, i, l, g.done[r]) BY <1>2, <2>2, <3>2
    <3> QED BY <1>1, <3>3 DEF Reading
  <2>4. TableRight(p, g, r) BY <1>1, <2>1, <2>3 DEF TableRight
  <2> QED BY <1>1, <2>4 DEF OwnRight
<1>7. \A s \in {r} \cap Live(p) : OwnRight(p, g, s) BY <1>6
<1> QED BY <1>3, <1>5, <1>7, Carried

(* Blocks from the free list are shared with nobody.                       *)
Apart(p, r, b) ==
    /\ \A s \in Live(p) \ {r} : IsHot(p, s) =>
          \A j \in DOMAIN p.req[s].table : \A m \in 1 .. Layers : b # p.req[s].table[j][m]
    /\ \A c \in Cached(p) : \A m \in 1 .. Layers : b # c[2][m]

(* A block that was free is in no other table and in no cache entry.       *)
LEMMA FreshShares ==
    ASSUME NEW kv, PlaneOK(kv), NEW p, NEW r, Elsewhere(kv, p, {r}), NEW b \in Free(kv.hot)
    PROVE  Apart(p, r, b)
<1>1. ASSUME NEW s \in Live(p) \ {r}, IsHot(p, s), NEW j \in DOMAIN p.req[s].table, NEW m \in 1 .. Layers
      PROVE  b # p.req[s].table[j][m]
  <2>1. s \in Live(kv) /\ p.req[s] = kv.req[s] /\ IsHot(kv, s) BY <1>1 DEF Elsewhere, IsHot
  <2>2. kv.req[s].table[j][m] \notin Free(kv.hot) BY <1>1, <2>1, HeldBlocks
  <2> QED BY <2>1, <2>2
<1>2. ASSUME NEW c \in Cached(p), NEW m \in 1 .. Layers PROVE b # c[2][m]
  <2>1. c \in Cached(kv) BY DEF Elsewhere
  <2> QED BY <2>1, HeldBlocks
<1> QED BY <1>1, <1>2 DEF Apart

(* Data survives a swap-in.                                                *)
LEMMA SwapInData ==
    ASSUME NEW kv, PlaneOK(kv), NEW g, ProgressOK(g), DataOK(kv, g),
           NEW r \in Live(kv), ~IsHot(kv, r),
           TotalBlocks(kv, r) <= Cardinality(Free(kv.hot)), NEW p, p = SwapIn(kv, r)
    PROVE  DataOK(p, g)
<1>1. /\ p.cache = kv.cache /\ Live(p) = Live(kv) /\ OthersKept(kv, p, r)
      /\ IsHot(p, r) /\ Len(p.req[r].table) = Len(kv.req[r].table)
  BY SwapInOK
<1>2. /\ p.coldData = kv.coldData
      /\ \A b \in HotBlocks \ Free(kv.hot) : p.hotData[b] = kv.hotData[b]
      /\ \A i \in DOMAIN kv.req[r].table : \A l \in 1 .. Layers :
            /\ p.hotData[p.req[r].table[i][l]] = kv.coldData[kv.req[r].table[i][l]]
            /\ p.req[r].table[i][l] \in Free(kv.hot)
      /\ DOMAIN p.req[r].table = DOMAIN kv.req[r].table
  BY SwapInCopies
<1>3. Elsewhere(kv, p, {r}) BY <1>1, <1>2, OthersElsewhere
<1>5. SameProgress(g, g, {r}) /\ DuesKept(kv, g, p, g, {r}) BY DEF SameProgress, DuesKept
<1>6. OwnRight(p, g, r)
  <2>1. TableRight(kv, g, r) BY DEF DataOK, TablesRight
  <2>2. 1 .. BlocksFor(g.done[r]) \subseteq DOMAIN kv.req[r].table BY <2>1, WrittenRows
  <2>3. ASSUME NEW i \in 1 .. BlocksFor(g.done[r]), NEW l \in 1 .. Layers PROVE Reading(p, g, r, i, l)
    <3>1. Reading(kv, g, r, i, l) BY <2>1 DEF TableRight
    <3>2. kv.coldData[kv.req[r].table[i][l]] = Stored(r, i, l, g.done[r]) BY <3>1 DEF Reading
    <3>3. p.hotData[p.req[r].table[i][l]] = Stored(r, i, l, g.done[r]) BY <1>2, <2>2, <3>2
    <3> QED BY <1>1, <3>3 DEF Reading
  <2>4. TableRight(p, g, r) BY <1>1, <2>1, <2>3 DEF TableRight
  <2>5. \A i \in DOMAIN p.req[r].table : \A l \in 1 .. Layers : Apart(p, r, p.req[r].table[i][l])
    BY <1>2, <1>3, FreshShares
  <2>6. \A s \in Live(p) \ {r} : IsHot(p, s) => SharedRight(p, g, r, s) BY <2>5 DEF SharedRight, Apart
  <2>7. \A c \in Cached(p) : CachedRight(p, g, r, c[2]) BY <2>5 DEF CachedRight, Apart
  <2> QED BY <2>4, <2>6, <2>7 DEF OwnRight
<1>7. \A s \in {r} \cap Live(p) : OwnRight(p, g, s) BY <1>6
<1> QED BY <1>3, <1>5, <1>7, Carried

----------------------------------------------------------------------------
(* Data through moves between the tiers.                                   *)

(* Growth leaves the data and the rows that were there.                    *)
LEMMA GrownKeeps ==
    ASSUME NEW kv, PlaneOK(kv), NEW r \in Live(kv), IsHot(kv, r), NEW n \in Nat,
           RowBlocks(n) <= Cardinality(Free(kv.hot)), NEW p, p = Grown(kv, r, n)
    PROVE  /\ p.hotData = kv.hotData /\ p.coldData = kv.coldData
           /\ DOMAIN kv.req[r].table \subseteq DOMAIN p.req[r].table
           /\ \A i \in DOMAIN kv.req[r].table : p.req[r].table[i] = kv.req[r].table[i]
           /\ \A i \in DOMAIN p.req[r].table \ DOMAIN kv.req[r].table : \A l \in 1 .. Layers :
                 p.req[r].table[i][l] \in Free(kv.hot)
<1> DEFINE old == kv.req[r].table
           new == NewTable(kv.hot, n)
           all == old \o new
           state == Longer(kv.req[r], new, kv.batchId)
<1>1. FieldsOK(kv) /\ kv.req \in [Live(kv) -> States] BY RestIs
<1>2. r \in Requests /\ kv.req[r] \in States /\ old \in Seq(HotRows) BY LiveTables
<1>3. p.req = [kv.req EXCEPT ![r] = state]
  <2>1. new = NewTable(kv.hot, n) OBVIOUS
  <2>2. state = Longer(kv.req[r], new, kv.batchId) OBVIOUS
  <2> HIDE DEF new, state
  <2> QED BY <1>1, <2>1, <2>2, GrownFields
<1>4. kv.hot \in [0 .. HotCapacity - 1 -> Nat] /\ HotCapacity \in Nat
  BY <1>1, SizesAssumption DEF FieldsOK, HotBlocks
<1>5. new \in Seq([1 .. Layers -> Free(kv.hot)]) BY <1>4, NewTableIs
<1>6. new \in Seq(HotRows)
  <2>1. Free(kv.hot) \in SUBSET HotBlocks BY <1>4, PoolFree DEF HotBlocks
  <2> HIDE DEF new
  <2> QED BY <1>5, <2>1, RowsWithin DEF HotRows
<1>7. p.hotData = kv.hotData /\ p.coldData = kv.coldData BY <1>1 DEF Grown, FieldsOK, IsRecord, Fields
<1>8. p.req[r].table = all
  <2>1. DOMAIN kv.req[r] = {"tier", "table", "order", "last", "hit", "arrival"} BY <1>2 DEF States
  <2>2. p.req[r] = state BY <1>3 DEF Live
  <2> HIDE DEF new
  <2> QED BY <2>1, <2>2 DEF Longer
<1> HIDE DEF new, old
<1>9. /\ DOMAIN old \subseteq DOMAIN all /\ \A i \in DOMAIN old : all[i] = old[i]
      /\ \A i \in DOMAIN all \ DOMAIN old : i - Len(old) \in DOMAIN new /\ all[i] = new[i - Len(old)]
  BY <1>2, <1>6, JoinedTable
<1> HIDE DEF all
<1>10. ASSUME NEW i \in DOMAIN all \ DOMAIN old, NEW l \in 1 .. Layers PROVE all[i][l] \in Free(kv.hot)
  <2>1. new[i - Len(old)] \in [1 .. Layers -> Free(kv.hot)] BY <1>5, <1>9
  <2> QED BY <1>9, <2>1
<1> QED BY <1>7, <1>8, <1>9, <1>10 DEF old

(* Data survives growth.                                                   *)
LEMMA GrownData ==
    ASSUME NEW kv, PlaneOK(kv), NEW g, ProgressOK(g), DataOK(kv, g),
           NEW r \in Live(kv), IsHot(kv, r), NEW n \in Nat,
           RowBlocks(n) <= Cardinality(Free(kv.hot)), NEW p, p = Grown(kv, r, n)
    PROVE  DataOK(p, g)
<1>1. /\ PlaneOK(p) /\ p.cache = kv.cache /\ Live(p) = Live(kv) /\ OthersKept(kv, p, r) /\ IsHot(p, r)
  BY GrownOK
<1>2. /\ p.hotData = kv.hotData /\ p.coldData = kv.coldData
      /\ DOMAIN kv.req[r].table \subseteq DOMAIN p.req[r].table
      /\ \A i \in DOMAIN kv.req[r].table : p.req[r].table[i] = kv.req[r].table[i]
      /\ \A i \in DOMAIN p.req[r].table \ DOMAIN kv.req[r].table : \A l \in 1 .. Layers :
            p.req[r].table[i][l] \in Free(kv.hot)
  BY GrownKeeps
<1>3. Elsewhere(kv, p, {r}) BY <1>1, <1>2, OthersElsewhere
<1>4. SameProgress(g, g, {r}) BY DEF SameProgress
<1>5. DuesKept(kv, g, p, g, {r})
  <2> SUFFICES ASSUME NEW i \in DOMAIN kv.req[r].table, Due(g, r, i), NEW l \in 1 .. Layers
               PROVE  DueBlock(p, g, kv.req[r].table[i][l])
    BY DEF DuesKept
  <2>1. i \in DOMAIN p.req[r].table /\ p.req[r].table[i][l] = kv.req[r].table[i][l] BY <1>2
  <2>2. r \in Live(p) BY <1>1
  <2> QED BY <1>1, <2>1, <2>2 DEF DueBlock
<1>6. OwnRight(p, g, r)
  <2>0. Live(kv) \subseteq Requests BY RestIs
  <2>1. TableRight(kv, g, r) BY DEF DataOK, TablesRight
  <2>2. 1 .. BlocksFor(g.done[r]) \subseteq DOMAIN kv.req[r].table BY <2>1, WrittenRows
  <2>3. ASSUME NEW i \in 1 .. BlocksFor(g.done[r]), NEW l \in 1 .. Layers PROVE Reading(p, g, r, i, l)
    <3> DEFINE b == kv.req[r].table[i][l]
    <3>1. kv.hotData[b] = Stored(r, i, l, g.done[r]) \/ (r \in g.batch /\ DueBlock(kv, g, b))
      BY <2>1 DEF TableRight, Reading
    <3>2. DueBlock(kv, g, b) => DueBlock(p, g, b) BY <1>3, <1>4, <1>5, <2>0, DueBlocksStay
    <3>3. p.req[r].table[i][l] = b BY <1>2, <2>2
    <3> QED BY <1>1, <1>2, <3>1, <3>2, <3>3 DEF Reading
  <2>4. TableRight(p, g, r)
    <3>1. BlocksFor(g.done[r]) <= Len(p.req[r].table)
      <4>1. /\ Len(kv.req[r].table) \in Nat /\ Len(p.req[r].table) = Len(kv.req[r].table) + n
        BY LiveTables, GrownOK
      <4>2. BlocksFor(g.done[r]) \in Nat /\ BlocksFor(g.done[r]) <= Len(kv.req[r].table)
        <5>1. g.done[r] \in Nat BY <2>0 DEF ProgressOK
        <5> QED BY <2>1, <5>1, BlocksForIs DEF TableRight
      <4> DEFINE x == BlocksFor(g.done[r])
                 y == Len(kv.req[r].table)
                 z == Len(p.req[r].table)
      <4>3. y \in Nat /\ z = y + n /\ x \in Nat /\ x <= y BY <4>1, <4>2
      <4> HIDE DEF x, y, z
      <4>4. x <= z BY <4>3
      <4> QED BY <4>4 DEF x, z
    <3> QED BY <2>3, <3>1 DEF TableRight
  <2>5. \A i \in DOMAIN p.req[r].table \ DOMAIN kv.req[r].table : \A l \in 1 .. Layers :
           Apart(p, r, p.req[r].table[i][l])
    BY <1>2, <1>3, FreshShares
  <2>6. ASSUME NEW s \in Live(p) \ {r}, IsHot(p, s) PROVE SharedRight(p, g, r, s)
    <3>1. s \in Live(kv) /\ p.req[s] = kv.req[s] /\ IsHot(kv, s) BY <1>1, <2>6 DEF OthersKept, IsHot
    <3>2. SharedRight(kv, g, r, s) BY <3>1, <2>6 DEF DataOK, SharesRight
    <3> SUFFICES ASSUME NEW i \in DOMAIN p.req[r].table, NEW j \in DOMAIN p.req[s].table,
                        NEW l \in 1 .. Layers, NEW m \in 1 .. Layers,
                        p.req[r].table[i][l] = p.req[s].table[j][m]
                 PROVE  /\ Full(i, g.reach[r]) /\ Full(j, g.reach[s])
                        /\ Full(i, g.done[r]) \/ Full(j, g.done[s])
      BY DEF SharedRight
    <3>3. i \in DOMAIN kv.req[r].table BY <2>5, <2>6 DEF Apart
    <3> QED BY <1>2, <3>1, <3>2, <3>3 DEF SharedRight
  <2>7. ASSUME NEW c \in Cached(p) PROVE CachedRight(p, g, r, c[2])
    <3>1. c \in Cached(kv) BY <1>3, <2>7 DEF Elsewhere
    <3>2. CachedRight(kv, g, r, c[2]) BY <3>1 DEF DataOK, CacheRight
    <3> SUFFICES ASSUME NEW i \in DOMAIN p.req[r].table, NEW l \in 1 .. Layers, NEW m \in 1 .. Layers,
                        p.req[r].table[i][l] = c[2][m]
                 PROVE  Full(i, g.reach[r])
      BY DEF CachedRight
    <3>3. i \in DOMAIN kv.req[r].table BY <2>5, <2>7 DEF Apart
    <3> QED BY <1>2, <3>2, <3>3 DEF CachedRight
  <2> QED BY <2>4, <2>6, <2>7 DEF OwnRight
<1>7. \A s \in {r} \cap Live(p) : OwnRight(p, g, s) BY <1>6
<1> QED BY <1>3, <1>4, <1>5, <1>7, Carried

(* A request that starts over reads nothing.                               *)
LEMMA RecomputeData ==
    ASSUME NEW kv, PlaneOK(kv), NEW g, ProgressOK(g), DataOK(kv, g), NEW h,
           NEW r \in Live(kv), IsHot(kv, r), r \notin g.todo, SameProgress(g, h, {r}), h.done[r] = 0,
           NEW p, p = Recompute(kv, r)
    PROVE  DataOK(p, h)
<1>0. FieldsOK(kv) BY RestIs
<1>1. p.cache = kv.cache /\ Live(p) = Live(kv) /\ OthersKept(kv, p, r) /\ p.req[r].table = <<>>
  BY RecomputeOK
<1>2. p.hotData = kv.hotData /\ p.coldData = kv.coldData BY <1>0 DEF Recompute, FieldsOK, IsRecord, Fields
<1>3. Elsewhere(kv, p, {r}) BY <1>1, <1>2, OthersElsewhere
<1>4. DuesKept(kv, g, p, h, {r}) BY DEF DuesKept, Due
<1>5. OwnRight(p, h, r)
  <2>1. BlocksFor(0) = 0
    <3>1. 0 * BlockTokens = 0 BY SizesAssumption
    <3> QED BY <3>1, WholeBlocks
  <2>2. Len(p.req[r].table) = 0 /\ DOMAIN p.req[r].table = {} BY <1>1
  <2>3. TableRight(p, h, r) BY <2>1, <2>2 DEF TableRight
  <2> QED BY <2>2, <2>3 DEF OwnRight, SharedRight, CachedRight
<1>6. \A s \in {r} \cap Live(p) : OwnRight(p, h, s) BY <1>5
<1> QED BY <1>3, <1>4, <1>6, Carried

(* A request that is gone reads nothing.                                   *)
LEMMA DroppedData ==
    ASSUME NEW kv, PlaneOK(kv), NEW g, ProgressOK(g), DataOK(kv, g), NEW h,
           NEW r \in Live(kv), r \notin g.todo, SameProgress(g, h, {r}), NEW p, p = Dropped(kv, r)
    PROVE  DataOK(p, h)
<1>0. FieldsOK(kv) BY RestIs
<1>1. p.cache = kv.cache /\ Live(p) = Live(kv) \ {r} /\ OthersKept(kv, p, r) BY DroppedOK
<1>2. p.hotData = kv.hotData /\ p.coldData = kv.coldData BY <1>0 DEF Dropped, FieldsOK, IsRecord, Fields
<1>3. Live(p) \ {r} = Live(kv) \ {r} BY <1>1
<1>4. Elsewhere(kv, p, {r}) BY <1>1, <1>2, <1>3, OthersElsewhere
<1>5. DuesKept(kv, g, p, h, {r}) BY DEF DuesKept, Due
<1>6. \A s \in {r} \cap Live(p) : OwnRight(p, h, s) BY <1>1
<1> QED BY <1>4, <1>5, <1>6, Carried

----------------------------------------------------------------------------
(* Data through publication and shared prefixes.                           *)

(* The keys of entries whose blocks the batch is still to complete.        *)
PendingKeys(kv) == {e.key : e \in {f \in Range(kv.cache) : f.pending}}

(* A cache with fewer entries offers less.                                 *)
LEMMA FewerOffered ==
    ASSUME NEW kv, NEW p, Range(p.cache) \subseteq Range(kv.cache)
    PROVE  Cached(p) \subseteq Cached(kv) /\ PendingKeys(p) \subseteq PendingKeys(kv)
BY DEF Cached, PendingKeys

(* What publishing the first n blocks of a request adds to the offer.      *)
Offers(kv, p, r, n, pending) ==
    /\ \A c \in Cached(p) : c \in Cached(kv) \/ \E i \in 1 .. n : c = <<Key(r, i), kv.req[r].table[i]>>
    /\ \A key \in PendingKeys(p) : key \in PendingKeys(kv) \/ (pending /\ \E i \in 1 .. n : key = Key(r, i))
    /\ ~pending => \A i \in 1 .. n : Key(r, i) \notin PendingKeys(p)
OffersOne(kv, p, r, i, pending) ==
    /\ \A c \in Cached(p) : c \in Cached(kv) \/ c = <<Key(r, i), kv.req[r].table[i]>>
    /\ \A key \in PendingKeys(p) : key \in PendingKeys(kv) \/ (pending /\ key = Key(r, i))
    /\ ~pending => Key(r, i) \notin PendingKeys(p)

(* Taking the pending mark off an entry.                                   *)
LEMMA UnmarkOffers ==
    ASSUME NEW kv, PlaneOK(kv), NEW key \in CacheKeys(kv), NEW now \in Int, NEW p, p = Unmark(kv, key, now)
    PROVE  Cached(p) \subseteq Cached(kv) /\ PendingKeys(p) \subseteq PendingKeys(kv) \ {key}
<1> DEFINE n == IndexOf(kv, key)
           e == EntryOf(kv, key)
           f == Marked(e, now)
<1>1. FieldsOK(kv) /\ kv.cache \in Seq(Entries) /\ DistinctKeys(kv.cache) BY RestIs
<1>2. n \in DOMAIN kv.cache /\ e = kv.cache[n] /\ e \in Range(kv.cache) /\ e \in Entries /\ e.key = key
  BY <1>1, EntryOfKey
<1>3. p.cache = [kv.cache EXCEPT ![n] = f] BY <1>1, <1>2, UnmarkFields
<1>4. f \in Entries /\ f.key = e.key /\ f.blocks = e.blocks BY <1>2, MarkedIs
<1>5. f.pending = FALSE BY <1>2 DEF Marked, Entries
<1> HIDE DEF n, e, f
<1>6. DOMAIN p.cache = DOMAIN kv.cache /\ \A c \in DOMAIN kv.cache : p.cache[c] = IF c = n THEN f ELSE kv.cache[c]
  BY <1>1, <1>3
<1>7. ASSUME NEW x \in Range(p.cache)
      PROVE  /\ <<x.key, x.blocks>> \in Cached(kv)
             /\ x.pending => x.key \in PendingKeys(kv) /\ x.key # key
  <2>1. PICK c \in DOMAIN kv.cache : x = p.cache[c] BY <1>6, <1>7 DEF Range
  <2>2. CASE c = n BY <1>2, <1>4, <1>5, <1>6, <2>1, <2>2 DEF Cached
  <2>3. CASE c # n
    <3>1. x = kv.cache[c] /\ x \in Range(kv.cache) BY <1>6, <2>1, <2>3 DEF Range
    <3>2. x.key # key BY <1>1, <1>2, <2>3, <3>1 DEF DistinctKeys
    <3> QED BY <3>1, <3>2 DEF Cached, PendingKeys
  <2> QED BY <2>2, <2>3
<1> QED BY <1>7 DEF Cached, PendingKeys

(* Publishing one block.                                                   *)
LEMMA PublishOneOffers ==
    ASSUME NEW kv, PlaneOK(kv), NEW r \in Live(kv), IsHot(kv, r),
           NEW i \in DOMAIN kv.req[r].table, i \in 1 .. Len(Content[r]),
           NEW now \in Int, NEW pending \in BOOLEAN,
           NEW p, p = PublishOne(kv, r, i, now, pending)
    PROVE  OffersOne(kv, p, r, i, pending)
<1> DEFINE key == Key(r, i)
           q == CacheBlocks \div Layers
           n == Len(kv.cache)
           surplus == Positive(n + 1 - q)
           roomy == EvictOldest(kv, surplus)
<1>1. kv.cache \in Seq(Entries) /\ DistinctKeys(kv.cache) BY RestIs
<1>2. n \in Nat /\ q \in Nat /\ n <= q
  <2>1. n <= q BY PlaneParts DEF CacheFits
  <2>2. q \in Nat BY SizesAssumption
  <2> QED BY <1>1, <2>1, <2>2
<1>3. CASE key \in CacheKeys(kv)
  <2>1. CASE EntryOf(kv, key).pending /\ ~pending
    <3> DEFINE u == Unmark(kv, key, now)
    <3>1. p = MoveToEnd(u, key) BY <1>3, <2>1 DEF PublishOne, Unmark
    <3>2. CacheStep(kv, u) /\ key \in CacheKeys(u)
      <4> HIDE DEF key
      <4> QED BY <1>3, UnmarkOK
    <3>3. Cached(u) \subseteq Cached(kv) /\ PendingKeys(u) \subseteq PendingKeys(kv) \ {key}
      <4>1. u = Unmark(kv, key, now) OBVIOUS
      <4> HIDE DEF key, u
      <4> QED BY <1>3, <4>1, UnmarkOffers
    <3> HIDE DEF u, key
    <3>4. Range(p.cache) = Range(u.cache) BY <3>1, <3>2, MoveEntry DEF CacheStep
    <3>5. Cached(p) \subseteq Cached(u) /\ PendingKeys(p) \subseteq PendingKeys(u) BY <3>4, FewerOffered
    <3> QED BY <3>3, <3>5 DEF OffersOne, key
  <2>2. CASE ~(EntryOf(kv, key).pending /\ ~pending)
    <3>1. p = MoveToEnd(kv, key) BY <1>3, <2>2 DEF PublishOne
    <3> HIDE DEF key
    <3>2. Range(p.cache) = Range(kv.cache) BY <1>3, <3>1, MoveEntry
    <3>3. Cached(p) \subseteq Cached(kv) /\ PendingKeys(p) \subseteq PendingKeys(kv) BY <3>2, FewerOffered
    <3>4. ~pending => key \notin PendingKeys(p)
      <4> SUFFICES ASSUME ~pending, key \in PendingKeys(kv) PROVE FALSE BY <3>3
      <4>1. PICK f \in Range(kv.cache) : f.pending /\ f.key = key BY DEF PendingKeys
      <4>2. f = EntryOf(kv, key) BY <1>1, <1>3, <4>1, EntryOfKey
      <4> QED BY <2>2, <4>1, <4>2
    <3> QED BY <3>3, <3>4 DEF OffersOne, key
  <2> QED BY <2>1, <2>2
<1>4. CASE key \notin CacheKeys(kv) /\ Layers > CacheBlocks
  <2>1. p = kv BY <1>4 DEF PublishOne
  <2>2. key \notin PendingKeys(kv)
    <3> HIDE DEF key
    <3> QED BY <1>4, CacheKeysAre DEF PendingKeys
  <2> QED BY <2>1, <2>2 DEF OffersOne
<1>5. CASE key \notin CacheKeys(kv) /\ ~(Layers > CacheBlocks)
  <2>1. q >= 1
    <3>1. Layers \in Nat \ {0} /\ CacheBlocks \in Nat /\ Layers <= CacheBlocks BY <1>5, SizesAssumption
    <3> QED BY <3>1
  <2>2. surplus \in 0 .. n
    <3> HIDE DEF n, q
    <3> QED BY <1>2, <2>1 DEF Positive
  <2>3. CacheStep(kv, roomy) /\ Range(roomy.cache) \subseteq Range(kv.cache)
    <3> HIDE DEF surplus
    <3> QED BY <2>2, EvictOldestOK
  <2>4. p.cache = Append(roomy.cache, [key |-> key, blocks |-> kv.req[r].table[i], pending |-> pending,
                                       expires |-> IF pending THEN Never ELSE ExpiresAt(now)])
    <3>1. p = [roomy EXCEPT
                !.hot = Retained(@, Range(kv.req[r].table[i])),
                !.cache = Append(@, [key |-> key, blocks |-> kv.req[r].table[i], pending |-> pending,
                                     expires |-> IF pending THEN Never ELSE ExpiresAt(now)])]
      BY <1>5 DEF PublishOne
    <3>2. DOMAIN roomy = Fields
      <4> HIDE DEF roomy
      <4> QED BY <2>3, RestIs DEF CacheStep, FieldsOK, IsRecord
    <3> HIDE DEF roomy
    <3> QED BY <3>1, <3>2 DEF Fields
  <2> DEFINE new == [key |-> key, blocks |-> kv.req[r].table[i], pending |-> pending,
                     expires |-> IF pending THEN Never ELSE ExpiresAt(now)]
  <2>5. new.key = key /\ new.blocks = kv.req[r].table[i] /\ new.pending = pending /\ p.cache = Append(roomy.cache, new)
    BY <2>4
  <2>6. key \notin PendingKeys(kv)
    <3> HIDE DEF key
    <3> QED BY <1>5, CacheKeysAre DEF PendingKeys
  <2> HIDE DEF roomy, key, new
  <2>7. roomy.cache \in Seq(Entries) BY <2>3, RestIs DEF CacheStep
  <2>8. Range(p.cache) = Range(roomy.cache) \cup {new}
    <3>1. /\ DOMAIN p.cache = 1 .. Len(roomy.cache) + 1 /\ DOMAIN roomy.cache = 1 .. Len(roomy.cache)
          /\ Len(roomy.cache) \in Nat
          /\ \A c \in 1 .. Len(roomy.cache) : p.cache[c] = roomy.cache[c]
          /\ p.cache[Len(roomy.cache) + 1] = new
      BY <2>5, <2>7
    <3> DEFINE m == Len(roomy.cache)
    <3>2. 1 .. m + 1 = (1 .. m) \cup {m + 1} BY <3>1
    <3>3. /\ DOMAIN p.cache = 1 .. m + 1 /\ DOMAIN roomy.cache = 1 .. m
          /\ \A c \in 1 .. m : p.cache[c] = roomy.cache[c]
          /\ p.cache[m + 1] = new
      BY <3>1
    <3> HIDE DEF m
    <3>4. \A c \in DOMAIN p.cache : p.cache[c] \in Range(roomy.cache) \cup {new} BY <3>2, <3>3 DEF Range
    <3>5. \A c \in DOMAIN roomy.cache : roomy.cache[c] \in Range(p.cache) BY <3>2, <3>3 DEF Range
    <3>6. new \in Range(p.cache) BY <3>2, <3>3 DEF Range
    <3> QED BY <3>4, <3>5, <3>6 DEF Range
  <2>9. \A x \in Range(p.cache) : x \in Range(kv.cache) \/ x = new BY <2>3, <2>8
  <2>10. \A c \in Cached(p) : c \in Cached(kv) \/ c = <<key, kv.req[r].table[i]>> BY <2>5, <2>9 DEF Cached
  <2>11. \A k \in PendingKeys(p) : k \in PendingKeys(kv) \/ (pending /\ k = key) BY <2>5, <2>9 DEF PendingKeys
  <2> QED BY <2>6, <2>10, <2>11 DEF OffersOne, key
<1> QED BY <1>3, <1>4, <1>5

(* Publishing the complete blocks of a request.                            *)
LEMMA PublishOffers ==
    ASSUME NEW kv, PlaneOK(kv), NEW r \in Live(kv), IsHot(kv, r),
           NEW complete \in Nat, complete <= Len(kv.req[r].table),
           NEW now \in Int, NEW pending \in BOOLEAN, NEW z, z = AtMost(complete, Len(Content[r]))
    PROVE  Offers(kv, Publish(kv, r, complete, now, pending), r, z, pending)
<1> DEFINE n == AtMost(complete, Len(Content[r]))
           ordinals == [i \in 1 .. n |-> i]
           start == Expire(kv, now)
           p(k) == Publications!Partial(r, <<now, pending>>, start, ordinals, k)
           G == {k \in 0 .. n : CacheStep(kv, p(k)) /\ Offers(kv, p(k), r, k, pending)}
<1>0. r \in Requests /\ kv.req[r].table \in Seq(HotRows)
  BY PlaneParts DEF RequestsOK
<1>1. Len(Content[r]) \in Nat BY <1>0, RequestsAssumption
<1>2. n \in Nat /\ n <= complete /\ n <= Len(Content[r]) BY <1>1 DEF AtMost
<1>3. \A k \in 1 .. n : k \in DOMAIN kv.req[r].table /\ k \in 1 .. Len(Content[r])
  <2>1. DOMAIN kv.req[r].table = 1 .. Len(kv.req[r].table) /\ Len(kv.req[r].table) \in Nat BY <1>0
  <2> HIDE DEF n
  <2> QED BY <1>1, <1>2, <2>1
<1>12. z = n OBVIOUS
<1> HIDE DEF n
<1>4. ordinals \in Seq(Nat) /\ Len(ordinals) = n /\ \A k \in 1 .. n : ordinals[k] = k BY <1>2
<1> HIDE DEF ordinals
<1>ind. Publications!Inductive BY Induction DEF Publications!Inductive
<1>5. p(0) = start /\ p(n) = Publications!Fold(r, <<now, pending>>, start, ordinals)
  BY <1>4, Publications!FoldEnds, <1>ind
<1>6. CacheStep(kv, start) /\ Range(start.cache) \subseteq Range(kv.cache) BY ExpireOK
<1>7. ASSUME NEW k \in 0 .. n - 1
      PROVE  p(k + 1) = PublishOne(p(k), r, k + 1, now, pending) /\ k + 1 \in 1 .. n
  <2>1. p(k + 1) = PublishStep(r, <<now, pending>>, p(k), ordinals[k + 1])
    BY <1>4, Publications!FoldStep, <1>ind
  <2>2. k + 1 \in 1 .. n BY <1>2
  <2> QED BY <1>4, <2>1, <2>2 DEF PublishStep
<1> HIDE DEF p, start
<1>8. 0 \in G
  <2>1. Cached(start) \subseteq Cached(kv) /\ PendingKeys(start) \subseteq PendingKeys(kv) BY <1>6, FewerOffered
  <2>2. Offers(kv, start, r, 0, pending) BY <2>1 DEF Offers
  <2> QED BY <1>2, <1>5, <1>6, <2>2
<1>9. ASSUME NEW k \in G, k \in 0 .. n - 1 PROVE k + 1 \in G
  <2> DEFINE a == p(k)
             b == p(k + 1)
             i == k + 1
  <2>1. PlaneOK(a) /\ CacheOnly(kv, a) /\ Offers(kv, a, r, k, pending) BY <1>9 DEF CacheStep
  <2>2. b = PublishOne(a, r, i, now, pending) /\ i \in DOMAIN kv.req[r].table /\ i \in 1 .. Len(Content[r])
        /\ i = k + 1 /\ k \in Nat
    BY <1>3, <1>7, <1>9
  <2> HIDE DEF a, b, i, G
  <2>3. a.req = kv.req BY <2>1 DEF CacheOnly
  <2>4. r \in Live(a) /\ IsHot(a, r) /\ i \in DOMAIN a.req[r].table
    BY <2>2, <2>3 DEF Live, IsHot
  <2>5. CacheStep(a, b) /\ OffersOne(a, b, r, i, pending) BY <2>1, <2>2, <2>4, PublishOneOK, PublishOneOffers
  <2>6. CacheStep(kv, b) BY <2>1, <2>5, CacheOnlyTransitive DEF CacheStep
  <2>7. \A j \in 1 .. i : j \in 1 .. k \/ j = i BY <2>2
  <2>8. 1 .. k \subseteq 1 .. i /\ i \in 1 .. i BY <2>2
  <2>9. \A c \in Cached(b) : c \in Cached(kv) \/ \E j \in 1 .. i : c = <<Key(r, j), kv.req[r].table[j]>>
    BY <2>1, <2>3, <2>5, <2>8 DEF Offers, OffersOne
  <2>10. \A key \in PendingKeys(b) : key \in PendingKeys(kv) \/ (pending /\ \E j \in 1 .. i : key = Key(r, j))
    BY <2>1, <2>5, <2>8 DEF Offers, OffersOne
  <2>11. ASSUME ~pending, NEW j \in 1 .. i PROVE Key(r, j) \notin PendingKeys(b)
    <3>1. Key(r, j) \notin PendingKeys(a) \/ j = i BY <2>1, <2>7, <2>11 DEF Offers
    <3> QED BY <2>5, <2>11, <3>1 DEF OffersOne
  <2>12. Offers(kv, b, r, i, pending) BY <2>9, <2>10, <2>11 DEF Offers
  <2> QED BY <2>6, <2>12, <1>2, <1>9 DEF b, i, G
<1>10. n \in G
  <2> HIDE DEF G
  <2>1. \A k \in 0 .. n : k \in G BY <1>2, <1>8, <1>9, Sums!PrefixInduction
  <2> QED BY <2>1, <1>2
<1>11. Publish(kv, r, complete, now, pending) = p(n) BY <1>5, PublishIsFold DEF p, start, ordinals, n
<1> QED BY <1>10, <1>11, <1>12

----------------------------------------------------------------------------
(* A complete row of a request is a right entry.                           *)
LEMMA RowOffered ==
    ASSUME NEW kv, PlaneOK(kv), NEW g, ProgressOK(g), DataOK(kv, g),
           NEW r \in Live(kv), IsHot(kv, r), NEW i \in DOMAIN kv.req[r].table,
           i \in 1 .. Len(Content[r]), Full(i, g.reach[r])
    PROVE  /\ EntryRight(kv, g, Key(r, i), kv.req[r].table[i])
           /\ \A s \in Live(kv) : IsHot(kv, s) => CachedRight(kv, g, s, kv.req[r].table[i])
<1>1. /\ r \in Requests /\ Distinct(kv.req[r].table) /\ i \in Nat
  <2>1. kv.req[r].table \in Seq(HotRows) BY LiveTables
  <2> QED BY <2>1, LiveTables
<1>2. g.done[r] \in Nat /\ g.reach[r] \in Nat /\ (r \notin g.todo => g.done[r] = g.reach[r]) BY <1>1 DEF ProgressOK
<1>3. NamesKey(r, i, Key(r, i)) BY DEF NamesKey
<1>4. ASSUME NEW l \in 1 .. Layers
      PROVE  kv.hotData[kv.req[r].table[i][l]] = EntryCell(Key(r, i), l) \/ DueBlock(kv, g, kv.req[r].table[i][l])
  <2>1. CASE Full(i, g.done[r])
    <3>1. i <= BlocksFor(g.done[r]) /\ i >= 1 /\ BlocksFor(g.done[r]) \in Nat
      <4>1. g.done[r] <= g.done[r] BY <1>2
      <4>2. i <= BlocksFor(g.done[r]) BY <1>1, <1>2, <2>1, <4>1, FullIs
      <4>3. i >= 1 BY <1>1, KeyIs
      <4> QED BY <1>2, <4>2, <4>3, BlocksForIs
    <3>2. i \in 1 .. BlocksFor(g.done[r])
      <4> DEFINE n == BlocksFor(g.done[r])
      <4>1. i <= n /\ i >= 1 /\ n \in Nat BY <3>1
      <4> HIDE DEF n
      <4>2. i \in 1 .. n BY <1>1, <4>1
      <4> QED BY <4>2 DEF n
    <3>3. Reading(kv, g, r, i, l) BY <3>2 DEF DataOK, TablesRight, TableRight
    <3>4. Stored(r, i, l, g.done[r]) = EntryCell(Key(r, i), l) BY <1>1, <1>2, <1>3, <2>1, FullEntry
    <3> QED BY <3>3, <3>4 DEF Reading
  <2>2. CASE ~Full(i, g.done[r])
    <3>1. r \in g.todo BY <1>2, <2>2
    <3>2. g.reach[r] <= g.reach[r] BY <1>2
    <3>3. i <= BlocksFor(g.reach[r]) BY <1>1, <1>2, <3>2, FullIs
    <3>4. Due(g, r, i) BY <2>2, <3>1, <3>3 DEF Due
    <3> QED BY <3>4 DEF DueBlock
  <2> QED BY <2>1, <2>2
<1>5. ASSUME NEW s \in Live(kv), IsHot(kv, s) PROVE CachedRight(kv, g, s, kv.req[r].table[i])
  <2> SUFFICES ASSUME NEW j \in DOMAIN kv.req[s].table, NEW l \in 1 .. Layers, NEW m \in 1 .. Layers,
                      kv.req[s].table[j][l] = kv.req[r].table[i][m]
               PROVE  Full(j, g.reach[s])
    BY DEF CachedRight
  <2>1. CASE s = r BY <1>1, <2>1 DEF Distinct
  <2>2. CASE s # r
    <3>1. SharedRight(kv, g, s, r) BY <1>5, <2>2 DEF DataOK, SharesRight
    <3> QED BY <3>1 DEF SharedRight
  <2> QED BY <2>1, <2>2
<1> QED BY <1>4, <1>5 DEF EntryRight

(* The cache offers right entries more than before.                        *)
LEMMA MoreOffered ==
    ASSUME NEW kv, NEW g, DataOK(kv, g), NEW p, p.req = kv.req,
           p.hotData = kv.hotData, p.coldData = kv.coldData,
           \A c \in Cached(p) \ Cached(kv) :
               /\ EntryRight(kv, g, c[1], c[2])
               /\ \A r \in Live(kv) : IsHot(kv, r) => CachedRight(kv, g, r, c[2])
    PROVE  DataOK(p, g)
<1>1. Live(p) = Live(kv) /\ (\A r : IsHot(p, r) = IsHot(kv, r)) BY DEF Live, IsHot
<1>2. \A b : DueBlock(p, g, b) <=> DueBlock(kv, g, b) BY <1>1 DEF DueBlock
<1>3. TablesRight(p, g)
  <2> SUFFICES ASSUME NEW r \in Live(kv) PROVE TableRight(p, g, r) BY <1>1 DEF TablesRight
  <2>1. TableRight(kv, g, r) BY DEF DataOK, TablesRight
  <2> QED BY <1>1, <1>2, <2>1 DEF TableRight, Reading
<1>4. SharesRight(p, g)
  <2> SUFFICES ASSUME NEW r \in Live(kv), NEW s \in Live(kv), r # s, IsHot(kv, r), IsHot(kv, s)
               PROVE  SharedRight(p, g, r, s)
    BY <1>1 DEF SharesRight
  <2>1. SharedRight(kv, g, r, s) BY DEF DataOK, SharesRight
  <2> QED BY <2>1 DEF SharedRight
<1>5. CacheRight(p, g)
  <2> SUFFICES ASSUME NEW c \in Cached(p)
               PROVE  EntryRight(p, g, c[1], c[2])
                      /\ \A r \in Live(kv) : IsHot(kv, r) => CachedRight(p, g, r, c[2])
    BY <1>1 DEF CacheRight
  <2>1. /\ EntryRight(kv, g, c[1], c[2])
        /\ \A r \in Live(kv) : IsHot(kv, r) => CachedRight(kv, g, r, c[2])
    BY DEF DataOK, CacheRight
  <2> QED BY <1>2, <2>1 DEF EntryRight, CachedRight
<1> QED BY <1>3, <1>4, <1>5 DEF DataOK

(* Publishing what is complete, or will be, keeps the data right.          *)
LEMMA PublishData ==
    ASSUME NEW kv, PlaneOK(kv), NEW g, ProgressOK(g), DataOK(kv, g), NEW r \in Live(kv), IsHot(kv, r),
           NEW complete \in Nat, complete <= Len(kv.req[r].table), Full(complete, g.reach[r]),
           NEW now \in Int, NEW pending \in BOOLEAN, NEW p, p = Publish(kv, r, complete, now, pending)
    PROVE  DataOK(p, g)
<1> DEFINE n == AtMost(complete, Len(Content[r]))
<1>0. r \in Requests /\ kv.req[r].table \in Seq(HotRows) BY LiveTables
<1>1. Len(Content[r]) \in Nat BY <1>0, RequestsAssumption
<1>2. n \in Nat /\ n <= complete /\ n <= Len(Content[r]) BY <1>1 DEF AtMost
<1>3. Offers(kv, p, r, n, pending) BY PublishOffers
<1>4. CacheOnly(kv, p) BY PublishOK DEF CacheStep
<1>5. p.req = kv.req /\ p.hotData = kv.hotData /\ p.coldData = kv.coldData BY <1>4 DEF CacheOnly
<1> HIDE DEF n
<1>6. ASSUME NEW i \in 1 .. n
      PROVE  i \in DOMAIN kv.req[r].table /\ i \in 1 .. Len(Content[r]) /\ Full(i, g.reach[r])
  <2>1. DOMAIN kv.req[r].table = 1 .. Len(kv.req[r].table) /\ Len(kv.req[r].table) \in Nat BY <1>0
  <2>2. g.reach[r] \div BlockTokens \in Nat
    <3>1. g.reach[r] \in Nat BY <1>0 DEF ProgressOK
    <3> QED BY <3>1, SizesAssumption, DivisionIs
  <2>3. i <= complete BY <1>2
  <2> QED BY <1>1, <1>2, <2>1, <2>2, <2>3 DEF Full
<1>7. ASSUME NEW c \in Cached(p) \ Cached(kv)
      PROVE  /\ EntryRight(kv, g, c[1], c[2])
             /\ \A s \in Live(kv) : IsHot(kv, s) => CachedRight(kv, g, s, c[2])
  <2>1. PICK i \in 1 .. n : c = <<Key(r, i), kv.req[r].table[i]>> BY <1>3, <1>7 DEF Offers
  <2>2. c[1] = Key(r, i) /\ c[2] = kv.req[r].table[i] BY <2>1
  <2> QED BY <1>6, <2>2, RowOffered
<1> QED BY <1>5, <1>7, MoreOffered

----------------------------------------------------------------------------
(* Data of a request that is admitted, recomputed or gone.                 *)

(* A request is admitted with the blocks that the cache has for its keys.  *)
LEMMA AdmitShares ==
    ASSUME NEW kv, PlaneOK(kv), NEW r \in Requests, r \notin Live(kv), NEW now \in Int,
           NEW arrival \in Nat, NEW p, p = Admit(kv, r, now, arrival)
    PROVE  /\ p.hotData = kv.hotData /\ p.coldData = kv.coldData /\ Range(p.cache) \subseteq Range(kv.cache)
           /\ AdmitHit(kv, r, now) \in Nat /\ DOMAIN p.req[r].table = 1 .. AdmitHit(kv, r, now)
           /\ \A i \in DOMAIN p.req[r].table :
                 NamesKey(r, i, Key(r, i)) /\ <<Key(r, i), p.req[r].table[i]>> \in Cached(kv)
<1> DEFINE n == AdmitHit(kv, r, now)
           looked == IF CacheBlocks > 0 /\ Content[r] # <<>> THEN Expire(kv, now) ELSE kv
           touched == FoldLeft(LAMBDA q, i : MoveToEnd(q, Key(r, i)), looked, [i \in 1 .. n |-> i])
           table == [i \in 1 .. n |-> EntryOf(looked, Key(r, i)).blocks]
           state == NewState(kv, n, arrival, table)
<1>1. p = Joins(touched, kv, r, state) BY DEF Admit, Joins, NewState, WithRequest
<1>2. CacheStep(kv, looked) /\ Range(looked.cache) \subseteq Range(kv.cache)
  BY ExpireOK, CacheOnlyItself DEF CacheStep
<1>3. HitLimit(r) \in Nat /\ HitLimit(r) <= Len(Content[r]) /\ (Content[r] = <<>> => HitLimit(r) = 0)
      /\ Len(Content[r]) \in Nat
  BY HitLimitIs, RequestsAssumption
<1>4. n \in Nat /\ n <= Len(Content[r]) /\ \A i \in 1 .. n : Key(r, i) \in CacheKeys(looked)
  <2>1. CASE CacheBlocks > 0
    <3> DEFINE e == Expire(kv, now)
               h == HitLength(e, r, HitLimit(r))
    <3>1. n = h BY <2>1 DEF AdmitHit
    <3>2. h \in 0 .. HitLimit(r) /\ \A i \in 1 .. h : Key(r, i) \in CacheKeys(e) BY <1>3, HitLengthIs
    <3>3. Content[r] # <<>> => looked = e BY <2>1
    <3> HIDE DEF e, h, n, looked
    <3> QED BY <1>3, <3>1, <3>2, <3>3
  <2>2. CASE ~(CacheBlocks > 0)
    <3>1. n = 0 BY <2>2 DEF AdmitHit
    <3> HIDE DEF n
    <3> QED BY <1>3, <3>1
  <2> QED BY <2>1, <2>2
<1> HIDE DEF n
<1>5. PlaneOK(looked) /\ CacheOnly(kv, looked) BY <1>2 DEF CacheStep
<1>6. /\ CacheStep(looked, touched) /\ Range(touched.cache) = Range(looked.cache)
  <2> HIDE DEF looked
  <2> QED BY <1>4, <1>5, TouchAllOK
<1> HIDE DEF looked, touched
<1>7. FieldsOK(touched) /\ CacheStep(kv, touched) BY <1>2, <1>6, CacheOnlyTransitive, RestIs DEF CacheStep
<1>8. /\ p.hotData = touched.hotData /\ p.coldData = touched.coldData
      /\ p.cache = touched.cache /\ p.req = WithRequest(kv, r, state)
  <2> HIDE DEF state
  <2> QED BY <1>1, <1>7 DEF Joins, FieldsOK, IsRecord, Fields
<1>9. p.hotData = kv.hotData /\ p.coldData = kv.coldData BY <1>7, <1>8 DEF CacheStep, CacheOnly
<1>10. p.req[r].table = table /\ DOMAIN table = 1 .. n
  <2>1. DOMAIN table = 1 .. n OBVIOUS
  <2>2. state.table = table
    <3> HIDE DEF table
    <3> QED BY DEF NewState
  <2> HIDE DEF table, state
  <2>3. p.req[r] = state BY <1>8 DEF WithRequest
  <2> QED BY <2>1, <2>2, <2>3
<1>11. ASSUME NEW i \in 1 .. n PROVE NamesKey(r, i, Key(r, i)) /\ <<Key(r, i), table[i]>> \in Cached(kv)
  <2>1. i \in 1 .. Len(Content[r]) BY <1>3, <1>4
  <2>2. looked.cache \in Seq(Entries) /\ DistinctKeys(looked.cache) BY <1>5, RestIs
  <2>3. Key(r, i) \in CacheKeys(looked) BY <1>4
  <2> DEFINE e == EntryOf(looked, Key(r, i))
  <2>4. e \in Range(looked.cache) /\ e.key = Key(r, i) BY <2>2, <2>3, EntryOfKey
  <2>5. table[i] = e.blocks OBVIOUS
  <2> HIDE DEF e, table
  <2> QED BY <1>2, <2>1, <2>4, <2>5 DEF NamesKey, Cached
<1> HIDE DEF table
<1> QED BY <1>2, <1>4, <1>6, <1>8, <1>9, <1>10, <1>11 DEF n

(* The request's own prefix is right, and what it shares is complete.      *)
LEMMA AdmitData ==
    ASSUME NEW kv, PlaneOK(kv), NEW g, ProgressOK(g), DataOK(kv, g),
           NEW r \in Requests, r \notin Live(kv), NEW now \in Int, NEW arrival \in Nat,
           NEW p, p = Admit(kv, r, now, arrival),
           NEW h, ProgressOK(h), SameProgress(g, h, {r}),
           h.done[r] = AdmitHit(kv, r, now) * BlockTokens, h.reach[r] = h.done[r],
           r \in h.batch \/ g.todo = {}
    PROVE  DataOK(p, h)
<1> DEFINE n == AdmitHit(kv, r, now)
           t == n * BlockTokens
<1>1. Live(p) = Live(kv) \cup {r} /\ OthersKept(kv, p, r) /\ IsHot(p, r) /\ Len(p.req[r].table) = n
  BY AdmitOK
<1>2. /\ p.hotData = kv.hotData /\ p.coldData = kv.coldData /\ Range(p.cache) \subseteq Range(kv.cache)
      /\ n \in Nat /\ DOMAIN p.req[r].table = 1 .. n
      /\ \A i \in DOMAIN p.req[r].table :
            NamesKey(r, i, Key(r, i)) /\ <<Key(r, i), p.req[r].table[i]>> \in Cached(kv)
  BY AdmitShares
<1>3. h.done[r] = t /\ h.reach[r] = t OBVIOUS
<1> HIDE DEF n
<1>4. t \in Nat /\ BlocksFor(t) = n /\ \A i \in Nat : Full(i, t) <=> i <= n BY <1>2, WholeBlocks
<1> HIDE DEF t
<1>5. \A i \in DOMAIN p.req[r].table : i \in Nat \ {0} /\ Full(i, t) BY <1>2, <1>4
<1>6. Elsewhere(kv, p, {r})
  <2>1. Live(p) \ {r} = Live(kv) \ {r} BY <1>1
  <2>2. Cached(p) \subseteq Cached(kv) BY <1>2, FewerOffered
  <2> QED BY <1>1, <1>2, <2>1, <2>2 DEF Elsewhere, OthersKept
<1>7. DuesKept(kv, g, p, h, {r}) BY DEF DuesKept
<1>8. Live(kv) \subseteq Requests BY RestIs
<1>9. OwnRight(p, h, r)
  <2>1. ASSUME NEW i \in 1 .. n, NEW l \in 1 .. Layers PROVE Reading(p, h, r, i, l)
    <3> DEFINE b == p.req[r].table[i][l]
               c == <<Key(r, i), p.req[r].table[i]>>
    <3>1. c \in Cached(kv) /\ NamesKey(r, i, Key(r, i)) /\ Full(i, t) BY <1>2, <1>5
    <3>2. EntryRight(kv, g, Key(r, i), p.req[r].table[i])
      <4>1. EntryRight(kv, g, c[1], c[2]) BY <3>1 DEF DataOK, CacheRight
      <4> QED BY <4>1
    <3>3. kv.hotData[b] = EntryCell(Key(r, i), l) \/ DueBlock(kv, g, b) BY <3>2 DEF EntryRight
    <3>4. Stored(r, i, l, t) = EntryCell(Key(r, i), l) BY <1>4, <3>1, FullEntry
    <3>5. DueBlock(kv, g, b) => DueBlock(p, h, b) /\ r \in h.batch
      <4> SUFFICES ASSUME DueBlock(kv, g, b) PROVE DueBlock(p, h, b) /\ r \in h.batch OBVIOUS
      <4>1. g.todo # {} BY DEF DueBlock, Due
      <4>2. DueBlock(p, h, b)
        <5> HIDE DEF b
        <5> QED BY <1>6, <1>7, <1>8, DueBlocksStay
      <4> QED BY <4>1, <4>2
    <3> QED BY <1>1, <1>2, <1>3, <3>3, <3>4, <3>5 DEF Reading
  <2>2. TableRight(p, h, r)
    <3>1. BlocksFor(h.done[r]) = n BY <1>3, <1>4
    <3>2. BlocksFor(h.done[r]) <= Len(p.req[r].table) BY <1>1, <1>2, <3>1
    <3> QED BY <2>1, <3>1, <3>2 DEF TableRight
  <2>3. ASSUME NEW s \in Live(p) \ {r}, IsHot(p, s) PROVE SharedRight(p, h, r, s)
    <3>1. s \in Live(kv) /\ p.req[s] = kv.req[s] /\ IsHot(kv, s) BY <1>1, <2>3 DEF OthersKept, IsHot
    <3>2. h.reach[s] = g.reach[s] BY <1>8, <2>3, <3>1 DEF SameProgress
    <3> SUFFICES ASSUME NEW i \in DOMAIN p.req[r].table, NEW j \in DOMAIN p.req[s].table,
                        NEW l \in 1 .. Layers, NEW m \in 1 .. Layers,
                        p.req[r].table[i][l] = p.req[s].table[j][m]
                 PROVE  /\ Full(i, h.reach[r]) /\ Full(j, h.reach[s])
                        /\ Full(i, h.done[r]) \/ Full(j, h.done[s])
      BY DEF SharedRight
    <3> DEFINE c == <<Key(r, i), p.req[r].table[i]>>
    <3>3. c \in Cached(kv) /\ c[2] = p.req[r].table[i] BY <1>2
    <3> HIDE DEF c
    <3>4. CachedRight(kv, g, s, c[2]) BY <3>1, <3>3 DEF DataOK, CacheRight
    <3>5. Full(j, g.reach[s]) BY <3>1, <3>3, <3>4 DEF CachedRight
    <3> QED BY <1>3, <1>5, <3>2, <3>5
  <2>4. \A c \in Cached(p) : CachedRight(p, h, r, c[2]) BY <1>3, <1>5 DEF CachedRight
  <2> QED BY <2>2, <2>3, <2>4 DEF OwnRight
<1>10. \A s \in {r} \cap Live(p) : OwnRight(p, h, s) BY <1>9
<1> QED BY <1>6, <1>7, <1>10, Carried

----------------------------------------------------------------------------
(* Data while a batch is put together.                                     *)

(* A request joins the batch.                                              *)
LEMMA JoinedData ==
    ASSUME NEW kv, PlaneOK(kv), NEW g, ProgressOK(g), DataOK(kv, g), NEW h, ProgressOK(h),
           NEW r \in Requests, r \notin g.todo, SameProgress(g, h, {r}),
           h.done[r] = g.done[r], r \in g.batch => r \in h.batch
    PROVE  DataOK(kv, h)
<1>1. Elsewhere(kv, kv, {r}) BY DEF Elsewhere
<1>2. DuesKept(kv, g, kv, h, {r}) BY DEF DuesKept, Due
<1>3. Live(kv) \subseteq Requests BY RestIs
<1>4. \A b : DueBlock(kv, g, b) => DueBlock(kv, h, b) BY <1>1, <1>2, <1>3, DueBlocksStay
<1>5. ASSUME r \in Live(kv) PROVE OwnRight(kv, h, r)
  <2>1. \A i \in Nat : Full(i, g.reach[r]) => Full(i, h.reach[r])
    <3>1. g.reach[r] \in Nat /\ h.reach[r] \in Nat /\ g.reach[r] <= h.reach[r] BY DEF ProgressOK
    <3> QED BY <3>1, FullIs
  <2>2. TableRight(kv, h, r)
    <3>1. TableRight(kv, g, r) BY <1>5 DEF DataOK, TablesRight
    <3> QED BY <3>1, <1>4 DEF TableRight, Reading
  <2>3. DOMAIN kv.req[r].table \subseteq Nat
    <3>1. kv.req[r].table \in Seq(HotRows) \/ kv.req[r].table \in Seq(ColdRows) BY <1>5, LiveTables
    <3> QED BY <3>1
  <2>4. ASSUME IsHot(kv, r), NEW s \in Live(kv) \ {r}, IsHot(kv, s) PROVE SharedRight(kv, h, r, s)
    <3>1. SharedRight(kv, g, r, s) BY <1>5, <2>4 DEF DataOK, SharesRight
    <3>2. h.reach[s] = g.reach[s] /\ h.done[s] = g.done[s] BY <1>3 DEF SameProgress
    <3> QED BY <3>1, <3>2, <2>1, <2>3 DEF SharedRight
  <2>5. ASSUME IsHot(kv, r), NEW c \in Cached(kv) PROVE CachedRight(kv, h, r, c[2])
    <3>1. CachedRight(kv, g, r, c[2]) BY <1>5, <2>5 DEF DataOK, CacheRight
    <3> QED BY <3>1, <2>1, <2>3 DEF CachedRight
  <2> QED BY <2>2, <2>4, <2>5 DEF OwnRight
<1> QED BY <1>1, <1>2, <1>5, Carried

(* A request leaves.                                                       *)
LEMMA ReleaseData ==
    ASSUME NEW kv, PlaneOK(kv), NEW g, ProgressOK(g), DataOK(kv, g), NEW h, ProgressOK(h),
           NEW r \in Live(kv), r \notin g.todo, SameProgress(g, h, {r}), NEW p, p = ReleaseRequest(kv, r)
    PROVE  DataOK(p, h) /\ PendingKeys(p) \subseteq PendingKeys(kv)
<1> DEFINE q == Dropped(kv, r)
<1>1. PlaneOK(q) /\ q.cache = kv.cache BY DroppedOK
<1>2. DataOK(q, h) BY DroppedData
<1>3. p = IF IsHot(kv, r) THEN ReleaseOrder(q, r) ELSE q BY DEF ReleaseRequest, Dropped
<1>4. r \in Requests BY RestIs
<1> HIDE DEF q
<1>5. CASE IsHot(kv, r)
  <2>1. CacheStep(q, p) /\ Range(p.cache) = Range(q.cache) BY <1>1, <1>3, <1>4, <1>5, ReleaseOrderOK
  <2>2. p.req = q.req /\ p.hotData = q.hotData /\ p.coldData = q.coldData BY <2>1 DEF CacheStep, CacheOnly
  <2>3. Cached(p) \subseteq Cached(q) /\ PendingKeys(p) \subseteq PendingKeys(q) BY <2>1, FewerOffered
  <2>4. DataOK(p, h) BY <1>1, <1>2, <2>2, <2>3, Offered
  <2> QED BY <1>1, <2>3, <2>4 DEF PendingKeys
<1>6. CASE ~IsHot(kv, r) BY <1>1, <1>2, <1>3, <1>6 DEF PendingKeys
<1> QED BY <1>5, <1>6

(* A request is preempted between batches.                                 *)
LEMMA PreemptData ==
    ASSUME NEW kv, PlaneOK(kv), NEW g, ProgressOK(g), DataOK(kv, g), NEW h, ProgressOK(h),
           NEW r \in Live(kv), IsHot(kv, r), r \notin g.batch, SameProgress(g, h, {r}),
           h.done[r] = IF PreemptMode(kv, r) = "recompute" THEN 0 ELSE g.done[r],
           NEW p, p = Preempt(kv, r)
    PROVE  DataOK(p, h) /\ PendingKeys(p) = PendingKeys(kv)
<1>1. r \notin g.todo /\ r \in Requests BY RestIs DEF ProgressOK
<1>2. CASE PreemptMode(kv, r) = "swap_out"
  <2>1. p = SwapOut(kv, r) BY <1>2 DEF Preempt
  <2>2. TotalBlocks(kv, r) <= Cardinality(Free(kv.cold))
    <3>1. Cardinality(Free(kv.cold)) >= TotalBlocks(kv, r) BY <1>2 DEF PreemptMode
    <3>2. Cardinality(Free(kv.cold)) \in Nat BY FreeCount
    <3>3. TotalBlocks(kv, r) \in Nat
      <4>1. Len(kv.req[r].table) \in Nat BY LiveTables
      <4> QED BY <4>1, RowBlocksIs DEF TotalBlocks, RowBlocks
    <3> QED BY <3>1, <3>2, <3>3
  <2>3. PlaneOK(p) /\ p.cache = kv.cache BY <2>1, <2>2, SwapOutOK
  <2>4. DataOK(p, g) BY <2>1, <2>2, SwapOutData
  <2>5. h.done[r] = g.done[r] BY <1>2
  <2>6. DataOK(p, h) BY <1>1, <2>3, <2>4, <2>5, JoinedData
  <2> QED BY <2>3, <2>6 DEF PendingKeys
<1>3. CASE PreemptMode(kv, r) # "swap_out"
  <2>1. p = Recompute(kv, r) BY <1>3 DEF Preempt, Recompute
  <2>2. h.done[r] = 0 BY <1>3 DEF PreemptMode
  <2>3. DataOK(p, h) BY <1>1, <2>1, <2>2, RecomputeData
  <2>4. p.cache = kv.cache BY <2>1, RecomputeOK
  <2> QED BY <2>3, <2>4 DEF PendingKeys
<1> QED BY <1>2, <1>3

(* Keys of the blocks that the batch completes.                            *)
Completes(g, r, key) == \E i \in 1 .. Len(Content[r]) : Key(r, i) = key /\ Full(i, g.reach[r])

(* A slice is reserved.                                                    *)
LEMMA GrowAndPublishData ==
    ASSUME NEW kv, PlaneOK(kv), NEW g, ProgressOK(g), DataOK(kv, g),
           NEW s, s.req \in Live(kv), s.begin \in Nat, s.count \in Nat, g.reach[s.req] = Tokens(s),
           IsHot(kv, s.req), Cost(kv, s) <= Cardinality(Free(kv.hot)),
           NEW p, p = GrowAndPublish(kv, s)
    PROVE  /\ DataOK(p, g)
           /\ \A key \in PendingKeys(p) : key \in PendingKeys(kv) \/ Completes(g, s.req, key)
<1> DEFINE r == s.req
           n == Growth(kv, s)
           q == Grown(kv, r, n)
           complete == AtMost(Tokens(s), Prompt[r]) \div BlockTokens
<1>1. /\ n \in Nat /\ Len(kv.req[r].table) \in Nat /\ Tokens(s) \in Nat
      /\ Len(kv.req[r].table) + n >= BlocksFor(Tokens(s))
      /\ Cost(kv, s) = RowBlocks(n) /\ Cost(kv, s) \in Nat
  BY CostIs
<1>2. r \in Live(kv) /\ IsHot(kv, r) /\ RowBlocks(n) <= Cardinality(Free(kv.hot)) /\ g.reach[r] = Tokens(s)
  BY <1>1
<1>3. p = IF CacheBlocks > 0 THEN Publish(q, r, complete, kv.req[r].arrival, TRUE) ELSE q
  BY DEF GrowAndPublish, Grown
<1> HIDE DEF n, r
<1>4. /\ PlaneOK(q) /\ q.cache = kv.cache /\ Live(q) = Live(kv)
      /\ IsHot(q, r) /\ Len(q.req[r].table) = Len(kv.req[r].table) + n
  BY <1>1, <1>2, GrownOK
<1>5. DataOK(q, g) BY <1>1, <1>2, GrownData
<1>6. r \in Requests BY <1>2, LiveTables
<1>7. complete \in Nat /\ complete <= Len(q.req[r].table) /\ Full(complete, g.reach[r])
  <2>1. complete \in Nat /\ complete <= BlocksFor(Tokens(s)) /\ BlocksFor(Tokens(s)) \in Nat BY <1>1, <1>6, BlocksForIs
  <2>2. Full(complete, Tokens(s))
    <3> DEFINE t == AtMost(Tokens(s), Prompt[r])
    <3>1. Prompt[r] \in Nat BY <1>6, RequestsAssumption
    <3>2. t \in Nat /\ t <= Tokens(s) BY <1>1, <3>1 DEF AtMost
    <3> HIDE DEF t
    <3>3. t \div BlockTokens <= Tokens(s) \div BlockTokens BY <1>1, <3>2, SizesAssumption, DivisionGrows
    <3> QED BY <3>3 DEF Full, t
  <2> HIDE DEF complete, q, r
  <2> QED BY <2>1, <2>2, <1>1, <1>2, <1>4
<1>8. kv.req[r].arrival \in Int
  <2>1. kv.req[r] \in States BY <1>2, LiveTables
  <2> QED BY <2>1 DEF States
<1> HIDE DEF complete, q, r
<1>9. PendingKeys(q) = PendingKeys(kv) BY <1>4 DEF PendingKeys
<1>10. CASE CacheBlocks > 0
  <2> DEFINE now == kv.req[r].arrival
             z == AtMost(complete, Len(Content[r]))
  <2>1. p = Publish(q, r, complete, now, TRUE) BY <1>10, <1>3
  <2>2. r \in Live(q) /\ TRUE \in BOOLEAN /\ now \in Int BY <1>2, <1>4, <1>8
  <2> HIDE DEF now
  <2>3. DataOK(p, g) BY <1>4, <1>5, <1>7, <2>1, <2>2, PublishData
  <2>4. Offers(q, p, r, z, TRUE)
    <3>1. z = AtMost(complete, Len(Content[r])) OBVIOUS
    <3> HIDE DEF z
    <3> QED BY <1>4, <1>7, <2>1, <2>2, <3>1, PublishOffers
  <2>5. ASSUME NEW i \in 1 .. z PROVE i \in 1 .. Len(Content[r]) /\ Full(i, g.reach[r])
    <3>1. Len(Content[r]) \in Nat BY <1>6, RequestsAssumption
    <3>2. z <= complete /\ z <= Len(Content[r]) /\ z \in Nat BY <1>7, <3>1 DEF AtMost
    <3>3. g.reach[r] \div BlockTokens \in Nat
      <4>1. g.reach[r] \in Nat BY <1>6 DEF ProgressOK
      <4> QED BY <4>1, SizesAssumption, DivisionIs
    <3> HIDE DEF z
    <3>4. i \in 1 .. Len(Content[r]) /\ i <= complete BY <1>7, <2>5, <3>1, <3>2
    <3>5. i \in Nat BY <2>5, <3>2
    <3> QED BY <1>7, <3>3, <3>4, <3>5 DEF Full
  <2>6. \A key \in PendingKeys(p) : key \in PendingKeys(q) \/ Completes(g, r, key)
    <3> HIDE DEF z
    <3> QED BY <2>4, <2>5 DEF Offers, Completes
  <2> QED BY <1>9, <2>3, <2>6 DEF r
<1>11. CASE ~(CacheBlocks > 0)
  <2>1. p = q BY <1>3, <1>11
  <2> QED BY <1>5, <1>9, <2>1 DEF r
<1> QED BY <1>10, <1>11

----------------------------------------------------------------------------
(* Data through the moves and the growth of a reservation.                 *)

(* Data survives the departures, the arrivals and the growth of a          *)
(* reservation.                                                            *)
LEMMA DepartData ==
    ASSUME NEW kv, PlaneOK(kv), NEW slices, NEW victims, VictimsOK(kv, slices, victims),
           Moved(kv, victims) <= Cardinality(Free(kv.cold)),
           NEW g, ProgressOK(g), DataOK(kv, g), g.batch = InBatch(slices)
    PROVE  DataOK(FoldLeft(SwapOut, kv, victims), g)
<1> DEFINE n == Len(victims)
           p(k) == Departures!Partial({}, {}, kv, victims, k)
           G == {k \in 0 .. n : Departing(kv, p(k), victims, k) /\ DataOK(p(k), g)}
<1>0. victims \in Seq(Live(kv)) /\ DOMAIN victims = 1 .. n /\ n \in Nat BY DEF VictimsOK
<1>ind. Departures!Inductive BY Induction DEF Departures!Inductive
<1>1. p(0) = kv /\ p(n) = Departures!Fold({}, {}, kv, victims) BY <1>0, Departures!FoldEnds, <1>ind
<1>2. ASSUME NEW k \in 0 .. n - 1 PROVE p(k + 1) = SwapOut(p(k), victims[k + 1]) /\ k + 1 \in DOMAIN victims
  <2>1. p(k + 1) = SwapOutStep({}, {}, p(k), victims[k + 1]) BY <1>0, Departures!FoldStep, <1>ind
  <2>2. k + 1 \in 1 .. n BY <1>0
  <2> QED BY <1>0, <2>1, <2>2 DEF SwapOutStep
<1> HIDE DEF p
<1>3. 0 \in G
  <2>1. Departing(kv, p(0), victims, 0)
    <3>1. UpTo(victims, 0) = {} BY DEF UpTo
    <3>2. Total(Sizes(kv, victims), 0 + 1 .. n) <= Cardinality(Free(kv.cold)) BY <1>0 DEF Moved, Sizes
    <3>3. OutsidersKept(kv, kv, {}) /\ ClocksKept(kv, kv) BY DEF ClocksKept, OutsidersKept
    <3>4. \A i \in 1 .. 0 : ~IsHot(kv, victims[i]) OBVIOUS
    <3> QED BY <1>1, <3>1, <3>2, <3>3, <3>4 DEF Departing
  <2> QED BY <1>0, <1>1, <2>1
<1>4. ASSUME NEW k \in G, k \in 0 .. n - 1 PROVE k + 1 \in G
  <2> DEFINE a == p(k)
             b == p(k + 1)
             r == victims[k + 1]
  <2>1. Departing(kv, a, victims, k) /\ DataOK(a, g) /\ b = SwapOut(a, r) BY <1>2, <1>4
  <2>2. r \notin g.batch BY <1>2, <1>4 DEF VictimsOK
  <2> HIDE DEF a, b
  <2>3. CanDepart(a, r) /\ Departing(kv, b, victims, k + 1) BY <2>1, <1>4, DepartingOn
  <2> HIDE DEF r
  <2>4. PlaneOK(a) BY <2>1 DEF Departing
  <2>5. DataOK(b, g) BY <2>1, <2>2, <2>3, <2>4, SwapOutData DEF CanDepart
  <2> QED BY <2>3, <2>5, <1>0, <1>4 DEF b
<1>5. n \in G
  <2> HIDE DEF G
  <2>1. \A k \in 0 .. n : k \in G BY <1>0, <1>3, <1>4, Sums!PrefixInduction
  <2> QED BY <2>1, <1>0
<1> QED BY <1>1, <1>5, DeparturesIsFold

(* The swap-ins of a batch keep the data right.                            *)
LEMMA ArriveData ==
    ASSUME NEW kv, PlaneOK(kv), NEW slices, SlicesOK(kv, slices), Covered(kv, slices),
           NEW cold, cold = ColdOf(kv, slices), NEW g, ProgressOK(g), DataOK(kv, g)
    PROVE  LET p == FoldLeft(LAMBDA q, s : SwapIn(q, s.req), kv, cold) IN
           DataOK(p, g) /\ p.cache = kv.cache
<1> DEFINE n == Len(cold)
           p(k) == Arrivals!Partial({}, {}, kv, cold, k)
           G == {k \in 0 .. n : Arriving(kv, p(k), slices, cold, k) /\ DataOK(p(k), g) /\ p(k).cache = kv.cache}
<1>0. /\ cold \in Seq(Range(slices)) /\ DOMAIN cold = 1 .. n /\ n \in Nat
      /\ \A k \in DOMAIN cold : \E x \in DOMAIN slices : cold[k] = slices[x] /\ ~IsHot(kv, slices[x].req)
  BY ColdOfIs
<1>ind. Arrivals!Inductive BY Induction DEF Arrivals!Inductive
<1>1. p(0) = kv /\ p(n) = Arrivals!Fold({}, {}, kv, cold) BY <1>0, Arrivals!FoldEnds, <1>ind
<1>2. ASSUME NEW k \in 0 .. n - 1 PROVE p(k + 1) = SwapIn(p(k), cold[k + 1].req) /\ k + 1 \in DOMAIN cold
  <2>1. p(k + 1) = SwapInStep({}, {}, p(k), cold[k + 1]) BY <1>0, Arrivals!FoldStep, <1>ind
  <2>2. k + 1 \in 1 .. n BY <1>0
  <2> QED BY <1>0, <2>1, <2>2 DEF SwapInStep
<1> HIDE DEF p
<1>3. 0 \in G
  <2>1. \A i \in 1 .. n : ~IsHot(kv, cold[i].req) BY <1>0
  <2>2. Arriving(kv, p(0), slices, cold, 0) BY <1>1, <2>1 DEF Arriving, ClocksKept, OutsidersKept
  <2> QED BY <1>0, <1>1, <2>2
<1>4. ASSUME NEW k \in G, k \in 0 .. n - 1 PROVE k + 1 \in G
  <2> DEFINE a == p(k)
             b == p(k + 1)
             r == cold[k + 1].req
  <2>1. Arriving(kv, a, slices, cold, k) /\ DataOK(a, g) /\ a.cache = kv.cache /\ b = SwapIn(a, r) BY <1>2, <1>4
  <2> HIDE DEF a, b
  <2>3. CanArrive(a, r) /\ Arriving(kv, b, slices, cold, k + 1) BY <2>1, <1>4, ArrivingOn
  <2> HIDE DEF r
  <2>4. PlaneOK(a) BY <2>1 DEF Arriving
  <2>5. DataOK(b, g) BY <2>1, <2>3, <2>4, SwapInData DEF CanArrive
  <2>6. b.cache = a.cache BY <2>1, <2>3, <2>4, SwapInOK DEF CanArrive
  <2> QED BY <2>1, <2>3, <2>5, <2>6, <1>0, <1>4 DEF b
<1>5. n \in G
  <2> HIDE DEF G
  <2>1. \A k \in 0 .. n : k \in G BY <1>0, <1>3, <1>4, Sums!PrefixInduction
  <2> QED BY <2>1, <1>0
<1>6. FoldLeft(LAMBDA q, s : SwapIn(q, s.req), kv, cold) = p(n) BY <1>1, ArrivalsIsFold
<1> QED BY <1>5, <1>6

(* The entries marked pending are those that the batch completes.          *)
PendingDue(kv, g) == \A key \in PendingKeys(kv) : \E w \in g.batch : Completes(g, w, key)

(* The growth of a batch keeps the data right, with the entries it         *)
(* publishes marked pending and due.                                       *)
LEMMA GrowData ==
    ASSUME NEW kv, PlaneOK(kv), NEW slices, SlicesOK(kv, slices), AllHot(kv, slices), Covered(kv, slices),
           NEW g, ProgressOK(g), DataOK(kv, g), PendingDue(kv, g), g.batch = InBatch(slices),
           \A i \in DOMAIN slices : g.reach[slices[i].req] = Tokens(slices[i]),
           NEW q, q = FoldLeft(GrowAndPublish, kv, slices)
    PROVE  DataOK(q, g) /\ PendingDue(q, g)
<1> DEFINE n == Len(slices)
           p(k) == Growths!Partial({}, {}, kv, slices, k)
           G == {k \in 0 .. n : Growing(kv, p(k), slices, k) /\ DataOK(p(k), g) /\ PendingDue(p(k), g)}
<1>0. slices \in Seq(Range(slices)) /\ DOMAIN slices = 1 .. n /\ n \in Nat BY DEF SlicesOK
<1>ind. Growths!Inductive BY Induction DEF Growths!Inductive
<1>1. p(0) = kv /\ p(n) = Growths!Fold({}, {}, kv, slices) BY <1>0, Growths!FoldEnds, <1>ind
<1>2. ASSUME NEW k \in 0 .. n - 1 PROVE p(k + 1) = GrowAndPublish(p(k), slices[k + 1]) /\ k + 1 \in DOMAIN slices
  <2>1. p(k + 1) = GrowStep({}, {}, p(k), slices[k + 1]) BY <1>0, Growths!FoldStep, <1>ind
  <2>2. k + 1 \in 1 .. n BY <1>0
  <2> QED BY <1>0, <2>1, <2>2 DEF GrowStep
<1> HIDE DEF p
<1>3. 0 \in G
  <2>1. Growing(kv, p(0), slices, 0) BY <1>1 DEF Growing, ClocksKept, OutsidersKept
  <2> QED BY <1>0, <1>1, <2>1
<1>4. ASSUME NEW k \in G, k \in 0 .. n - 1 PROVE k + 1 \in G
  <2> DEFINE a == p(k)
             b == p(k + 1)
             s == slices[k + 1]
  <2>1. Growing(kv, a, slices, k) /\ DataOK(a, g) /\ PendingDue(a, g) /\ b = GrowAndPublish(a, s) BY <1>2, <1>4
  <2>2. s.req \in g.batch /\ g.reach[s.req] = Tokens(s) BY <1>2, <1>4 DEF InBatch
  <2> HIDE DEF a, b
  <2>3. CanGrow(a, s) /\ Growing(kv, b, slices, k + 1) BY <2>1, <1>4, GrowingOn
  <2> HIDE DEF s
  <2>4. PlaneOK(a) BY <2>1 DEF Growing
  <2>5. DataOK(b, g) /\ \A key \in PendingKeys(b) : key \in PendingKeys(a) \/ Completes(g, s.req, key)
    BY <2>1, <2>2, <2>3, <2>4, GrowAndPublishData DEF CanGrow
  <2>6. PendingDue(b, g) BY <2>1, <2>2, <2>5 DEF PendingDue
  <2> QED BY <2>3, <2>5, <2>6, <1>0, <1>4 DEF b
<1>5. n \in G
  <2> HIDE DEF G
  <2>1. \A k \in 0 .. n : k \in G BY <1>0, <1>3, <1>4, Sums!PrefixInduction
  <2> QED BY <2>1, <1>0
<1> QED BY <1>1, <1>5, GrowthsIsFold

(* A reservation keeps the data of every request and of the cache right.   *)
THEOREM ReserveData ==
    ASSUME NEW kv, PlaneOK(kv), NEW slices, SlicesOK(kv, slices), CanReserve(kv, slices),
           NEW g, ProgressOK(g), DataOK(kv, g), PendingDue(kv, g), g.batch = InBatch(slices),
           \A i \in DOMAIN slices : g.reach[slices[i].req] = Tokens(slices[i]),
           NEW p, p = Reserve(kv, slices)
    PROVE  DataOK(p, g) /\ PendingDue(p, g)
<1>1. PICK victims, q, o, in : Staged(kv, slices, p, victims, q, o, in) BY ReserveStages
<1>2. /\ PlaneOK(q) /\ q.req = kv.req /\ q.hotData = kv.hotData /\ q.coldData = kv.coldData
      /\ Range(q.cache) \subseteq Range(kv.cache)
      /\ VictimsOK(q, slices, victims) /\ Moved(q, victims) <= Cardinality(Free(q.cold))
      /\ o = FoldLeft(SwapOut, q, victims)
  BY <1>1 DEF Staged, CacheStep, CacheOnly
<1>3. /\ PlaneOK(o) /\ o.cache = q.cache /\ SlicesOK(o, slices) /\ Covered(o, slices)
  BY <1>1 DEF Staged
<1>17. in = FoldLeft(LAMBDA t, s : SwapIn(t, s.req), o, ColdOf(o, slices)) BY <1>1 DEF Staged
<1>4. /\ PlaneOK(in) /\ AllHot(in, slices) /\ SlicesOK(in, slices) /\ Covered(in, slices)
      /\ p = [FoldLeft(GrowAndPublish, in, slices) EXCEPT !.pending = TRUE]
  BY <1>1 DEF Staged
<1>5. DataOK(q, g) /\ PendingDue(q, g)
  <2>1. Cached(q) \subseteq Cached(kv) /\ PendingKeys(q) \subseteq PendingKeys(kv) BY <1>2, FewerOffered
  <2>2. DataOK(q, g) BY <1>2, <2>1, Offered
  <2> QED BY <2>1, <2>2 DEF PendingDue
<1>6. DataOK(o, g) BY <1>2, <1>5, DepartData
<1>7. PendingDue(o, g) BY <1>3, <1>5 DEF PendingDue, PendingKeys
<1>8. DataOK(in, g) /\ in.cache = o.cache
  <2> DEFINE cold == ColdOf(o, slices)
             a == FoldLeft(LAMBDA t, s : SwapIn(t, s.req), o, cold)
  <2>1. cold = ColdOf(o, slices) OBVIOUS
  <2>2. in = a BY <1>17
  <2> HIDE DEF cold
  <2>3. DataOK(a, g) /\ a.cache = o.cache BY <1>3, <1>6, <2>1, ArriveData
  <2> HIDE DEF a
  <2> QED BY <2>2, <2>3
<1>9. PendingDue(in, g) BY <1>7, <1>8 DEF PendingDue, PendingKeys
<1> DEFINE w == FoldLeft(GrowAndPublish, in, slices)
<1>10. w = FoldLeft(GrowAndPublish, in, slices) /\ p = [w EXCEPT !.pending = TRUE] BY <1>4
<1>11. PlaneOK(w) BY <1>4, GrowAllOK
<1> HIDE DEF w
<1>12. DataOK(w, g) /\ PendingDue(w, g) BY <1>4, <1>8, <1>9, <1>10, GrowData
<1>13. IsRecord(w) BY <1>11, RestIs DEF FieldsOK
<1>14. p.req = w.req /\ p.hotData = w.hotData /\ p.coldData = w.coldData /\ p.cache = w.cache
  BY <1>10, <1>13 DEF IsRecord, Fields
<1>15. Cached(p) \subseteq Cached(w) BY <1>14 DEF Cached
<1>16. DataOK(p, g) BY <1>11, <1>12, <1>14, <1>15, Offered
<1> QED BY <1>12, <1>14, <1>16 DEF PendingDue, PendingKeys

----------------------------------------------------------------------------
(* What a batch writes.                                                    *)

(* The blocks that a slice writes, and what it writes in them.             *)
Writing(kv, s, i) == i \in DOMAIN kv.req[s.req].table /\ ~Full(i, s.begin) /\ i <= BlocksFor(Tokens(s))
WritesTo(kv, s, b) == \E i \in DOMAIN kv.req[s.req].table : Writing(kv, s, i) /\ \E l \in 1 .. Layers : kv.req[s.req].table[i][l] = b

(* A slice writes the blocks of its new tokens in every layer, and no      *)
(* other block.                                                            *)
LEMMA WrittenCells ==
    ASSUME NEW kv, PlaneOK(kv), NEW s, s.req \in Live(kv), IsHot(kv, s.req), s.begin \in Nat, s.count \in Nat,
           Len(kv.req[s.req].table) >= BlocksFor(Tokens(s)), NEW p, p = Written(kv, s)
    PROVE  /\ DataOnly(kv, p) /\ p.coldData = kv.coldData
           /\ \A i \in DOMAIN kv.req[s.req].table : Writing(kv, s, i) =>
                 \A l \in 1 .. Layers :
                     p.hotData[kv.req[s.req].table[i][l]] = Stored(s.req, i, l, Tokens(s))
           /\ \A b \in HotBlocks : ~WritesTo(kv, s, b) => p.hotData[b] = kv.hotData[b]
<1> DEFINE r == s.req
           table == kv.req[r].table
           touched == s.begin \div BlockTokens + 1 .. BlocksFor(Tokens(s))
           place(b) == CHOOSE i \in touched : b \in Range(table[i])
           layer(b) == CHOOSE l \in 1 .. Layers : table[place(b)][l] = b
           cell(b) == Stored(r, place(b), layer(b), Tokens(s))
           given(b) == \E i \in touched : b \in Range(table[i])
<1>1. IsRecord(kv) BY RestIs DEF FieldsOK
<1>2. DataOnly(kv, p) BY <1>1, WrittenIs
<1>3. p.coldData = kv.coldData BY <1>1 DEF Written, IsRecord, Fields
<1>4. p.hotData = [b \in HotBlocks |-> IF given(b) THEN cell(b) ELSE kv.hotData[b]]
  BY <1>1 DEF Written, IsRecord, Fields
<1>5. /\ table \in Seq(HotRows) /\ Distinct(table) /\ DOMAIN table = 1 .. Len(table) /\ Len(table) \in Nat
      /\ \A i \in DOMAIN table : DOMAIN table[i] = 1 .. Layers /\ \A l \in 1 .. Layers : table[i][l] \in HotBlocks
  <2>1. table \in Seq(HotRows) /\ Distinct(table) BY LiveTables
  <2> HIDE DEF table
  <2>2. \A i \in DOMAIN table : table[i] \in HotRows BY <2>1
  <2>3. \A i \in DOMAIN table : DOMAIN table[i] = 1 .. Layers /\ \A l \in 1 .. Layers : table[i][l] \in HotBlocks
    BY <2>2 DEF HotRows
  <2>4. DOMAIN table = 1 .. Len(table) /\ Len(table) \in Nat BY <2>1
  <2> QED BY <2>1, <2>3, <2>4
<1>6. touched \subseteq DOMAIN table /\ \A i \in DOMAIN table : i \in touched <=> Writing(kv, s, i)
  <2> DEFINE q == s.begin \div BlockTokens
             n == BlocksFor(Tokens(s))
             m == Len(table)
  <2>1. Tokens(s) \in Nat BY DEF Tokens
  <2>2. q \in Nat /\ n \in Nat /\ n <= m BY <2>1, BlocksForIs, DivisionIs, SizesAssumption
  <2>3. DOMAIN table = 1 .. m /\ m \in Nat /\ touched = q + 1 .. n BY <1>5
  <2> HIDE DEF q, n, m, touched, table
  <2>4. touched \subseteq 1 .. m BY <2>2, <2>3
  <2>5. \A i \in 1 .. m : i \in touched <=> ~(i <= q) /\ i <= n BY <2>2, <2>3
  <2> QED BY <2>3, <2>4, <2>5 DEF Writing, Full, q, n, table, r
<1> HIDE DEF touched, table
<1>7. ASSUME NEW i \in touched, NEW l \in 1 .. Layers
      PROVE  /\ given(table[i][l]) /\ place(table[i][l]) = i /\ layer(table[i][l]) = l
             /\ table[i][l] \in HotBlocks
  <2>1. i \in DOMAIN table BY <1>6
  <2>2. \A j \in touched : table[i][l] \in Range(table[j]) <=> j = i
    <3> SUFFICES ASSUME NEW j \in touched PROVE table[i][l] \in Range(table[j]) <=> j = i OBVIOUS
    <3>1. j \in DOMAIN table BY <1>6
    <3>2. table[i][l] \in Range(table[i]) BY <1>5, <2>1 DEF Range
    <3>3. ASSUME table[i][l] \in Range(table[j]) PROVE j = i
      <4>1. PICK m \in 1 .. Layers : table[j][m] = table[i][l] BY <1>5, <3>1, <3>3 DEF Range
      <4> QED BY <1>5, <2>1, <3>1, <4>1 DEF Distinct
    <3> QED BY <3>2, <3>3
  <2>3. place(table[i][l]) = i BY <2>2
  <2>4. \A m \in 1 .. Layers : table[i][m] = table[i][l] <=> m = l BY <1>5, <2>1 DEF Distinct
  <2>5. layer(table[i][l]) = l BY <2>3, <2>4
  <2> QED BY <1>5, <2>1, <2>2, <2>3, <2>5
<1>8. \A i \in touched : \A l \in 1 .. Layers : p.hotData[table[i][l]] = Stored(r, i, l, Tokens(s))
  <2> SUFFICES ASSUME NEW i \in touched, NEW l \in 1 .. Layers
               PROVE  p.hotData[table[i][l]] = Stored(r, i, l, Tokens(s))
    OBVIOUS
  <2> DEFINE b == table[i][l]
  <2>1. given(b) /\ place(b) = i /\ layer(b) = l /\ b \in HotBlocks BY <1>7
  <2>2. cell(b) = Stored(r, i, l, Tokens(s)) BY <2>1
  <2> HIDE DEF given, cell, b
  <2>3. p.hotData[b] = cell(b) BY <1>4, <2>1
  <2> QED BY <2>2, <2>3 DEF b
<1>9. ASSUME NEW b \in HotBlocks, ~WritesTo(kv, s, b) PROVE p.hotData[b] = kv.hotData[b]
  <2>1. ~given(b)
    <3> SUFFICES ASSUME given(b) PROVE FALSE OBVIOUS
    <3>1. PICK i \in touched : b \in Range(table[i]) OBVIOUS
    <3>2. i \in DOMAIN table /\ Writing(kv, s, i) BY <1>6
    <3>3. \E l \in 1 .. Layers : table[i][l] = b BY <1>5, <3>1, <3>2 DEF Range
    <3> QED BY <1>9, <3>2, <3>3 DEF WritesTo, table, r
  <2> HIDE DEF given, cell
  <2> QED BY <1>4, <2>1
<1>10. \A i \in DOMAIN table : Writing(kv, s, i) => i \in touched BY <1>6
<1> QED BY <1>2, <1>3, <1>8, <1>9, <1>10 DEF table, r

(* What is written is what its request and those that share it expect, and *)
(* what the keys of the cache stand for.                                   *)
LEMMA WriteData ==
    ASSUME NEW kv, PlaneOK(kv), NEW g, ProgressOK(g), DataOK(kv, g),
           NEW s, s.req \in Live(kv), IsHot(kv, s.req), s.begin \in Nat, s.count \in Nat,
           Len(kv.req[s.req].table) >= BlocksFor(Tokens(s)),
           s.req \in g.todo, s.begin = g.done[s.req], Tokens(s) = g.reach[s.req],
           NEW h, ProgressOK(h), h.todo = g.todo \ {s.req}, h.batch = g.batch, h.reach = g.reach,
           h.done[s.req] = g.reach[s.req], \A r \in Requests \ {s.req} : h.done[r] = g.done[r],
           NEW p, p = Written(kv, s)
    PROVE  DataOK(p, h)
<1> DEFINE w == s.req
           table == kv.req[w].table
<1>1. /\ p.req = kv.req /\ p.cache = kv.cache /\ p.coldData = kv.coldData
      /\ \A i \in DOMAIN table : Writing(kv, s, i) =>
            \A l \in 1 .. Layers : p.hotData[table[i][l]] = Stored(w, i, l, Tokens(s))
      /\ \A b \in HotBlocks : ~WritesTo(kv, s, b) => p.hotData[b] = kv.hotData[b]
  <2>0. /\ PlaneOK(kv) /\ s.req \in Live(kv) /\ IsHot(kv, s.req) /\ s.begin \in Nat /\ s.count \in Nat
        /\ Len(kv.req[s.req].table) >= BlocksFor(Tokens(s)) /\ p = Written(kv, s)
    OBVIOUS
  <2>1. /\ DataOnly(kv, p) /\ p.coldData = kv.coldData
        /\ \A i \in DOMAIN kv.req[s.req].table : Writing(kv, s, i) =>
              \A l \in 1 .. Layers :
                  p.hotData[kv.req[s.req].table[i][l]] = Stored(s.req, i, l, Tokens(s))
        /\ \A b \in HotBlocks : ~WritesTo(kv, s, b) => p.hotData[b] = kv.hotData[b]
    BY ONLY <2>0, WrittenCells
  <2> QED BY <2>1 DEF DataOnly
<1>2. Live(p) = Live(kv) /\ (\A r : IsHot(p, r) = IsHot(kv, r)) /\ Cached(p) = Cached(kv)
  BY <1>1 DEF Live, IsHot, Cached
<1>3. /\ Live(kv) \subseteq Requests /\ w \in Requests /\ SharedByKey(kv)
      /\ \A e \in Range(kv.cache) : ReadsItsKey(kv, e)
  BY RestIs DEF PlaneOK, CacheOK
<1>4. \A r \in Live(kv) : Distinct(kv.req[r].table) /\ DOMAIN kv.req[r].table \subseteq Nat \ {0}
  <2> SUFFICES ASSUME NEW r \in Live(kv)
               PROVE  Distinct(kv.req[r].table) /\ DOMAIN kv.req[r].table \subseteq Nat \ {0}
    OBVIOUS
  <2>1. kv.req[r].table \in Seq(HotRows) \/ kv.req[r].table \in Seq(ColdRows) BY LiveTables
  <2>2. DOMAIN kv.req[r].table \subseteq Nat \ {0} BY <2>1
  <2> QED BY <2>2, LiveTables
<1>5. \A r \in Requests : /\ g.done[r] \in Nat /\ g.reach[r] \in Nat /\ h.done[r] \in Nat /\ h.reach[r] = g.reach[r]
                          /\ g.done[r] <= h.done[r] /\ h.done[r] <= g.reach[r]
  BY <1>3 DEF ProgressOK
<1>6. \A i \in DOMAIN table : Writing(kv, s, i) <=> Due(g, w, i) BY DEF Writing, Due
<1>7. ASSUME NEW b, DueBlock(kv, g, b), ~WritesTo(kv, s, b) PROVE DueBlock(p, h, b)
  <2>1. PICK v \in Live(kv) : IsHot(kv, v) /\ \E i \in DOMAIN kv.req[v].table :
           Due(g, v, i) /\ \E l \in 1 .. Layers : kv.req[v].table[i][l] = b
    BY <1>7 DEF DueBlock
  <2>2. PICK i \in DOMAIN kv.req[v].table : Due(g, v, i) /\ \E l \in 1 .. Layers : kv.req[v].table[i][l] = b
    BY <2>1
  <2>3. v # w BY <1>6, <1>7, <2>2 DEF WritesTo
  <2>4. Due(h, v, i) BY <1>3, <2>2, <2>3 DEF Due
  <2> QED BY <1>1, <1>2, <2>1, <2>2, <2>4 DEF DueBlock
<1>8. \A r \in Live(kv) : IsHot(kv, r) =>
         \A i \in DOMAIN kv.req[r].table : \A l \in 1 .. Layers : kv.req[r].table[i][l] \in HotBlocks
  BY HeldBlocks
<1>9. TablesRight(p, h)
  <2>1. \A r \in Live(kv) : TableRight(kv, g, r) /\ 1 .. BlocksFor(g.done[r]) \subseteq DOMAIN kv.req[r].table
    BY WrittenRows DEF DataOK, TablesRight
  <2>2. TableRight(p, h, w)
    <3>1. BlocksFor(h.done[w]) <= Len(p.req[w].table)
      <4>1. Tokens(s) \in Nat BY DEF Tokens
      <4>2. BlocksFor(Tokens(s)) \in Nat /\ Len(table) \in Nat BY <4>1, BlocksForIs, LiveTables
      <4>3. BlocksFor(h.done[w]) = BlocksFor(Tokens(s)) /\ p.req[w].table = table BY <1>1
      <4> HIDE DEF table
      <4>4. Len(table) >= BlocksFor(Tokens(s)) BY DEF table
      <4> QED BY <4>2, <4>3, <4>4
    <3>2. ASSUME NEW i \in 1 .. BlocksFor(h.done[w]), NEW l \in 1 .. Layers PROVE Reading(p, h, w, i, l)
      <4> DEFINE b == table[i][l]
      <4>1. /\ i \in DOMAIN table /\ i \in Nat \ {0} /\ i <= BlocksFor(Tokens(s))
            /\ DOMAIN table = 1 .. Len(table) /\ Len(table) \in Nat
        <5>1. table \in Seq(HotRows) /\ Len(table) \in Nat BY LiveTables
        <5>2. Tokens(s) \in Nat BY DEF Tokens
        <5>3. BlocksFor(Tokens(s)) \in Nat BY <5>2, BlocksForIs
        <5> DEFINE n == BlocksFor(Tokens(s))
                   m == Len(table)
        <5>4. i \in 1 .. n /\ n <= m /\ n \in Nat /\ m \in Nat BY <3>2, <5>1, <5>3
        <5>5. DOMAIN table = 1 .. m BY <5>1
        <5> HIDE DEF n, m
        <5>6. i \in 1 .. m /\ i \in Nat \ {0} /\ i <= n BY <5>4
        <5> QED BY <5>4, <5>5, <5>6 DEF n, m
      <4>2. CASE Writing(kv, s, i)
        <5>1. p.hotData[b] = Stored(w, i, l, Tokens(s)) BY <1>1, <4>1, <4>2
        <5> QED BY <1>1, <1>2, <5>1 DEF Reading
      <4>3. CASE ~Writing(kv, s, i)
        <5>1. Full(i, g.done[w]) BY <4>1, <4>3 DEF Writing
        <5>2. i <= BlocksFor(g.done[w]) /\ Full(i, g.reach[w]) BY <1>3, <1>5, <4>1, <5>1, FullIs
        <5>3. i \in 1 .. BlocksFor(g.done[w])
          <6>1. BlocksFor(g.done[w]) \in Nat BY <1>3, <1>5, BlocksForIs
          <6> DEFINE n == BlocksFor(g.done[w])
          <6>2. i <= n /\ n \in Nat /\ i \in Nat \ {0} BY <4>1, <5>2, <6>1
          <6> HIDE DEF n
          <6>3. i \in 1 .. n BY <6>2
          <6> QED BY <6>3 DEF n
        <5>4. Reading(kv, g, w, i, l) BY <2>1, <5>3 DEF TableRight
        <5>5. Stored(w, i, l, g.done[w]) = Stored(w, i, l, g.reach[w]) BY <1>3, <1>5, <4>1, <5>1, <5>2, FullStored
        <5>6. ~WritesTo(kv, s, b)
          <6> SUFFICES ASSUME NEW j \in DOMAIN table, Writing(kv, s, j), NEW m \in 1 .. Layers, table[j][m] = b
                       PROVE  FALSE
            BY DEF WritesTo
          <6>1. Distinct(table) /\ i \in DOMAIN table /\ table[i][l] = table[j][m] BY <1>4, <4>1
          <6> HIDE DEF table
          <6>2. j = i BY <6>1 DEF Distinct
          <6> QED BY <4>3, <6>2
        <5>7. p.hotData[b] = kv.hotData[b] BY <1>1, <1>8, <4>1, <5>6
        <5>8. DueBlock(kv, g, b) => DueBlock(p, h, b) BY <1>7, <5>6
        <5> QED BY <1>1, <1>2, <5>4, <5>5, <5>7, <5>8 DEF Reading
      <4> QED BY <4>2, <4>3
    <3> QED BY <3>1, <3>2 DEF TableRight
  <2>3. ASSUME NEW r \in Live(kv), r # w PROVE TableRight(p, h, r)
    <3>1. h.done[r] = g.done[r] BY <1>3, <2>3
    <3>2. ASSUME NEW i \in 1 .. BlocksFor(g.done[r]), NEW l \in 1 .. Layers PROVE Reading(p, h, r, i, l)
      <4> DEFINE b == kv.req[r].table[i][l]
      <4>1. Reading(kv, g, r, i, l) /\ i \in DOMAIN kv.req[r].table BY <2>1, <3>2 DEF TableRight
      <4>2. CASE ~IsHot(kv, r) BY <1>1, <1>2, <3>1, <4>1, <4>2 DEF Reading
      <4>3. CASE IsHot(kv, r) /\ ~WritesTo(kv, s, b)
        <5>1. p.hotData[b] = kv.hotData[b] BY <1>1, <1>8, <4>1, <4>3
        <5>2. DueBlock(kv, g, b) => DueBlock(p, h, b) BY <1>7, <4>3
        <5> QED BY <1>1, <1>2, <3>1, <4>1, <4>3, <5>1, <5>2 DEF Reading
      <4>4. CASE IsHot(kv, r) /\ WritesTo(kv, s, b)
        <5>1. PICK j \in DOMAIN table : Writing(kv, s, j) /\ \E m \in 1 .. Layers : table[j][m] = b
          BY <4>4 DEF WritesTo
        <5>2. PICK m \in 1 .. Layers : table[j][m] = b BY <5>1
        <5>3. SharedRight(kv, g, r, w) BY <2>3, <4>4 DEF DataOK, SharesRight
        <5>4. Full(j, g.reach[w]) /\ (Full(i, g.done[r]) \/ Full(j, g.done[w])) BY <4>1, <5>2, <5>3 DEF SharedRight
        <5>5. Full(i, g.done[r]) BY <5>1, <5>4 DEF Writing
        <5>6. l = m /\ i \in 1 .. Len(Content[r]) /\ NamesKey(w, j, Key(r, i))
          BY <1>3, <2>3, <4>1, <4>4, <5>2 DEF SharedByKey
        <5>7. NamesKey(r, i, Key(r, i)) BY <5>6 DEF NamesKey
        <5>8. Stored(w, j, l, g.reach[w]) = EntryCell(Key(r, i), l) BY <1>3, <1>5, <5>4, <5>6, FullEntry
        <5>9. Stored(r, i, l, g.done[r]) = EntryCell(Key(r, i), l) BY <1>3, <1>5, <5>5, <5>7, FullEntry
        <5>10. p.hotData[b] = Stored(w, j, m, Tokens(s)) BY <1>1, <5>1, <5>2
        <5>11. p.hotData[b] = Stored(r, i, l, h.done[r])
          <6>1. Stored(w, j, m, Tokens(s)) = Stored(w, j, l, g.reach[w]) BY <5>6
          <6> QED BY <3>1, <5>8, <5>9, <5>10, <6>1
        <5> QED BY <1>1, <1>2, <4>4, <5>11 DEF Reading
      <4> QED BY <4>2, <4>3, <4>4
    <3> QED BY <1>1, <2>1, <3>1, <3>2 DEF TableRight
  <2> QED BY <1>2, <2>2, <2>3 DEF TablesRight
<1>10. \A r \in Live(kv) : \A i \in DOMAIN kv.req[r].table : Full(i, g.done[r]) => Full(i, h.done[r])
  <2> SUFFICES ASSUME NEW r \in Live(kv), NEW i \in DOMAIN kv.req[r].table, Full(i, g.done[r])
               PROVE  Full(i, h.done[r])
    OBVIOUS
  <2>1. i \in Nat BY <1>4
  <2> QED BY <1>3, <1>5, <2>1, FullIs
<1>11. SharesRight(p, h)
  <2> SUFFICES ASSUME NEW r \in Live(kv), NEW v \in Live(kv), r # v, IsHot(kv, r), IsHot(kv, v)
               PROVE  SharedRight(p, h, r, v)
    BY <1>2 DEF SharesRight
  <2>1. SharedRight(kv, g, r, v) BY DEF DataOK, SharesRight
  <2> SUFFICES ASSUME NEW i \in DOMAIN p.req[r].table, NEW j \in DOMAIN p.req[v].table,
                      NEW l \in 1 .. Layers, NEW m \in 1 .. Layers, p.req[r].table[i][l] = p.req[v].table[j][m]
               PROVE  /\ Full(i, h.reach[r]) /\ Full(j, h.reach[v])
                      /\ Full(i, h.done[r]) \/ Full(j, h.done[v])
    BY DEF SharedRight
  <2>2. p.req = kv.req BY <1>1
  <2>3. /\ Full(i, g.reach[r]) /\ Full(j, g.reach[v])
        /\ Full(i, g.done[r]) \/ Full(j, g.done[v])
    BY <2>1, <2>2 DEF SharedRight
  <2> QED BY <1>10, <2>2, <2>3
<1>12. CacheRight(p, h)
  <2> SUFFICES ASSUME NEW c \in Cached(kv)
               PROVE  /\ EntryRight(p, h, c[1], c[2])
                      /\ \A r \in Live(kv) : IsHot(kv, r) => CachedRight(p, h, r, c[2])
    BY <1>2 DEF CacheRight
  <2>1. /\ EntryRight(kv, g, c[1], c[2])
        /\ \A r \in Live(kv) : IsHot(kv, r) => CachedRight(kv, g, r, c[2])
    BY DEF DataOK, CacheRight
  <2>2. \A r \in Live(kv) : IsHot(kv, r) => CachedRight(p, h, r, c[2]) BY <1>1, <2>1 DEF CachedRight
  <2>3. ASSUME NEW l \in 1 .. Layers
        PROVE  p.hotData[c[2][l]] = EntryCell(c[1], l) \/ DueBlock(p, h, c[2][l])
    <3> DEFINE b == c[2][l]
    <3>1. b \in HotBlocks BY HeldBlocks
    <3>2. kv.hotData[b] = EntryCell(c[1], l) \/ DueBlock(kv, g, b) BY <2>1 DEF EntryRight
    <3>3. CASE ~WritesTo(kv, s, b) BY <1>1, <1>7, <3>1, <3>2, <3>3
    <3>4. CASE WritesTo(kv, s, b)
      <4>1. PICK j \in DOMAIN table : Writing(kv, s, j) /\ \E m \in 1 .. Layers : table[j][m] = b
        BY <3>4 DEF WritesTo
      <4>2. PICK m \in 1 .. Layers : table[j][m] = b BY <4>1
      <4>3. PICK e \in Range(kv.cache) : c = <<e.key, e.blocks>> BY DEF Cached
      <4>4. c[1] = e.key /\ c[2] = e.blocks BY <4>3
      <4>5. ReadsItsKey(kv, e) BY <1>3
      <4>6. m = l /\ NamesKey(w, j, c[1]) BY <4>2, <4>4, <4>5 DEF ReadsItsKey
      <4>7. Full(j, g.reach[w]) BY <2>1, <4>2 DEF CachedRight
      <4>8. Stored(w, j, l, g.reach[w]) = EntryCell(c[1], l) BY <1>3, <1>5, <4>6, <4>7, FullEntry
      <4>9. p.hotData[b] = Stored(w, j, m, Tokens(s)) BY <1>1, <4>1, <4>2
      <4> QED BY <4>6, <4>8, <4>9
    <3> QED BY <3>3, <3>4
  <2> QED BY <2>2, <2>3 DEF EntryRight
<1> QED BY <1>9, <1>11, <1>12 DEF DataOK

----------------------------------------------------------------------------
(* Data when all slices of a batch are written.                            *)

(* Progress when the slices of the requests in D are written.              *)
Wrote(g, D) ==
    [batch |-> g.batch, todo |-> g.todo \ D,
     done |-> [r \in Requests |-> IF r \in D THEN g.reach[r] ELSE g.done[r]], reach |-> g.reach]
Served(slices, k) == {slices[i].req : i \in 1 .. k}

(* Progress after some slices are written is a progress, and before any is *)
(* written it is the one of the batch.                                     *)
LEMMA WroteIs ==
    ASSUME NEW g, ProgressOK(g), NEW D, D \subseteq g.batch
    PROVE  ProgressOK(Wrote(g, D)) /\ SameProgress(g, Wrote(g, {}), {})
BY DEF ProgressOK, Wrote, SameProgress

(* From a to b one request more has its slice written.                     *)
WritesOne(g, a, b, r) ==
    /\ r \in a.todo /\ b.todo = a.todo \ {r} /\ b.batch = a.batch
    /\ b.reach = a.reach /\ a.reach = g.reach
    /\ b.done[r] = a.reach[r] /\ a.done[r] = g.done[r]
    /\ \A s \in Requests \ {r} : b.done[s] = a.done[s]

(* Writing the slice of one request more takes its tokens from done to     *)
(* reach.                                                                  *)
LEMMA WroteOne ==
    ASSUME NEW g, ProgressOK(g), NEW D, NEW r \in Requests, r \notin D, r \in g.todo
    PROVE  WritesOne(g, Wrote(g, D), Wrote(g, D \cup {r}), r)
BY DEF Wrote, ProgressOK, WritesOne

(* What the slices of a batch say of its progress.                         *)
Describes(g, slices) ==
    /\ g.batch = InBatch(slices) /\ g.todo = InBatch(slices)
    /\ \A i \in DOMAIN slices : /\ slices[i].begin = g.done[slices[i].req]
                                /\ Tokens(slices[i]) = g.reach[slices[i].req]

(* When all the slices are written the data is right with nothing due.     *)
LEMMA WriteAllData ==
    ASSUME NEW kv, PlaneOK(kv), NEW slices, SlicesOK(kv, slices), Mappable(kv, slices),
           NEW g, ProgressOK(g), Describes(g, slices), DataOK(kv, g),
           NEW w, w = FoldLeft(Written, kv, slices)
    PROVE  DataOK(w, Wrote(g, InBatch(slices)))
<1> DEFINE n == Len(slices)
           p(k) == Writes!Partial({}, {}, kv, slices, k)
           G == {k \in 0 .. n : DataOnly(kv, p(k)) /\ DataOK(p(k), Wrote(g, Served(slices, k)))}
<1>0. slices \in Seq(Range(slices)) /\ DOMAIN slices = 1 .. n /\ n \in Nat BY DEF SlicesOK
<1>ind. Writes!Inductive BY Induction DEF Writes!Inductive
<1>1. p(0) = kv /\ p(n) = Writes!Fold({}, {}, kv, slices) BY <1>0, Writes!FoldEnds, <1>ind
<1>2. ASSUME NEW k \in 0 .. n - 1 PROVE p(k + 1) = Written(p(k), slices[k + 1]) /\ k + 1 \in DOMAIN slices
  <2>1. p(k + 1) = WriteStep({}, {}, p(k), slices[k + 1]) BY <1>0, Writes!FoldStep, <1>ind
  <2>2. k + 1 \in 1 .. n BY <1>0
  <2> QED BY <1>0, <2>1, <2>2 DEF WriteStep
<1>11. IsRecord(kv) BY RestIs DEF FieldsOK
<1>12. Served(slices, n) = InBatch(slices) BY <1>0 DEF Served, InBatch
<1> HIDE DEF p
<1>3. 0 \in G
  <2>1. Served(slices, 0) = {} BY DEF Served
  <2>2. SameProgress(g, Wrote(g, {}), {}) /\ ProgressOK(Wrote(g, {})) BY WroteIs
  <2>3. Elsewhere(kv, kv, {}) BY DEF Elsewhere
  <2>4. DuesKept(kv, g, kv, Wrote(g, {}), {}) BY DEF DuesKept
  <2>5. \A r \in {} \cap Live(kv) : OwnRight(kv, Wrote(g, {}), r) OBVIOUS
  <2>6. DataOK(kv, Wrote(g, {})) BY <2>2, <2>3, <2>4, <2>5, Carried
  <2>7. DataOnly(kv, kv) BY <1>11 DEF DataOnly
  <2>8. DataOK(p(0), Wrote(g, Served(slices, 0))) BY <1>1, <2>1, <2>6
  <2>9. DataOnly(kv, p(0)) /\ 0 \in 0 .. n BY <1>0, <1>1, <2>7
  <2> QED BY <2>8, <2>9
<1>4. ASSUME NEW k \in G, k \in 0 .. n - 1 PROVE k + 1 \in G
  <2> DEFINE a == p(k)
             b == p(k + 1)
             s == slices[k + 1]
             r == s.req
             D == Served(slices, k)
             m == Wrote(g, D)
             h == Wrote(g, D \cup {r})
  <2>1. DataOnly(kv, a) /\ DataOK(a, m) /\ b = Written(a, s) /\ k + 1 \in DOMAIN slices BY <1>2, <1>4
  <2>2. /\ r \in Live(kv) /\ s.begin \in Nat /\ s.count \in Nat /\ IsHot(kv, r)
        /\ Len(kv.req[r].table) >= BlocksFor(Tokens(s))
        /\ r \in InBatch(slices) /\ s.begin = g.done[r] /\ Tokens(s) = g.reach[r]
    BY <2>1 DEF SlicesOK, Mappable, InBatch, Describes
  <2>3. k \in Nat /\ 1 .. k + 1 = 1 .. k \cup {k + 1} /\ k + 1 \notin 1 .. k /\ 1 .. k \subseteq DOMAIN slices
    BY <1>0, <1>4
  <2>4. Served(slices, k + 1) = D \cup {r} BY <2>3 DEF Served
  <2>5. r \notin D /\ D \subseteq g.batch
    <3>1. ASSUME NEW i \in 1 .. k, slices[i].req = r PROVE FALSE
      <4>1. i = k + 1 BY <2>1, <2>3, <3>1 DEF SlicesOK
      <4> QED BY <4>1, <2>3
    <3>2. D \subseteq g.batch BY <2>3 DEF Describes, Served, InBatch
    <3> QED BY <3>1, <3>2 DEF Served
  <2>6. r \in g.todo \ D /\ r \in Requests BY <2>2, <2>5, RestIs DEF Describes
  <2>7. DataOnly(kv, b)
    <3> HIDE DEF s, b, a
    <3>1. IsRecord(a) BY <2>1 DEF DataOnly
    <3>2. DataOnly(a, b) BY <3>1, <2>1, WrittenIs
    <3> QED BY <2>1, <3>2 DEF DataOnly
  <2> HIDE DEF a, b, s, D
  <2>8. PlaneOK(a) /\ r \in Live(a) /\ IsHot(a, r) /\ Len(a.req[r].table) >= BlocksFor(Tokens(s))
    <3>1. kv.clock \in Nat /\ kv.batchId \in Nat BY RestIs DEF FieldsOK
    <3>2. PlaneOK(a) /\ Live(a) = Live(kv) BY <2>1, <3>1, Relabelled DEF DataOnly
    <3> QED BY <2>1, <2>2, <3>2 DEF DataOnly, IsHot
  <2>9. ProgressOK(m) BY <2>5, WroteIs
  <2>10. ProgressOK(h)
    <3>1. D \cup {r} \subseteq g.batch BY <2>5, <2>6 DEF ProgressOK
    <3> QED BY <3>1, WroteIs
  <2>15. r \in g.todo /\ r \in Requests /\ r \notin D BY <2>5, <2>6
  <2> HIDE DEF r
  <2>16. WritesOne(g, m, h, r) BY <2>15, WroteOne
  <2> HIDE DEF m, h
  <2>11. /\ r \in m.todo /\ h.todo = m.todo \ {r} /\ h.batch = m.batch /\ h.reach = m.reach /\ m.reach = g.reach
         /\ h.done[r] = m.reach[r] /\ m.done[r] = g.done[r]
         /\ \A x \in Requests \ {r} : h.done[x] = m.done[x]
    BY <2>16 DEF WritesOne
  <2>13. s.begin = m.done[r] /\ Tokens(s) = m.reach[r] BY <2>2, <2>11
  <2>14. DataOK(b, h)
    <3> USE DEF r
    <3> QED BY <2>1, <2>2, <2>8, <2>9, <2>10, <2>11, <2>13, WriteData
  <2>18. DataOK(p(k + 1), Wrote(g, Served(slices, k + 1))) BY <2>4, <2>14 DEF b, h
  <2>17. DataOnly(kv, p(k + 1)) /\ k + 1 \in 0 .. n BY <2>7, <1>0, <1>4 DEF b
  <2> QED BY <2>18, <2>17
<1>5. n \in G
  <2> HIDE DEF G
  <2>1. \A k \in 0 .. n : k \in G BY <1>0, <1>3, <1>4, Sums!PrefixInduction
  <2> QED BY <2>1, <1>0
<1> QED BY <1>1, <1>5, <1>12, WritesIsFold

(* With nothing due the batch does not matter.                             *)
LEMMA RestedData ==
    ASSUME NEW kv, NEW g, g.todo = {}, DataOK(kv, g), Live(kv) \subseteq Requests,
           NEW h, h.todo = {}, \A r \in Requests : h.done[r] = g.done[r] /\ h.reach[r] = g.reach[r]
    PROVE  DataOK(kv, h)
<1>1. \A b : ~DueBlock(kv, g, b) /\ ~DueBlock(kv, h, b) BY DEF DueBlock, Due
<1>2. \A r \in Live(kv) : h.done[r] = g.done[r] /\ h.reach[r] = g.reach[r] OBVIOUS
<1>3. TablesRight(kv, h)
  <2> SUFFICES ASSUME NEW r \in Live(kv) PROVE TableRight(kv, h, r) BY DEF TablesRight
  <2>1. TableRight(kv, g, r) BY DEF DataOK, TablesRight
  <2> QED BY <1>1, <1>2, <2>1 DEF TableRight, Reading
<1>4. SharesRight(kv, h)
  <2> SUFFICES ASSUME NEW r \in Live(kv), NEW s \in Live(kv), r # s, IsHot(kv, r), IsHot(kv, s)
               PROVE  SharedRight(kv, h, r, s)
    BY DEF SharesRight
  <2>1. SharedRight(kv, g, r, s) BY DEF DataOK, SharesRight
  <2> QED BY <1>2, <2>1 DEF SharedRight
<1>5. CacheRight(kv, h)
  <2> SUFFICES ASSUME NEW c \in Cached(kv)
               PROVE  /\ EntryRight(kv, h, c[1], c[2])
                      /\ \A r \in Live(kv) : IsHot(kv, r) => CachedRight(kv, h, r, c[2])
    BY DEF CacheRight
  <2>1. /\ EntryRight(kv, g, c[1], c[2])
        /\ \A r \in Live(kv) : IsHot(kv, r) => CachedRight(kv, g, r, c[2])
    BY DEF DataOK, CacheRight
  <2> QED BY <1>1, <1>2, <2>1 DEF EntryRight, CachedRight
<1> QED BY <1>3, <1>4, <1>5 DEF DataOK

----------------------------------------------------------------------------
(* Data when a batch is published and completed.                           *)

(* Publication of the prompt blocks a written slice completes: what it     *)
(* marked pending is pending no more.                                      *)
CompletedData(kv, p, g, r) ==
    /\ DataOK(p, g) /\ PendingKeys(p) \subseteq PendingKeys(kv)
    /\ \A key \in PendingKeys(p) : ~Completes(g, r, key)

(* Publishing the blocks that a written slice completes keeps the data     *)
(* right and leaves none of them pending.                                  *)
LEMMA PublishCompletedData ==
    ASSUME NEW kv, PlaneOK(kv), NEW g, ProgressOK(g), DataOK(kv, g),
           NEW s, s.req \in Live(kv), s.begin \in Nat, s.count \in Nat, g.reach[s.req] = Tokens(s),
           IsHot(kv, s.req), Len(kv.req[s.req].table) >= BlocksFor(Tokens(s)),
           NEW p, p = PublishCompleted(kv, s)
    PROVE  CompletedData(kv, p, g, s.req)
<1> DEFINE r == s.req
           t == AtMost(Tokens(s), Prompt[r])
           complete == t \div BlockTokens
           L == Len(Content[r])
           z == AtMost(complete, L)
<1>1. Tokens(s) \in Nat BY DEF Tokens
<1>2. r \in Live(kv) /\ r \in Requests /\ Len(kv.req[r].table) \in Nat /\ kv.clock \in Nat
  BY LiveTables, RestIs DEF FieldsOK
<1>3. p = IF CacheBlocks > 0 THEN Publish(kv, r, complete, kv.clock, FALSE) ELSE kv BY DEF PublishCompleted
<1>4. g.reach[r] = Tokens(s) /\ IsHot(kv, r) /\ Len(kv.req[r].table) >= BlocksFor(Tokens(s)) OBVIOUS
<1> HIDE DEF r
<1>5. complete \in Nat /\ complete <= Len(kv.req[r].table)
  <2>1. complete \in Nat /\ complete <= BlocksFor(Tokens(s)) /\ BlocksFor(Tokens(s)) \in Nat BY <1>1, <1>2, BlocksForIs
  <2> HIDE DEF complete
  <2> QED BY <2>1, <1>2, <1>4
<1>6. Prompt[r] \in Nat /\ L \in Nat /\ L \in {0, Prompt[r] \div BlockTokens} BY <1>2, RequestsAssumption
<1>7. t \in Nat /\ t <= Tokens(s) /\ (t = Tokens(s) \/ t = Prompt[r]) BY <1>1, <1>6 DEF AtMost
<1> HIDE DEF t
<1>8. Full(complete, g.reach[r])
  <2>1. t \div BlockTokens <= Tokens(s) \div BlockTokens BY <1>1, <1>7, SizesAssumption, DivisionGrows
  <2> QED BY <2>1, <1>4 DEF Full
<1>9. CASE CacheBlocks > 0
  <2> DEFINE now == kv.clock
  <2>1. p = Publish(kv, r, complete, now, FALSE) /\ now \in Int /\ FALSE \in BOOLEAN BY <1>2, <1>3, <1>9
  <2>2. z = AtMost(complete, L) OBVIOUS
  <2> HIDE DEF complete, z, now
  <2>3. DataOK(p, g) BY <1>2, <1>4, <1>5, <1>8, <2>1, PublishData
  <2>4. Offers(kv, p, r, z, FALSE) BY <1>2, <1>4, <1>5, <2>1, <2>2, PublishOffers
  <2>5. PendingKeys(p) \subseteq PendingKeys(kv) BY <2>4 DEF Offers
  <2>6. \A i \in 1 .. z : Key(r, i) \notin PendingKeys(p) BY <2>4 DEF Offers
  <2>7. ASSUME NEW i \in 1 .. L, Full(i, g.reach[r]) PROVE i \in 1 .. z
    <3> DEFINE a == Tokens(s) \div BlockTokens
               b == Prompt[r] \div BlockTokens
    <3>1. a \in Nat /\ b \in Nat BY <1>1, <1>6, SizesAssumption, DivisionIs
    <3>2. complete = a \/ complete = b BY <1>7 DEF complete
    <3>3. i <= a BY <1>4, <2>7 DEF Full
    <3>4. L \in {0, b} BY <1>6
    <3> HIDE DEF a, b, L
    <3>5. i \in Nat \ {0} /\ i <= L BY <1>6, <2>7
    <3>6. i <= complete BY <3>1, <3>2, <3>3, <3>4, <3>5
    <3>7. i <= z /\ z \in Nat BY <1>5, <1>6, <2>2, <3>5, <3>6 DEF AtMost
    <3> QED BY <3>5, <3>7
  <2>8. \A key \in PendingKeys(p) : ~Completes(g, r, key) BY <2>6, <2>7 DEF Completes
  <2> QED BY <2>3, <2>5, <2>8 DEF CompletedData, r
<1>10. CASE ~(CacheBlocks > 0)
  <2>1. p = kv BY <1>3, <1>10
  <2>2. CacheBlocks = 0 BY <1>10, SizesAssumption
  <2>3. CacheBlocks \div Layers = 0 BY <2>2, SizesAssumption
  <2>4. Len(kv.cache) <= 0 /\ kv.cache \in Seq(Entries) BY <2>3, PlaneParts, RestIs DEF CacheFits
  <2>5. Range(kv.cache) = {} BY <2>4 DEF Range
  <2>6. PendingKeys(kv) = {} BY <2>5 DEF PendingKeys
  <2> QED BY <2>1, <2>6 DEF CompletedData
<1> QED BY <1>9, <1>10

(* When every slice of a batch is published the data is right and nothing  *)
(* the batch completes is pending.                                         *)
LEMMA CompleteAllData ==
    ASSUME NEW kv, PlaneOK(kv), NEW slices, SlicesOK(kv, slices), Mappable(kv, slices),
           NEW g, ProgressOK(g), DataOK(kv, g), \A i \in DOMAIN slices : g.reach[slices[i].req] = Tokens(slices[i]),
           NEW p, p = FoldLeft(PublishCompleted, kv, slices)
    PROVE  /\ DataOK(p, g) /\ PendingKeys(p) \subseteq PendingKeys(kv)
           /\ \A key \in PendingKeys(p) : \A r \in InBatch(slices) : ~Completes(g, r, key)
<1> DEFINE n == Len(slices)
           q(k) == Completions!Partial({}, {}, kv, slices, k)
           None(k) == \A key \in PendingKeys(q(k)) : \A i \in 1 .. k : ~Completes(g, slices[i].req, key)
           G == {k \in 0 .. n : /\ CacheStep(kv, q(k)) /\ DataOK(q(k), g)
                                /\ PendingKeys(q(k)) \subseteq PendingKeys(kv) /\ None(k)}
<1>0. slices \in Seq(Range(slices)) /\ DOMAIN slices = 1 .. n /\ n \in Nat BY DEF SlicesOK
<1>ind. Completions!Inductive BY Induction DEF Completions!Inductive
<1>1. q(0) = kv /\ q(n) = Completions!Fold({}, {}, kv, slices) BY <1>0, Completions!FoldEnds, <1>ind
<1>2. ASSUME NEW k \in 0 .. n - 1 PROVE q(k + 1) = PublishCompleted(q(k), slices[k + 1]) /\ k + 1 \in DOMAIN slices
  <2>1. q(k + 1) = CompletionStep({}, {}, q(k), slices[k + 1]) BY <1>0, Completions!FoldStep, <1>ind
  <2>2. k + 1 \in 1 .. n BY <1>0
  <2> QED BY <1>0, <2>1, <2>2 DEF CompletionStep
<1>6. p = q(n) BY <1>1, CompletionsIsFold
<1> HIDE DEF q
<1>3. 0 \in G
  <2>1. None(0) OBVIOUS
  <2> HIDE DEF None
  <2>2. CacheStep(kv, q(0)) BY <1>1, CacheOnlyItself DEF CacheStep
  <2> QED BY <2>1, <2>2, <1>0, <1>1
<1>4. ASSUME NEW k \in G, k \in 0 .. n - 1 PROVE k + 1 \in G
  <2> DEFINE a == q(k)
             b == q(k + 1)
             s == slices[k + 1]
  <2>1. /\ PlaneOK(a) /\ CacheOnly(kv, a) /\ DataOK(a, g) /\ PendingKeys(a) \subseteq PendingKeys(kv)
        /\ \A key \in PendingKeys(a) : \A i \in 1 .. k : ~Completes(g, slices[i].req, key)
    BY <1>4 DEF CacheStep
  <2>2. b = PublishCompleted(a, s) /\ k + 1 \in DOMAIN slices BY <1>2, <1>4
  <2>3. /\ s.req \in Live(kv) /\ s.begin \in Nat /\ s.count \in Nat /\ g.reach[s.req] = Tokens(s)
        /\ IsHot(kv, s.req) /\ Len(kv.req[s.req].table) >= BlocksFor(Tokens(s))
    BY <2>2 DEF SlicesOK, Mappable
  <2>10. k \in Nat /\ \A i \in 1 .. k + 1 : i \in 1 .. k \/ i = k + 1 BY <1>0, <1>4
  <2> HIDE DEF a, b, s
  <2>4. a.req = kv.req BY <2>1 DEF CacheOnly
  <2>5. s.req \in Live(a) /\ IsHot(a, s.req) /\ Len(a.req[s.req].table) >= BlocksFor(Tokens(s))
    BY <2>3, <2>4 DEF Live, IsHot
  <2>6. CacheStep(a, b) BY <2>1, <2>2, <2>3, <2>5, PublishCompletedOK
  <2>7. CacheStep(kv, b) BY <2>1, <2>6, CacheOnlyTransitive DEF CacheStep
  <2>8. CompletedData(a, b, g, s.req) BY <2>1, <2>2, <2>3, <2>5, PublishCompletedData
  <2>9. DataOK(b, g) /\ PendingKeys(b) \subseteq PendingKeys(a) /\ \A key \in PendingKeys(b) : ~Completes(g, s.req, key)
    BY <2>8 DEF CompletedData
  <2>11. \A key \in PendingKeys(b) : \A i \in 1 .. k + 1 : ~Completes(g, slices[i].req, key)
    BY <2>1, <2>9, <2>10 DEF s
  <2>12. PendingKeys(b) \subseteq PendingKeys(kv) BY <2>1, <2>9
  <2>13. None(k + 1) BY <2>11 DEF b
  <2> HIDE DEF None
  <2>14. CacheStep(kv, q(k + 1)) /\ DataOK(q(k + 1), g) /\ PendingKeys(q(k + 1)) \subseteq PendingKeys(kv)
    BY <2>7, <2>9, <2>12 DEF b
  <2> QED BY <2>13, <2>14, <1>0, <1>4
<1>5. n \in G
  <2> HIDE DEF G
  <2>1. \A k \in 0 .. n : k \in G BY <1>0, <1>3, <1>4, Sums!PrefixInduction
  <2> QED BY <2>1, <1>0
<1>7. \A key \in PendingKeys(p) : \A i \in 1 .. n : ~Completes(g, slices[i].req, key) BY <1>5, <1>6
<1>8. \A r \in InBatch(slices) : \E i \in 1 .. n : slices[i].req = r BY <1>0 DEF InBatch
<1> QED BY <1>5, <1>6, <1>7, <1>8

(* A batch leaves the data of every request and of the cache right, with   *)
(* nothing due and nothing pending.                                        *)
THEOREM ExecuteData ==
    ASSUME NEW kv, PlaneOK(kv), NEW slices, SlicesOK(kv, slices), Mappable(kv, slices),
           NEW g, ProgressOK(g), Describes(g, slices), DataOK(kv, g), PendingDue(kv, g),
           NEW p, p = Execute(kv, slices)
    PROVE  DataOK(p, Wrote(g, InBatch(slices))) /\ PendingKeys(p) = {}
<1> DEFINE m == [kv EXCEPT !.pending = FALSE, !.batchId = @ + 1, !.clock = IF Ttl = 0 THEN @ ELSE @ + 1]
           w == FoldLeft(Written, m, slices)
           h == Wrote(g, InBatch(slices))
<1>0. FieldsOK(kv) /\ slices \in Seq(Range(slices)) BY RestIs DEF SlicesOK
<1>1. /\ IsRecord(m) /\ m.req = kv.req /\ m.hot = kv.hot /\ m.cold = kv.cold /\ m.cache = kv.cache
      /\ m.hotData = kv.hotData /\ m.coldData = kv.coldData
      /\ m.nextOrder = kv.nextOrder /\ m.clock \in Nat /\ m.batchId \in Nat
  BY <1>0 DEF FieldsOK, IsRecord, Fields
<1>2. p = FoldLeft(PublishCompleted, w, slices) BY DEF Execute
<1> HIDE DEF m
<1>3. DataOnly(m, w) BY <1>0, <1>1, WriteAllIs
<1>4. PlaneOK(m) /\ Live(m) = Live(kv) BY <1>1, Relabelled
<1>5. Cached(m) \subseteq Cached(kv) BY <1>1 DEF Cached
<1>6. DataOK(m, g) BY <1>1, <1>5, Offered
<1>7. SlicesOK(m, slices) /\ Mappable(m, slices) BY <1>1, <1>4 DEF SlicesOK, Mappable, IsHot
<1>8. DataOK(w, h) BY <1>4, <1>6, <1>7, WriteAllData
<1> HIDE DEF w
<1>9. PlaneOK(w) /\ Live(w) = Live(kv) /\ w.req = kv.req BY <1>1, <1>3, Relabelled DEF DataOnly
<1>10. SlicesOK(w, slices) /\ Mappable(w, slices) BY <1>9 DEF SlicesOK, Mappable, IsHot
<1>11. ProgressOK(h) /\ h.reach = g.reach
  <2>1. InBatch(slices) \subseteq g.batch BY DEF Describes
  <2>2. ProgressOK(h) BY <2>1, WroteIs
  <2> QED BY <2>2 DEF Wrote
<1>12. \A i \in DOMAIN slices : h.reach[slices[i].req] = Tokens(slices[i]) BY <1>11 DEF Describes
<1> HIDE DEF h
<1>13. /\ DataOK(p, h) /\ PendingKeys(p) \subseteq PendingKeys(w)
       /\ \A key \in PendingKeys(p) : \A r \in InBatch(slices) : ~Completes(h, r, key)
  BY <1>2, <1>8, <1>9, <1>10, <1>11, <1>12, CompleteAllData
<1>14. PendingKeys(w) = PendingKeys(kv) BY <1>1, <1>3 DEF PendingKeys, DataOnly
<1>15. \A key \in PendingKeys(kv) : \E r \in InBatch(slices) : Completes(g, r, key)
  BY DEF PendingDue, Describes
<1>16. \A r, key : Completes(g, r, key) <=> Completes(h, r, key) BY <1>11 DEF Completes
<1>17. PendingKeys(p) = {} BY <1>13, <1>14, <1>15, <1>16
<1> QED BY <1>13, <1>17 DEF h

----------------------------------------------------------------------------
(* The progress of the slices of a batch.                                  *)

(* The progress of the slices of a batch, of done tokens before it; and    *)
(* what is right then.                                                     *)
Progress(slices, done) ==
    [batch |-> InBatch(slices), todo |-> InBatch(slices), done |-> done,
     reach |-> [r \in Requests |->
         IF r \in InBatch(slices)
         THEN Tokens(slices[CHOOSE i \in DOMAIN slices : slices[i].req = r])
         ELSE done[r]]]
Begins(slices, done) == \A i \in DOMAIN slices : slices[i].begin = done[slices[i].req]
DataRight(kv, slices, done) ==
    /\ Begins(slices, done) /\ DataOK(kv, Progress(slices, done)) /\ PendingDue(kv, Progress(slices, done))

(* The progress of the slices of a batch: each request of it reaches the   *)
(* end of its slice, each other stays.                                     *)
LEMMA ReachIs ==
    ASSUME NEW p, NEW slices, SlicesOK(p, slices), Live(p) \subseteq Requests,
           NEW done \in [Requests -> Nat], Begins(slices, done), NEW g, g = Progress(slices, done)
    PROVE  /\ ProgressOK(g) /\ Describes(g, slices) /\ g.done = done
           /\ g.batch = InBatch(slices) /\ g.todo = InBatch(slices)
           /\ \A i \in DOMAIN slices : g.reach[slices[i].req] = Tokens(slices[i])
           /\ \A r \in Requests \ InBatch(slices) : g.reach[r] = done[r]
<1>1. g.batch = InBatch(slices) /\ g.todo = InBatch(slices) /\ g.done = done BY DEF Progress
<1>2. \A r \in Requests \ InBatch(slices) : g.reach[r] = done[r] BY DEF Progress
<1>3. ASSUME NEW i \in DOMAIN slices
      PROVE  g.reach[slices[i].req] = Tokens(slices[i]) /\ slices[i].req \in Requests
  <2>1. slices[i].req \in Requests /\ slices[i].req \in InBatch(slices) BY DEF SlicesOK, InBatch
  <2> DEFINE j == CHOOSE j \in DOMAIN slices : slices[j].req = slices[i].req
  <2>2. j \in DOMAIN slices /\ slices[j].req = slices[i].req OBVIOUS
  <2>3. g.reach[slices[i].req] = Tokens(slices[j]) BY <2>1 DEF Progress
  <2> HIDE DEF j
  <2>4. j = i BY <2>2 DEF SlicesOK
  <2> QED BY <2>1, <2>3, <2>4
<1>4. Describes(g, slices) BY <1>1, <1>3 DEF Describes, Begins
<1>5. ASSUME NEW r \in Requests
      PROVE  g.reach[r] \in Nat /\ g.done[r] <= g.reach[r] /\ (r \notin g.todo => g.done[r] = g.reach[r])
  <2>1. CASE r \in InBatch(slices)
    <3>1. PICK i \in DOMAIN slices : slices[i].req = r BY <2>1 DEF InBatch
    <3>2. slices[i].begin \in Nat /\ slices[i].count \in Nat /\ slices[i].begin = done[r]
      BY <3>1 DEF SlicesOK, Begins
    <3>3. g.reach[r] = slices[i].begin + slices[i].count BY <1>3, <3>1 DEF Tokens
    <3> QED BY <1>1, <2>1, <3>2, <3>3
  <2>2. CASE r \notin InBatch(slices)
    <3>1. g.reach[r] = done[r] /\ done[r] \in Nat BY <1>2, <2>2
    <3> QED BY <1>1, <3>1
  <2> QED BY <2>1, <2>2
<1>6. g.reach \in [Requests -> Nat]
  <2>1. DOMAIN g.reach = Requests /\ g.reach = [r \in Requests |-> g.reach[r]] BY DEF Progress
  <2> QED BY <2>1, <1>5
<1>7. ProgressOK(g) BY <1>1, <1>5, <1>6 DEF ProgressOK
<1> QED BY <1>1, <1>2, <1>3, <1>4, <1>7

(* Pending entries stay due when there are no more of them and the batch   *)
(* loses nothing.                                                          *)
LEMMA PendingStaysDue ==
    ASSUME NEW kv, NEW g, PendingDue(kv, g), NEW p, PendingKeys(p) \subseteq PendingKeys(kv),
           NEW h, g.batch \subseteq h.batch, \A w \in g.batch : h.reach[w] = g.reach[w]
    PROVE  PendingDue(p, h)
BY DEF PendingDue, Completes

(* The progress of a request outside the batch is its own affair.          *)
GoesApart(slices, later, g, h, r, t) ==
    /\ later \in [Requests -> Nat] /\ Begins(slices, later)
    /\ ProgressOK(g) /\ ProgressOK(h) /\ SameProgress(g, h, {r})
    /\ h.done[r] = t /\ h.reach[r] = t /\ r \notin g.batch /\ r \notin g.todo
    /\ g.batch = h.batch /\ \A w \in g.batch : h.reach[w] = g.reach[w]

(* The progress of the batch is that before when a request outside of it   *)
(* is given other tokens.                                                  *)
LEMMA ProgressApart ==
    ASSUME NEW p, NEW slices, SlicesOK(p, slices), Live(p) \subseteq Requests,
           NEW done \in [Requests -> Nat], Begins(slices, done),
           NEW r \in Requests, r \notin InBatch(slices), NEW t \in Nat,
           NEW later, later = [done EXCEPT ![r] = t],
           NEW g, g = Progress(slices, done), NEW h, h = Progress(slices, later)
    PROVE  GoesApart(slices, later, g, h, r, t)
<1>1. later \in [Requests -> Nat] /\ later[r] = t /\ \A s \in Requests \ {r} : later[s] = done[s] OBVIOUS
<1>0. SlicesOK(p, slices) /\ Live(p) \subseteq Requests /\ h = Progress(slices, later) OBVIOUS
<1>2. \A i \in DOMAIN slices : slices[i].req \in Requests \ {r} BY DEF SlicesOK, InBatch
<1>3. Begins(slices, later) BY <1>1, <1>2 DEF Begins
<1>4. /\ ProgressOK(g) /\ g.done = done /\ g.batch = InBatch(slices) /\ g.todo = InBatch(slices)
      /\ \A i \in DOMAIN slices : g.reach[slices[i].req] = Tokens(slices[i])
      /\ \A s \in Requests \ InBatch(slices) : g.reach[s] = done[s]
  BY ReachIs
<1>5. /\ ProgressOK(h) /\ h.done = later /\ h.batch = InBatch(slices) /\ h.todo = InBatch(slices)
      /\ \A i \in DOMAIN slices : h.reach[slices[i].req] = Tokens(slices[i])
      /\ \A s \in Requests \ InBatch(slices) : h.reach[s] = later[s]
  BY ONLY <1>1, <1>3, <1>0, ReachIs
<1>6. \A w \in InBatch(slices) : h.reach[w] = g.reach[w] BY ONLY <1>4, <1>5 DEF InBatch
<1>7. SameProgress(g, h, {r}) BY ONLY <1>1, <1>4, <1>5, <1>6 DEF SameProgress
<1> QED BY <1>1, <1>3, <1>4, <1>5, <1>6, <1>7 DEF GoesApart

(* One slice more in the batch.                                            *)
GoesOn(more, done, g, h, r) ==
    /\ Begins(more, done) /\ ProgressOK(g) /\ ProgressOK(h) /\ SameProgress(g, h, {r})
    /\ h.done = done /\ g.done = done /\ r \notin g.todo /\ r \notin g.batch /\ r \in h.batch
    /\ g.batch \subseteq h.batch /\ \A w \in g.batch : h.reach[w] = g.reach[w]

(* The progress of a batch with one slice more differs for its request     *)
(* only.                                                                   *)
LEMMA ProgressOn ==
    ASSUME NEW p, NEW slices, SlicesOK(p, slices), Live(p) \subseteq Requests,
           NEW done \in [Requests -> Nat], Begins(slices, done),
           NEW r \in Requests, r \notin InBatch(slices), NEW q, r \in Live(q), Live(q) \subseteq Requests,
           NEW s, s.req = r, s.begin = done[r], NEW more, more = Append(slices, s), SlicesOK(q, more),
           NEW g, g = Progress(slices, done), NEW h, h = Progress(more, done)
    PROVE  GoesOn(more, done, g, h, r)
<1> DEFINE k == Len(slices)
<1>0. /\ SlicesOK(q, more) /\ Live(q) \subseteq Requests /\ done \in [Requests -> Nat]
      /\ h = Progress(more, done)
  OBVIOUS
<1>1. slices \in Seq(Range(slices)) /\ DOMAIN slices = 1 .. k /\ k \in Nat BY DEF SlicesOK
<1>2. /\ DOMAIN more = 1 .. k \cup {k + 1} /\ more[k + 1] = s /\ \A i \in 1 .. k : more[i] = slices[i]
  BY <1>1
<1>3. s.req = r /\ s.begin = done[r] OBVIOUS
<1> HIDE DEF k
<1>4. Begins(more, done) BY <1>1, <1>2, <1>3 DEF Begins
<1>5. InBatch(more) = InBatch(slices) \cup {r} BY <1>1, <1>2, <1>3 DEF InBatch
<1>6. /\ ProgressOK(g) /\ g.done = done /\ g.batch = InBatch(slices) /\ g.todo = InBatch(slices)
      /\ \A i \in DOMAIN slices : g.reach[slices[i].req] = Tokens(slices[i])
      /\ \A x \in Requests \ InBatch(slices) : g.reach[x] = done[x]
  BY ReachIs
<1>7. /\ ProgressOK(h) /\ h.done = done /\ h.batch = InBatch(more) /\ h.todo = InBatch(more)
      /\ \A i \in DOMAIN more : h.reach[more[i].req] = Tokens(more[i])
      /\ \A x \in Requests \ InBatch(more) : h.reach[x] = done[x]
  BY ONLY <1>4, <1>0, ReachIs
<1>8. \A w \in InBatch(slices) : h.reach[w] = g.reach[w] BY ONLY <1>1, <1>2, <1>6, <1>7 DEF InBatch
<1>9. SameProgress(g, h, {r}) BY ONLY <1>5, <1>6, <1>7, <1>8 DEF SameProgress
<1> QED BY <1>4, <1>5, <1>6, <1>7, <1>8, <1>9 DEF GoesOn

----------------------------------------------------------------------------
(* Data through the operations of a plane.                                 *)

(* Data is right through every operation of the plane, with what its       *)
(* caller then takes for written.                                          *)
LEMMA SettledRight ==
    ASSUME NEW p, PlaneOK(p), NEW slices, SlicesOK(p, slices),
           NEW done \in [Requests -> Nat], DataRight(p, slices, done)
    PROVE  DataRight(Settled(p), slices, done)
<1> DEFINE g == Progress(slices, done)
           q == Settled(p)
<1>1. Begins(slices, done) /\ DataOK(p, g) /\ PendingDue(p, g) BY DEF DataRight
<1>2. ProgressOK(g) BY <1>1, ReachIs, RestIs
<1>3. q.cache = p.cache
  <2>1. IsRecord(p) BY RestIs DEF FieldsOK
  <2> QED BY <2>1 DEF Settled, IsRecord, Fields
<1> HIDE DEF g
<1>4. DataOK(q, g) BY <1>1, <1>2, SettledData
<1> HIDE DEF q
<1>5. PendingDue(q, g) BY <1>1, <1>3 DEF PendingDue, PendingKeys
<1> QED BY <1>1, <1>4, <1>5 DEF DataRight, g, q

(* A reservation keeps the data right.                                     *)
LEMMA ReserveRight ==
    ASSUME NEW kv, PlaneOK(kv), NEW slices, SlicesOK(kv, slices), CanReserve(kv, slices),
           NEW done \in [Requests -> Nat], DataRight(kv, slices, done),
           NEW p, p = Reserve(kv, slices)
    PROVE  DataRight(p, slices, done)
<1> DEFINE g == Progress(slices, done)
<1>1. Begins(slices, done) /\ DataOK(kv, g) /\ PendingDue(kv, g) BY DEF DataRight
<1>2. /\ ProgressOK(g) /\ g.batch = InBatch(slices)
      /\ \A i \in DOMAIN slices : g.reach[slices[i].req] = Tokens(slices[i])
  BY <1>1, ReachIs, RestIs
<1> HIDE DEF g
<1>3. DataOK(p, g) /\ PendingDue(p, g) BY <1>1, <1>2, ReserveData
<1> QED BY <1>1, <1>3 DEF DataRight, g

(* A live request joins the batch.                                         *)
LEMMA MoreRight ==
    ASSUME NEW kv, PlaneOK(kv), NEW slices, SlicesOK(kv, slices),
           NEW done \in [Requests -> Nat], DataRight(kv, slices, done),
           NEW r \in Live(kv), r \notin InBatch(slices), NEW s, s.req = r, s.begin = done[r],
           NEW more, more = Append(slices, s), SlicesOK(kv, more)
    PROVE  DataRight(kv, more, done)
<1> DEFINE g == Progress(slices, done)
           h == Progress(more, done)
<1>1. Begins(slices, done) /\ DataOK(kv, g) /\ PendingDue(kv, g) BY DEF DataRight
<1>2. Live(kv) \subseteq Requests /\ r \in Requests BY RestIs
<1>9. GoesOn(more, done, g, h, r) BY <1>1, <1>2, ProgressOn
<1>3. /\ Begins(more, done) /\ ProgressOK(g) /\ ProgressOK(h) /\ SameProgress(g, h, {r})
      /\ h.done = done /\ g.done = done /\ r \notin g.todo /\ r \notin g.batch
      /\ g.batch \subseteq h.batch /\ \A w \in g.batch : h.reach[w] = g.reach[w]
  BY <1>9 DEF GoesOn
<1> HIDE DEF g, h
<1>4. DataOK(kv, h) BY <1>1, <1>2, <1>3, JoinedData
<1>5. PendingDue(kv, h)
  <2>1. PendingDue(kv, g) /\ g.batch \subseteq h.batch /\ (\A w \in g.batch : h.reach[w] = g.reach[w])
    BY <1>1, <1>3
  <2>2. PendingKeys(kv) \subseteq PendingKeys(kv) OBVIOUS
  <2> QED BY ONLY <2>1, <2>2, PendingStaysDue
<1> QED BY <1>3, <1>4, <1>5 DEF DataRight, h

(* A request leaves that is not in the batch.                              *)
LEMMA LeaveRight ==
    ASSUME NEW kv, PlaneOK(kv), NEW slices, SlicesOK(kv, slices),
           NEW done \in [Requests -> Nat], DataRight(kv, slices, done),
           NEW r \in Live(kv), r \notin InBatch(slices), NEW t \in Nat,
           NEW p, p = ReleaseRequest(kv, r)
    PROVE  DataRight(p, slices, [done EXCEPT ![r] = t])
<1> DEFINE later == [done EXCEPT ![r] = t]
           g == Progress(slices, done)
           h == Progress(slices, later)
<1>1. Begins(slices, done) /\ DataOK(kv, g) /\ PendingDue(kv, g) BY DEF DataRight
<1>2. Live(kv) \subseteq Requests /\ r \in Requests BY RestIs
<1> HIDE DEF g, h
<1>9. GoesApart(slices, later, g, h, r, t) BY <1>1, <1>2, ProgressApart DEF g, h
<1>3. /\ Begins(slices, later) /\ ProgressOK(g) /\ ProgressOK(h) /\ SameProgress(g, h, {r})
      /\ r \notin g.todo /\ g.batch = h.batch /\ \A w \in g.batch : h.reach[w] = g.reach[w]
  BY <1>9 DEF GoesApart
<1> HIDE DEF later
<1>4. DataOK(p, h) /\ PendingKeys(p) \subseteq PendingKeys(kv) BY <1>1, <1>3, ReleaseData
<1>5. PendingDue(p, h) BY <1>1, <1>3, <1>4, PendingStaysDue
<1>6. DataRight(p, slices, later) BY <1>3, <1>4, <1>5 DEF DataRight, h
<1> QED BY <1>6 DEF later

(* A request that is not in the batch is preempted.                        *)
LEMMA PreemptRight ==
    ASSUME NEW kv, PlaneOK(kv), NEW slices, SlicesOK(kv, slices),
           NEW done \in [Requests -> Nat], DataRight(kv, slices, done),
           NEW r \in Live(kv), r \notin InBatch(slices), IsHot(kv, r),
           NEW later, later = [done EXCEPT ![r] = IF PreemptMode(kv, r) = "recompute" THEN 0 ELSE @],
           NEW p, p = Preempt(kv, r)
    PROVE  DataRight(p, slices, later)
<1> DEFINE g == Progress(slices, done)
           h == Progress(slices, later)
           t == IF PreemptMode(kv, r) = "recompute" THEN 0 ELSE done[r]
<1>1. Begins(slices, done) /\ DataOK(kv, g) /\ PendingDue(kv, g) BY DEF DataRight
<1>2. Live(kv) \subseteq Requests /\ r \in Requests BY RestIs
<1>3. t \in Nat /\ later = [done EXCEPT ![r] = t] BY <1>2
<1>4. g.done = done BY DEF Progress
<1> HIDE DEF g, h
<1>5. t = IF PreemptMode(kv, r) = "recompute" THEN 0 ELSE g.done[r] BY <1>4
<1> HIDE DEF t
<1>9. GoesApart(slices, later, g, h, r, t) BY <1>1, <1>2, <1>3, ProgressApart DEF g, h
<1>6. /\ Begins(slices, later) /\ ProgressOK(g) /\ ProgressOK(h) /\ SameProgress(g, h, {r})
      /\ h.done[r] = t /\ r \notin g.batch /\ g.batch = h.batch /\ \A w \in g.batch : h.reach[w] = g.reach[w]
  BY <1>9 DEF GoesApart
<1>7. DataOK(p, h) /\ PendingKeys(p) = PendingKeys(kv) BY <1>1, <1>5, <1>6, PreemptData
<1>8. PendingDue(p, h) BY <1>1, <1>6, <1>7, PendingStaysDue
<1> QED BY <1>6, <1>7, <1>8 DEF DataRight, h

----------------------------------------------------------------------------
(* Data through admission and execution; what right data means.            *)

(* A request is admitted while a batch is being built: then it joins it or *)
(* is released at once.                                                    *)
Entering(g, r, t) ==
    [batch |-> g.batch \cup {r}, todo |-> g.todo,
     done |-> [g.done EXCEPT ![r] = t], reach |-> [g.reach EXCEPT ![r] = t]]

(* An admission finds as many tokens as the blocks of the cache that it    *)
(* shares hold.                                                            *)
LEMMA AdmittedRight ==
    ASSUME NEW kv, PlaneOK(kv), NEW slices, SlicesOK(kv, slices),
           NEW done \in [Requests -> Nat], DataRight(kv, slices, done),
           NEW r \in Requests, r \notin Live(kv), NEW now \in Int, NEW arrival \in Nat,
           NEW p, p = Admit(kv, r, now, arrival), NEW t, t = AdmitHit(kv, r, now) * BlockTokens,
           NEW g, g = Progress(slices, done), NEW h, h = Entering(g, r, t)
    PROVE  /\ t \in Nat /\ ProgressOK(g) /\ ProgressOK(h) /\ DataOK(p, h) /\ PendingKeys(p) \subseteq PendingKeys(kv)
           /\ r \notin g.batch /\ r \notin g.todo
<1>1. Begins(slices, done) /\ DataOK(kv, g) /\ PendingDue(kv, g) BY DEF DataRight
<1>2. Live(kv) \subseteq Requests BY RestIs
<1>3. t \in Nat BY AdmitHitIs
<1>4. ProgressOK(g) /\ g.batch = InBatch(slices) /\ g.todo = InBatch(slices) BY <1>1, <1>2, ReachIs
<1>5. r \notin g.batch /\ r \notin g.todo BY <1>4 DEF SlicesOK, InBatch
<1>6. ProgressOK(h) /\ SameProgress(g, h, {r}) /\ h.done[r] = t /\ h.reach[r] = t /\ r \in h.batch
  BY <1>3, <1>4, <1>5 DEF ProgressOK, SameProgress, Entering
<1>7. h.done[r] = AdmitHit(kv, r, now) * BlockTokens /\ h.reach[r] = h.done[r] BY <1>6
<1>8. DataOK(p, h) BY <1>1, <1>4, <1>6, <1>7, AdmitData
<1>9. Range(p.cache) \subseteq Range(kv.cache) BY AdmitShares
<1>10. PendingKeys(p) \subseteq PendingKeys(kv) BY <1>9, FewerOffered
<1> QED BY <1>3, <1>4, <1>5, <1>6, <1>8, <1>10

(* A request is admitted and its slice joins the batch: the data is right  *)
(* for the longer batch.                                                   *)
LEMMA JoinRight ==
    ASSUME NEW kv, PlaneOK(kv), NEW slices, SlicesOK(kv, slices),
           NEW done \in [Requests -> Nat], DataRight(kv, slices, done),
           NEW r \in Requests, r \notin Live(kv), NEW now \in Int, NEW arrival \in Nat,
           NEW p, p = Admit(kv, r, now, arrival), NEW t, t = AdmitHit(kv, r, now) * BlockTokens,
           NEW s, s.req = r, s.begin = t, NEW more, more = Append(slices, s), SlicesOK(p, more)
    PROVE  DataRight(p, more, [done EXCEPT ![r] = t])
<1> DEFINE g == Progress(slices, done)
           h == Entering(g, r, t)
           later == [done EXCEPT ![r] = t]
           f == Progress(slices, later)
           o == Progress(more, later)
<1>1. Begins(slices, done) /\ DataOK(kv, g) /\ PendingDue(kv, g) BY DEF DataRight
<1>2. Live(kv) \subseteq Requests BY RestIs
<1>3. /\ t \in Nat /\ ProgressOK(g) /\ ProgressOK(h) /\ DataOK(p, h) /\ PendingKeys(p) \subseteq PendingKeys(kv)
      /\ r \notin g.batch /\ r \notin g.todo
  <2> HIDE DEF g
  <2>1. g = Progress(slices, done) BY DEF g
  <2>2. h = Entering(g, r, t) OBVIOUS
  <2> HIDE DEF h, later, f, o
  <2> QED BY <2>1, <2>2, AdmittedRight
<1>4. PlaneOK(p) /\ Live(p) = Live(kv) \cup {r} BY AdmitOK
<1>5. Live(p) \subseteq Requests /\ r \in Live(p) /\ r \notin InBatch(slices)
  BY <1>2, <1>4 DEF SlicesOK, InBatch
<1>6. GoesApart(slices, later, g, f, r, t) BY <1>1, <1>2, <1>3, <1>5, ProgressApart
<1>7. later \in [Requests -> Nat] /\ Begins(slices, later) /\ f.batch = g.batch
      /\ (\A w \in g.batch : f.reach[w] = g.reach[w]) /\ f.reach[r] = t /\ SameProgress(g, f, {r})
      /\ ProgressOK(f) /\ r \notin f.todo
  <2> HIDE DEF later, f, g
  <2>1. /\ later \in [Requests -> Nat] /\ Begins(slices, later) /\ f.batch = g.batch
        /\ (\A w \in g.batch : f.reach[w] = g.reach[w]) /\ f.reach[r] = t /\ SameProgress(g, f, {r})
        /\ ProgressOK(f) /\ r \notin g.batch
    BY <1>6 DEF GoesApart
  <2> QED BY <2>1 DEF ProgressOK
<1>8. later[r] = t BY <1>2
<1>9. GoesOn(more, later, f, o, r)
  <2>1. SlicesOK(kv, slices) /\ later \in [Requests -> Nat] /\ Begins(slices, later) BY <1>7
  <2>2. more = Append(slices, s) /\ s.req = r /\ s.begin = later[r] BY <1>8
  <2>3. f = Progress(slices, later) /\ o = Progress(more, later) OBVIOUS
  <2> HIDE DEF later, f, o, g, h
  <2> QED BY <1>2, <1>5, <2>1, <2>2, <2>3, ProgressOn
<1>10. /\ Begins(more, later) /\ ProgressOK(o) /\ SameProgress(f, o, {r}) /\ o.done = later /\ f.done = later
       /\ r \in o.batch /\ f.batch \subseteq o.batch /\ \A w \in f.batch : o.reach[w] = f.reach[w]
  <2> HIDE DEF later, f, o, g, h
  <2> QED BY <1>9 DEF GoesOn
<1>11. SameProgress(h, o, {r})
  <2> SUFFICES ASSUME NEW x \in Requests \ {r}
               PROVE  /\ o.done[x] = h.done[x] /\ o.reach[x] = h.reach[x] /\ (x \in h.todo <=> x \in o.todo)
                      /\ x \in h.batch => x \in o.batch
    BY DEF SameProgress
  <2>1. DOMAIN g.done = Requests /\ DOMAIN g.reach = Requests BY <1>3 DEF ProgressOK
  <2>2. h.done[x] = g.done[x] /\ h.reach[x] = g.reach[x] /\ h.todo = g.todo /\ h.batch = g.batch \cup {r}
    <3> HIDE DEF g
    <3> QED BY <2>1 DEF Entering
  <2> HIDE DEF later, f, o, g, h
  <2>3. /\ f.done[x] = g.done[x] /\ f.reach[x] = g.reach[x] /\ (x \in g.todo <=> x \in f.todo)
        /\ x \in g.batch => x \in f.batch
    BY <1>7 DEF SameProgress
  <2>4. /\ o.done[x] = f.done[x] /\ o.reach[x] = f.reach[x] /\ (x \in f.todo <=> x \in o.todo)
        /\ x \in f.batch => x \in o.batch
    BY <1>10 DEF SameProgress
  <2> QED BY <2>2, <2>3, <2>4
<1>12. h.done[r] = t /\ r \notin h.todo
  <2>1. DOMAIN g.done = Requests BY <1>3 DEF ProgressOK
  <2> HIDE DEF g
  <2> QED BY <1>3, <2>1 DEF Entering
<1>13. o.done[r] = h.done[r] BY <1>8, <1>10, <1>12
<1> HIDE DEF later, f, o, g, h
<1>14. DataOK(p, o) BY <1>3, <1>4, <1>10, <1>11, <1>12, <1>13, JoinedData
<1>15. g.batch \subseteq o.batch /\ \A w \in g.batch : o.reach[w] = g.reach[w] BY <1>7, <1>10
<1>16. PendingDue(p, o) BY ONLY <1>1, <1>3, <1>15, PendingStaysDue
<1>17. DataRight(p, more, later) BY <1>10, <1>14, <1>16 DEF DataRight, o
<1> QED BY <1>17 DEF later

(* A request that is admitted and released at once leaves the data right.  *)
LEMMA RefuseRight ==
    ASSUME NEW kv, PlaneOK(kv), NEW slices, SlicesOK(kv, slices),
           NEW done \in [Requests -> Nat], DataRight(kv, slices, done),
           NEW r \in Requests, r \notin Live(kv), NEW now \in Int, NEW arrival \in Nat,
           NEW p, p = Admit(kv, r, now, arrival)
    PROVE  DataRight(ReleaseRequest(p, r), slices, done)
<1> DEFINE g == Progress(slices, done)
           t == AdmitHit(kv, r, now) * BlockTokens
           h == Entering(g, r, t)
           q == ReleaseRequest(p, r)
<1>1. Begins(slices, done) /\ DataOK(kv, g) /\ PendingDue(kv, g) BY DEF DataRight
<1>2. g = Progress(slices, done) /\ t = AdmitHit(kv, r, now) * BlockTokens OBVIOUS
<1> HIDE DEF g, t
<1>3. /\ t \in Nat /\ ProgressOK(g) /\ ProgressOK(h) /\ DataOK(p, h) /\ PendingKeys(p) \subseteq PendingKeys(kv)
      /\ r \notin g.batch /\ r \notin g.todo
  <2>2. h = Entering(g, r, t) OBVIOUS
  <2> HIDE DEF h
  <2> QED BY <1>2, <2>2, AdmittedRight
<1>4. PlaneOK(p) /\ r \in Live(p) BY AdmitOK
<1>5. SameProgress(h, g, {r})
  <2>1. g.done \in [Requests -> Nat] /\ g.reach \in [Requests -> Nat] BY <1>3 DEF ProgressOK
  <2> QED BY <2>1 DEF SameProgress, Entering
<1>6. r \notin h.todo BY <1>3 DEF Entering
<1> HIDE DEF h
<1>7. DataOK(q, g) /\ PendingKeys(q) \subseteq PendingKeys(p) BY <1>3, <1>4, <1>5, <1>6, ReleaseData
<1> HIDE DEF q
<1>8. PendingKeys(q) \subseteq PendingKeys(kv) BY <1>3, <1>7
<1>9. PendingDue(q, g) BY <1>1, <1>8, PendingStaysDue
<1> QED BY <1>1, <1>2, <1>7, <1>9 DEF DataRight, q

(* The batch runs.                                                         *)
LEMMA ExecuteRight ==
    ASSUME NEW kv, PlaneOK(kv), NEW slices, SlicesOK(kv, slices), Mappable(kv, slices),
           NEW done \in [Requests -> Nat], DataRight(kv, slices, done),
           NEW p, p = Execute(kv, slices)
    PROVE  DataRight(p, <<>>, Progress(slices, done).reach)
<1> DEFINE g == Progress(slices, done)
           h == Wrote(g, InBatch(slices))
           f == Progress(<<>>, g.reach)
<1>1. Begins(slices, done) /\ DataOK(kv, g) /\ PendingDue(kv, g) BY DEF DataRight
<1>2. Live(kv) \subseteq Requests /\ SlicesOK(kv, slices) BY RestIs
<1>3. /\ ProgressOK(g) /\ Describes(g, slices) /\ g.done = done
      /\ g.batch = InBatch(slices) /\ g.todo = InBatch(slices)
      /\ \A r \in Requests \ InBatch(slices) : g.reach[r] = done[r]
  <2>1. g = Progress(slices, done) OBVIOUS
  <2> HIDE DEF g
  <2> QED BY <1>1, <1>2, <2>1, ReachIs
<1> HIDE DEF g
<1>4. InBatch(<<>>) = {} BY DEF InBatch
<1>5. f.todo = {} /\ \A r \in Requests : f.done[r] = g.reach[r] /\ f.reach[r] = g.reach[r]
  BY <1>4 DEF Progress
<1>6. h.todo = {} /\ \A r \in Requests : h.done[r] = g.reach[r] /\ h.reach[r] = g.reach[r]
  BY <1>3 DEF Wrote
<1>7. DataOK(p, h) /\ PendingKeys(p) = {} BY <1>1, <1>3, ExecuteData
<1>8. Live(p) = Live(kv) BY ExecuteOK
<1> HIDE DEF h, f
<1>9. DataOK(p, f) BY <1>2, <1>5, <1>6, <1>7, <1>8, RestedData
<1>10. PendingDue(p, f) BY <1>7 DEF PendingDue
<1>11. Begins(<<>>, g.reach) BY DEF Begins
<1> QED BY <1>9, <1>10, <1>11 DEF DataRight, f, g

(* Between batches every request finds its tokens, and every cached block  *)
(* holds what its key stands for.                                          *)
LEMMA RightIs ==
    ASSUME NEW kv, NEW done, DataRight(kv, <<>>, done)
    PROVE  /\ \A r \in Live(kv) : Holds(kv, r, done[r])
           /\ \A i \in DOMAIN kv.cache : EntryHolds(kv, kv.cache[i]) /\ ~kv.cache[i].pending
<1> DEFINE g == Progress(<<>>, done)
<1>1. DataOK(kv, g) /\ PendingDue(kv, g) BY DEF DataRight
<1>2. g.batch = {} /\ g.todo = {} /\ g.done = done BY DEF Progress, InBatch
<1> HIDE DEF g
<1>3. \A b : ~DueBlock(kv, g, b) BY <1>2 DEF DueBlock, Due
<1>4. ASSUME NEW r \in Live(kv) PROVE Holds(kv, r, done[r])
  <2>1. TableRight(kv, g, r) BY <1>1 DEF DataOK, TablesRight
  <2> QED BY <1>2, <2>1 DEF TableRight, Reading, Holds
<1>5. ASSUME NEW i \in DOMAIN kv.cache PROVE EntryHolds(kv, kv.cache[i]) /\ ~kv.cache[i].pending
  <2> DEFINE e == kv.cache[i]
             c == <<e.key, e.blocks>>
  <2>1. e \in Range(kv.cache) BY DEF Range
  <2> HIDE DEF e
  <2>2. c \in Cached(kv) BY <2>1 DEF Cached
  <2>3. EntryRight(kv, g, c[1], c[2]) BY <1>1, <2>2 DEF DataOK, CacheRight
  <2>4. EntryRight(kv, g, e.key, e.blocks) BY <2>3
  <2>5. EntryHolds(kv, e) BY <1>3, <2>4 DEF EntryRight, EntryCell, EntryHolds
  <2>6. ~e.pending BY <1>1, <1>2, <2>1 DEF PendingDue, PendingKeys
  <2> QED BY <2>5, <2>6 DEF e
<1> QED BY <1>4, <1>5
============================================================================
