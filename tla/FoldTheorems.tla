---------------------------- MODULE FoldTheorems ----------------------------
(***************************************************************************)
(* What FoldLeft of the community modules computes.  Op is the step of the *)
(* fold, with two parameters that stay the same along it; a proof module   *)
(* takes this one once for every fold it reasons about, with the step of   *)
(* that fold for Op.  Fold is FoldLeft with its definition expanded, so    *)
(* that the two are equal by their definitions.                            *)
(*                                                                         *)
(* A fold is a function that chooses itself from an equation: that such a  *)
(* function exists is shown by induction over the length of the prefix it  *)
(* is defined for, an induction that is stated with sets of numbers.       *)
(***************************************************************************)
EXTENDS Integers, Sequences, TLAPS

CONSTANTS Op(_, _, _, _)

(* Induction over the natural numbers, stated with sets of them.  It is a  *)
(* hypothesis of the theorems below, which FoldSetTheorems proves: there   *)
(* is an instance of this module for every fold, and each of them would    *)
(* carry along the library that the principle is proved from.              *)
Inductive == \A S \in SUBSET Nat : (0 \in S /\ \A n \in S : n + 1 \in S) => S = Nat

----------------------------------------------------------------------------
(* The last of some places of a sequence, the equation of the fold along   *)
(* them, the function that solves it, and its value at all places.         *)
Greatest(s) == CHOOSE x \in s : \A y \in s : x >= y

Body(p, q, base, seq, iter, s) ==
    IF s = {} THEN base ELSE Op(p, q, iter[s \ {Greatest(s)}], seq[Greatest(s)])

IsIter(p, q, base, seq, D, iter) == iter = [s \in SUBSET D |-> Body(p, q, base, seq, iter, s)]

Iter(p, q, base, seq, D) ==
    CHOOSE iter : iter = [s \in SUBSET D |->
        IF s = {} THEN base ELSE Op(p, q, iter[s \ {Greatest(s)}], seq[Greatest(s)])]

Fold(p, q, base, seq) == Iter(p, q, base, seq, DOMAIN seq)[DOMAIN seq]

(* The greatest of some numbers up to n + 1 that n + 1 is one of.          *)
LEMMA GreatestOfTop ==
    ASSUME NEW n \in Nat, NEW s \in SUBSET (1 .. n + 1), n + 1 \in s
    PROVE  Greatest(s) = n + 1
<1>1. \A y \in s : n + 1 >= y OBVIOUS
<1>2. Greatest(s) \in s /\ \A y \in s : Greatest(s) >= y BY <1>1 DEF Greatest
<1>3. Greatest(s) \in 1 .. n + 1 /\ Greatest(s) >= n + 1 BY <1>2
<1> QED BY <1>3

(* An interval has its end for its greatest element, and is one shorter    *)
(* without it.                                                             *)
LEMMA GreatestOfInterval ==
    ASSUME NEW n \in Nat PROVE Greatest(1 .. n + 1) = n + 1 /\ (1 .. n + 1) \ {n + 1} = 1 .. n /\ 1 .. n + 1 # {}
<1>1. n + 1 \in 1 .. n + 1 OBVIOUS
<1> QED BY <1>1, GreatestOfTop

(* The equation of the fold has a solution, which the fold therefore is.   *)
LEMMA IterExists ==
    ASSUME Inductive, NEW p, NEW q, NEW base, NEW seq, NEW n \in Nat
    PROVE  \E iter : IsIter(p, q, base, seq, 1 .. n, iter)
<1> DEFINE Good(k, g) == g = [s \in SUBSET (1 .. k) |-> Body(p, q, base, seq, g, s)]
           Ks == {k \in Nat : \E g : Good(k, g)}
<1>1. 0 \in Ks
  <2> DEFINE g == [s \in SUBSET (1 .. 0) |-> base]
  <2>1. SUBSET (1 .. 0) = {{}} OBVIOUS
  <2>2. \A h : [s \in SUBSET (1 .. 0) |-> Body(p, q, base, seq, h, s)] = g BY <2>1 DEF Body
  <2>3. Good(0, g) BY <2>2
  <2> QED BY <2>3
<1>2. ASSUME NEW k \in Ks PROVE k + 1 \in Ks
  <2>1. PICK g : Good(k, g) OBVIOUS
  <2> DEFINE h == [s \in SUBSET (1 .. k + 1) |-> Body(p, q, base, seq, g, s)]
  <2>0. k \in Nat OBVIOUS
  <2>2. ASSUME NEW s \in SUBSET (1 .. k + 1) PROVE Body(p, q, base, seq, g, s) = Body(p, q, base, seq, h, s)
    <3>1. CASE s = {} BY <3>1 DEF Body
    <3>2. CASE s # {}
      <4> DEFINE t == s \ {Greatest(s)}
      <4>1. t \in SUBSET (1 .. k)
        <5>1. CASE k + 1 \in s
          <6>1. Greatest(s) = k + 1 BY <5>1, <2>0, GreatestOfTop
          <6> QED BY <6>1, <2>0
        <5>2. CASE k + 1 \notin s
          <6>1. s \in SUBSET (1 .. k) BY <5>2, <2>0
          <6> QED BY <6>1
        <5> QED BY <5>1, <5>2
      <4>2. t \in SUBSET (1 .. k + 1) BY <2>0
      <4>3. g[t] = Body(p, q, base, seq, g, t) BY <2>1, <4>1
      <4>4. h[t] = Body(p, q, base, seq, g, t) BY <4>2
      <4>5. g[t] = h[t] BY <4>3, <4>4
      <4> QED BY <3>2, <4>5 DEF Body
    <3> QED BY <3>1, <3>2
  <2>3. Good(k + 1, h)
    <3> HIDE DEF h
    <3>1. h = [s \in SUBSET (1 .. k + 1) |-> Body(p, q, base, seq, g, s)] BY DEF h
    <3> QED BY <3>1, <2>2
  <2>4. \E f : Good(k + 1, f)
    <3> HIDE DEF h, Good
    <3> QED BY <2>3
  <2> QED BY <2>4, <2>0
<1>3. Ks = Nat
  <2> HIDE DEF Ks
  <2>1. Ks \in SUBSET Nat BY DEF Ks
  <2> QED BY <2>1, <1>1, <1>2 DEF Inductive
<1>4. \E g : Good(n, g) BY <1>3
<1> QED BY <1>4 DEF IsIter

(* The function that Iter chooses solves the equation.                     *)
LEMMA IterIs ==
    ASSUME Inductive, NEW p, NEW q, NEW base, NEW seq, NEW n \in Nat
    PROVE  IsIter(p, q, base, seq, 1 .. n, Iter(p, q, base, seq, 1 .. n))
<1> DEFINE F(iter) == [s \in SUBSET (1 .. n) |->
        IF s = {} THEN base ELSE Op(p, q, iter[s \ {Greatest(s)}], seq[Greatest(s)])]
<1>0. ASSUME NEW iter PROVE IsIter(p, q, base, seq, 1 .. n, iter) <=> iter = F(iter) BY DEF IsIter, Body
<1>2. Iter(p, q, base, seq, 1 .. n) = CHOOSE iter : iter = F(iter) BY DEF Iter
<1> HIDE DEF F
<1>1. \E iter : iter = F(iter) BY IterExists, <1>0
<1>3. Iter(p, q, base, seq, 1 .. n) = F(Iter(p, q, base, seq, 1 .. n)) BY <1>1, <1>2
<1> QED BY <1>3, <1>0

(* The equation at one set of places.                                      *)
LEMMA IterAt ==
    ASSUME Inductive, NEW p, NEW q, NEW base, NEW seq, NEW n \in Nat, NEW s \in SUBSET (1 .. n)
    PROVE  Iter(p, q, base, seq, 1 .. n)[s] = Body(p, q, base, seq, Iter(p, q, base, seq, 1 .. n), s)
<1> DEFINE it == Iter(p, q, base, seq, 1 .. n)
           B(t) == Body(p, q, base, seq, it, t)
<1>1. IsIter(p, q, base, seq, 1 .. n, it) BY IterIs
<1> HIDE DEF it
<1>2. it = [t \in SUBSET (1 .. n) |-> B(t)] BY <1>1 DEF IsIter
<1> HIDE DEF B
<1>3. it[s] = B(s) BY <1>2
<1> QED BY <1>3 DEF it, B

(* Along the prefixes of the sequence: the base for the empty one, and one *)
(* step more for one element more.                                         *)
LEMMA IterValue ==
    ASSUME Inductive, NEW p, NEW q, NEW base, NEW seq, NEW n \in Nat
    PROVE  /\ Iter(p, q, base, seq, 1 .. n)[1 .. 0] = base
           /\ \A k \in Nat : k + 1 <= n =>
                  Iter(p, q, base, seq, 1 .. n)[1 .. k + 1]
                      = Op(p, q, Iter(p, q, base, seq, 1 .. n)[1 .. k], seq[k + 1])
<1> DEFINE it == Iter(p, q, base, seq, 1 .. n)
<1>1. \A s \in SUBSET (1 .. n) : it[s] = Body(p, q, base, seq, it, s) BY IterAt
<1> HIDE DEF it
<1>2. 1 .. 0 = {} /\ 1 .. 0 \in SUBSET (1 .. n) OBVIOUS
<1>3. it[1 .. 0] = base BY <1>1, <1>2 DEF Body
<1>4. ASSUME NEW k \in Nat, k + 1 <= n PROVE it[1 .. k + 1] = Op(p, q, it[1 .. k], seq[k + 1])
  <2>1. 1 .. k + 1 \in SUBSET (1 .. n) BY <1>4
  <2>2. it[1 .. k + 1] = Body(p, q, base, seq, it, 1 .. k + 1) BY <1>1, <2>1
  <2>3. Greatest(1 .. k + 1) = k + 1 /\ (1 .. k + 1) \ {k + 1} = 1 .. k /\ 1 .. k + 1 # {} BY GreatestOfInterval
  <2> QED BY <2>2, <2>3 DEF Body
<1> QED BY <1>3, <1>4 DEF it

(* The places of a sequence are an interval.                               *)
LEMMA FoldIsIter ==
    ASSUME NEW p, NEW q, NEW base, NEW T, NEW seq \in Seq(T)
    PROVE  Fold(p, q, base, seq)
              = Iter(p, q, base, seq, 1 .. Len(seq))[1 .. Len(seq)]
<1>1. DOMAIN seq = 1 .. Len(seq) OBVIOUS
<1> QED BY <1>1 DEF Fold

(* The fold of no elements is the base.                                    *)
LEMMA FoldEmpty ==
    ASSUME Inductive, NEW p, NEW q, NEW base
    PROVE  Fold(p, q, base, <<>>) = base
<1>1. <<>> \in Seq({}) /\ Len(<<>>) = 0 /\ 0 \in Nat OBVIOUS
<1>2. Fold(p, q, base, <<>>) = Iter(p, q, base, <<>>, 1 .. 0)[1 .. 0]
  <2>1. Fold(p, q, base, <<>>) = Iter(p, q, base, <<>>, 1 .. Len(<<>>))[1 .. Len(<<>>)]
     BY <1>1, FoldIsIter
  <2> QED BY <2>1, <1>1
<1>3. Iter(p, q, base, <<>>, 1 .. 0)[1 .. 0] = base BY <1>1, IterValue
<1> QED BY <1>2, <1>3

(* One element more is one step more.                                      *)
LEMMA FoldAppend ==
    ASSUME Inductive, NEW p, NEW q, NEW base, NEW T, NEW seq \in Seq(T), NEW x \in T
    PROVE  Fold(p, q, base, Append(seq, x))
               = Op(p, q, Fold(p, q, base, seq), x)
<1> DEFINE n == Len(seq)
           long == Append(seq, x)
           it == Iter(p, q, base, long, 1 .. n + 1)
           up == Iter(p, q, base, seq, 1 .. n)
<1>1. n \in Nat /\ n + 1 \in Nat /\ Len(long) = n + 1 /\ long \in Seq(T) /\ long[n + 1] = x
      /\ \A k \in 1 .. n : long[k] = seq[k] OBVIOUS
<1> HIDE DEF n, long
<1>2. Fold(p, q, base, long) = it[1 .. n + 1]
  <2>1. Fold(p, q, base, long)
          = Iter(p, q, base, long, 1 .. Len(long))[1 .. Len(long)] BY FoldIsIter, <1>1
  <2> QED BY <2>1, <1>1
<1>3. Fold(p, q, base, seq) = up[1 .. n] BY FoldIsIter DEF n
<1>4. it[1 .. 0] = base /\ \A k \in Nat : k + 1 <= n + 1 => it[1 .. k + 1] = Op(p, q, it[1 .. k], long[k + 1])
  BY <1>1, IterValue
<1>5. up[1 .. 0] = base /\ \A k \in Nat : k + 1 <= n => up[1 .. k + 1] = Op(p, q, up[1 .. k], seq[k + 1])
  BY <1>1, IterValue
<1> HIDE DEF it, up
<1> DEFINE S == {k \in Nat : k <= n => it[1 .. k] = up[1 .. k]}
<1>6. S = Nat
  <2>1. 0 \in S BY <1>4, <1>5
  <2>2. ASSUME NEW k \in S PROVE k + 1 \in S
    <3>1. CASE k + 1 <= n
      <4>1. k \in Nat /\ k <= n /\ k + 1 <= n + 1 /\ k + 1 \in 1 .. n BY <3>1, <1>1
      <4>2. it[1 .. k] = up[1 .. k] BY <4>1
      <4>3. it[1 .. k + 1] = Op(p, q, it[1 .. k], long[k + 1]) BY <1>4, <4>1
      <4>4. up[1 .. k + 1] = Op(p, q, up[1 .. k], seq[k + 1]) BY <1>5, <3>1, <4>1
      <4>5. long[k + 1] = seq[k + 1] BY <1>1, <4>1
      <4>6. it[1 .. k + 1] = up[1 .. k + 1] BY <4>2, <4>3, <4>4, <4>5
      <4> QED BY <4>1, <4>6
    <3>2. CASE ~ (k + 1 <= n) BY <3>2
    <3> QED BY <3>1, <3>2
  <2>3. S \in SUBSET Nat OBVIOUS
  <2> HIDE DEF S
  <2> QED BY <2>1, <2>2, <2>3 DEF Inductive
<1>7. it[1 .. n] = up[1 .. n] BY <1>6, <1>1
<1>8. it[1 .. n + 1] = Op(p, q, it[1 .. n], x) BY <1>4, <1>1
<1> QED BY <1>2, <1>3, <1>7, <1>8 DEF long

(* The fold of the first k elements, and of one more.                      *)
Partial(p, q, base, seq, k) == Fold(p, q, base, SubSeq(seq, 1, k))

(* Of no element the base, of all the fold.                                *)
LEMMA FoldEnds ==
    ASSUME Inductive, NEW p, NEW q, NEW base, NEW T, NEW seq \in Seq(T)
    PROVE  /\ Partial(p, q, base, seq, 0) = base
           /\ Partial(p, q, base, seq, Len(seq)) = Fold(p, q, base, seq)
<1>1. SubSeq(seq, 1, 0) = <<>> /\ SubSeq(seq, 1, Len(seq)) = seq OBVIOUS
<1> QED BY <1>1, FoldEmpty DEF Partial

(* With the next element one step more: what every proof about a fold goes *)
(* by.                                                                     *)
LEMMA FoldStep ==
    ASSUME Inductive, NEW p, NEW q, NEW base, NEW T, NEW seq \in Seq(T), NEW k \in 0 .. Len(seq) - 1
    PROVE  Partial(p, q, base, seq, k + 1) = Op(p, q, Partial(p, q, base, seq, k), seq[k + 1])
<1> DEFINE short == SubSeq(seq, 1, k)
           x == seq[k + 1]
<1>1. short \in Seq(T) /\ x \in T /\ SubSeq(seq, 1, k + 1) = Append(short, x) OBVIOUS
<1> HIDE DEF short, x
<1>2. Fold(p, q, base, Append(short, x)) = Op(p, q, Fold(p, q, base, short), x)
  BY <1>1, FoldAppend
<1> QED BY <1>1, <1>2 DEF short, x, Partial
=============================================================================
