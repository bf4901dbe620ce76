--------------------------- MODULE ServingProofs ---------------------------
(***************************************************************************)
(* The serving engine for every number of requests and every size of the   *)
(* pools: an inductive invariant over the whole iteration, and the safety  *)
(* properties that follow from it.                                         *)
(***************************************************************************)
EXTENDS ServingEngine, KvPlaneProofs

----------------------------------------------------------------------------
(* The invariant of the engine, and sequences.                             *)

(* To keep everything changes nothing.                                     *)
LEMMA KeepAll ==
    ASSUME NEW T, NEW seq \in Seq(T), NEW S, Range(seq) \subseteq S
    PROVE  Keep(seq, S) = seq
<1>1. \A i \in DOMAIN seq : seq[i] \in S BY DEF Range
<1>2. Keep(seq, S) = SubSeq(seq, 1, Len(seq))
  <2>1. Len(seq) \in Nat /\ DOMAIN seq = 1 .. Len(seq) OBVIOUS
  <2>2. 1 \in 1 .. Len(seq) + 1 /\ Len(seq) \in 0 .. Len(seq) /\ 1 <= Len(seq) + 1 BY <2>1
  <2>3. \A i \in DOMAIN seq : seq[i] \in S <=> 1 <= i /\ i <= Len(seq) BY <1>1, <2>1
  <2> QED BY <2>2, <2>3, KeepInterval
<1> QED BY <1>2

(* To keep nothing leaves the empty sequence.                              *)
LEMMA KeepNone ==
    ASSUME NEW T, NEW seq \in Seq(T), NEW S, Range(seq) \cap S = {}
    PROVE  Keep(seq, S) = <<>>
<1>1. Places(seq, S) = {} BY DEF Places, Range
<1>2. Keep(seq, S) = [n \in 1 .. 0 |-> seq[NthLeast({}, n)]] BY <1>1, KeepIs, FS_EmptySet
<1> QED BY <1>2

(* An ascending sequence stays so, and one without repetition too.         *)
LEMMA KeepAscends ==
    ASSUME NEW T \in SUBSET Int, NEW seq \in Seq(T), NEW S,
           \A i, j \in DOMAIN seq : i < j => seq[i] < seq[j]
    PROVE  \A i, j \in DOMAIN Keep(seq, S) : i < j => Keep(seq, S)[i] < Keep(seq, S)[j]
<1>1. ASSUME NEW m \in DOMAIN Keep(seq, S), NEW n \in DOMAIN Keep(seq, S), m < n
      PROVE  Keep(seq, S)[m] < Keep(seq, S)[n]
  <2> DEFINE P == Places(seq, S)
  <2>1. NthLeast(P, m) \in DOMAIN seq /\ Keep(seq, S)[m] = seq[NthLeast(P, m)] BY KeepInOrder, KeepAt
  <2>2. NthLeast(P, n) \in DOMAIN seq /\ Keep(seq, S)[n] = seq[NthLeast(P, n)] BY KeepInOrder, KeepAt
  <2>3. NthLeast(P, m) < NthLeast(P, n) BY KeepInOrder, <1>1
  <2> QED BY <2>1, <2>2, <2>3
<1> QED BY <1>1

(* Ascending lists a finite set of numbers, each once, from the least to   *)
(* the greatest.                                                           *)
LEMMA AscendingIs ==
    ASSUME NEW S \in SUBSET Int, IsFiniteSet(S)
    PROVE  /\ Ascending(S) \in Seq(S) /\ Range(Ascending(S)) = S /\ Len(Ascending(S)) = Cardinality(S)
           /\ DOMAIN Ascending(S) = 1 .. Cardinality(S)
           /\ \A i, j \in DOMAIN Ascending(S) : i < j => Ascending(S)[i] < Ascending(S)[j]
<1> DEFINE c == Cardinality(S)
<1>1. c \in Nat BY FS_CardinalityType
<1>2. \A n \in 1 .. c : NthLeast(S, n) \in S BY NthLeastIs
<1>3. /\ \A m, n \in 1 .. c : m < n => NthLeast(S, m) < NthLeast(S, n)
      /\ \A x \in S : \E n \in 1 .. c : NthLeast(S, n) = x
  BY NthLeastOrder
<1>4. Ascending(S) = [n \in 1 .. c |-> NthLeast(S, n)] BY DEF Ascending
<1> HIDE DEF c
<1>5. Ascending(S) \in Seq(S) /\ Len(Ascending(S)) = c /\ DOMAIN Ascending(S) = 1 .. c BY <1>1, <1>2, <1>4
<1>6. \A n \in 1 .. c : Ascending(S)[n] = NthLeast(S, n) BY <1>4
<1>7. Range(Ascending(S)) = S
  <2>1. ASSUME NEW x \in S PROVE x \in Range(Ascending(S))
    <3>1. PICK n \in 1 .. c : NthLeast(S, n) = x BY <1>3
    <3> QED BY <3>1, <1>5, <1>6 DEF Range
  <2>2. ASSUME NEW x \in Range(Ascending(S)) PROVE x \in S BY <1>2, <1>5, <1>6 DEF Range
  <2> QED BY <2>1, <2>2
<1>8. \A i, j \in 1 .. c : i < j => Ascending(S)[i] < Ascending(S)[j] BY <1>3, <1>6
<1> QED BY <1>5, <1>7, <1>8 DEF c

Unfinished == {r \in Requests : ~Complete(r)}
Ready == {r \in Runnable : r <= arrived}

Rising(seq) == \A i, j \in DOMAIN seq : i < j => seq[i] < seq[j]
SameModel(line) == \A x, y \in line : Model[x] = Model[y]
NoneOvertaken(line, unfinished) ==
    \A x \in unfinished \ line, y \in line : Model[x] = Model[y] => y < x
LineOK(run, res, line, ready, unfinished) ==
    /\ run \in Seq(Requests) /\ res \in Seq(Requests) /\ Rising(run) /\ Rising(res)
    /\ \A x \in Range(run), y \in Range(res) : x < y
    /\ Range(run) \cup Range(res) = line
    /\ SameModel(line) /\ line \subseteq ready /\ NoneOvertaken(line, unfinished)
    /\ Len(run) <= MaxBatchRequests

(* The tokens request r could have in an iteration without a budget.       *)
Want(r, from, target) == IF from >= target THEN 1 ELSE AtMost(target - from, PrefillChunk)
Wants(from, target) == [r \in Requests |-> Want(r, from[r], target[r])]
Counts(slices) == [i \in DOMAIN slices |-> slices[i].count]

QueueOK(q, run, res, model, ready) ==
    /\ q \in Seq(Requests)
    /\ \A i, j \in DOMAIN q : q[i] = q[j] => i = j
    /\ \A i \in DOMAIN q : q[i] \in ready /\ q[i] \notin Range(run)
    /\ Len(res) <= Len(q) /\ \A i \in DOMAIN res : q[i] = res[i]
    /\ \A i, j \in DOMAIN q : Len(res) < i /\ i < j => q[i] < q[j]
    /\ \A x \in ready \ Range(run) : Model[x] = model => x \in Range(q)

LoopOK(todo, run, k) ==
    /\ todo \in Seq(Requests) /\ k + Len(todo) >= Len(run)
    /\ \A i \in DOMAIN todo : IF k + i <= Len(run) THEN todo[i] = run[k + i]
                              ELSE todo[i] \notin Range(run)

ServesFirst(slices, run, from) ==
    /\ Len(slices) <= Len(run)
    /\ \A i \in DOMAIN slices : /\ slices[i].req = run[i] /\ slices[i].begin = from[run[i]]
                                /\ slices[i].count \in Nat \ {0}

Spends(slices, budget, wants) ==
    /\ budget \in Nat /\ SumFunction(Counts(slices)) + budget = MaxBatchTokens
    /\ Total(wants, InBatch(slices)) + budget >= MaxBatchTokens
    /\ budget > 0 => Total(wants, InBatch(slices)) + budget = MaxBatchTokens

LastOK(run, wants) ==
    run # <<>> => Total(wants, Range(run) \ {Last(run)}) < MaxBatchTokens

HotOK(plane, run) == \A i \in DOMAIN run : CanPreempt(plane, run[i])

Locals == {"phase", "todo", "waiting", "model", "offer", "slices", "budget", "preempted"}
IterationOK(it, run, line, from, wants) ==
    /\ \A y \in line : Model[y] = it.model
    /\ ServesFirst(it.slices, run, from)
    /\ Spends(it.slices, it.budget, wants)
(* A slice of request r that starts at token begin, of at most budget      *)
(* tokens, and of as many as the request wants unless the budget is short. *)
SliceIs(s, r, begin, want, budget) ==
    /\ s.req = r /\ s.begin = begin /\ s.count \in Nat \ {0} /\ s.count <= budget
    /\ s.count = want \/ (s.count <= want /\ s.count = budget)
OfferOK(it, run, from, wants) ==
    \/ it.offer = <<>>
    \/ /\ it.todo # <<>> /\ Head(it.todo) \in Range(run) /\ it.offer = <<it.offer[1]>>
       /\ SliceIs(it.offer[1], Head(it.todo), from[Head(it.todo)], wants[Head(it.todo)], it.budget)
RunningOK(it, run, res, from, wants, ready) ==
    /\ LoopOK(it.todo, run, Len(it.slices))
    /\ ~it.preempted => QueueOK(it.waiting, run, res, it.model, ready)
    /\ OfferOK(it, run, from, wants)
AdmitPhaseOK(it, plane, run, res, ready) ==
    /\ Len(it.slices) = Len(run) /\ Mappable(plane, it.slices)
    /\ it.todo = <<>> \/ QueueOK(it.todo, run, res, it.model, ready)

TypeInv ==
    /\ processed \in [Requests -> Nat] /\ emitted \in [Requests -> Nat]
    /\ prefillTarget \in [Requests -> Nat] /\ admitted \subseteq Requests /\ arrived \in 0 .. NRequests
PlaneInv ==
    /\ PlaneOK(kv) /\ SlicesOK(kv, iteration.slices)
    /\ Live(kv) = {r \in admitted : ~Complete(r)}
LineInv ==
    /\ LineOK(running, resumed, Live(kv), Ready, Unfinished)
    /\ HotOK(kv, running) /\ LastOK(running, Wants(processed, prefillTarget))
IterationIs(it, plane, run, res, from, wants, ready) ==
    /\ DOMAIN it = Locals /\ it.phase \in {"idle", "running", "admit"}
    /\ it.preempted \in BOOLEAN
    /\ it.phase = "idle" => it = Idle
    /\ it.phase # "idle" => IterationOK(it, run, Live(plane), from, wants)
    /\ it.phase = "running" => RunningOK(it, run, res, from, wants, ready)
    /\ it.phase = "admit" => AdmitPhaseOK(it, plane, run, res, ready)
IterationInv ==
    IterationIs(iteration, kv, running, resumed, processed, Wants(processed, prefillTarget), Ready)
EngineInv == TypeInv /\ PlaneInv /\ LineInv /\ IterationInv

----------------------------------------------------------------------------
(* Sequences that rise.                                                    *)
LEMMA RisingOnce ==
    ASSUME NEW seq \in Seq(Requests), Rising(seq)
    PROVE  /\ \A i, j \in DOMAIN seq : seq[i] = seq[j] => i = j
           /\ \A i \in DOMAIN seq : seq[i] \in Nat
<1>1. \A i \in DOMAIN seq : seq[i] \in Requests OBVIOUS
<1>2. Requests \in SUBSET Nat BY SizesAssumption DEF Requests
<1>3. DOMAIN seq = 1 .. Len(seq) /\ Len(seq) \in Nat OBVIOUS
<1>4. ASSUME NEW i \in DOMAIN seq, NEW j \in DOMAIN seq, seq[i] = seq[j] PROVE i = j
  <2>1. i < j => seq[i] < seq[j] BY DEF Rising
  <2>2. j < i => seq[j] < seq[i] BY DEF Rising
  <2>3. seq[i] \in Nat BY <1>1, <1>2
  <2>4. i \in Nat /\ j \in Nat BY <1>3
  <2> QED BY <1>4, <2>1, <2>2, <2>3, <2>4
<1> QED BY <1>1, <1>2, <1>4

(* A function on 1 .. m is a sequence of length m.                         *)
LEMMA FunctionIsSeq ==
    ASSUME NEW S, NEW m \in Nat, NEW f \in [1 .. m -> S]
    PROVE  f \in Seq(S) /\ Len(f) = m
OBVIOUS

(* A rising sequence without its last element.                             *)
LEMMA WithoutLast ==
    ASSUME NEW run \in Seq(Requests), Rising(run), run # <<>>,
           NEW front, front = Keep(run, Requests \ {Last(run)})
    PROVE  /\ front \in Seq(Requests) /\ Len(front) = Len(run) - 1 /\ Len(run) \in Nat \ {0}
           /\ \A i \in 1 .. Len(run) - 1 : front[i] = run[i]
           /\ Rising(front) /\ Range(front) = Range(run) \ {Last(run)}
           /\ Last(run) = run[Len(run)] /\ Last(run) \in Requests /\ Last(run) \in Range(run)
           /\ \A x \in Range(front) : x < Last(run)
<1> DEFINE n == Len(run)
<1>0. n \in Nat \ {0} /\ DOMAIN run = 1 .. n /\ Last(run) = run[n] BY DEF Last
<1> HIDE DEF n
<1>1. n \in DOMAIN run BY <1>0
<1>2. \A i \in DOMAIN run : run[i] \in Requests \ {Last(run)} <=> 1 <= i /\ i <= n - 1
  <2> SUFFICES ASSUME NEW i \in DOMAIN run
               PROVE  run[i] \in Requests \ {Last(run)} <=> 1 <= i /\ i <= n - 1
      OBVIOUS
  <2>1. run[i] \in Requests OBVIOUS
  <2>2. run[i] = run[n] <=> i = n BY <1>1, RisingOnce
  <2> QED BY <2>1, <2>2, <1>0
<1>3. front = SubSeq(run, 1, n - 1)
  <2>1. 1 \in 1 .. Len(run) + 1 /\ n - 1 \in 0 .. Len(run) /\ 1 <= (n - 1) + 1 BY <1>0 DEF n
  <2> QED BY <2>1, <1>2, KeepInterval
<1>4. front \in Seq(Requests) /\ Len(front) = n - 1 /\ \A i \in 1 .. n - 1 : front[i] = run[i]
  <2> DEFINE m == n - 1
  <2>1. front = SubSeq(run, 1, m) BY <1>3
  <2>2. n = Len(run) BY DEF n
  <2>3. m \in 0 .. Len(run) BY <1>0, <2>2
  <2> HIDE DEF m
  <2>4. SubSeq(run, 1, m) = [i \in 1 .. m |-> run[i]] /\ m \in Nat /\ \A i \in 1 .. m : i \in 1 .. Len(run) BY <2>3
  <2>5. front = [i \in 1 .. m |-> run[i]] BY <2>1, <2>4
  <2>6. \A i \in 1 .. m : run[i] \in Requests BY <2>4
  <2>7. front \in Seq(Requests) /\ Len(front) = m /\ \A i \in 1 .. m : front[i] = run[i]
    <3>1. front \in [1 .. m -> Requests] BY <2>5, <2>6
    <3>2. \A i \in 1 .. m : front[i] = run[i] BY <2>5
    <3>3. m \in Nat BY <2>4
    <3>4. front \in Seq(Requests) /\ Len(front) = m BY <3>1, <3>3, FunctionIsSeq
    <3> QED BY <3>2, <3>4
  <2> QED BY <2>7 DEF m
<1>5. DOMAIN front = 1 .. n - 1 BY <1>0, <1>4
<1>6. Rising(front)
  <2>1. \A i \in 1 .. n - 1 : i \in DOMAIN run BY <1>0
  <2> QED BY <2>1, <1>4, <1>5 DEF Rising
<1>7. Range(front) = Range(run) \ {Last(run)}
  <2>1. Range(front) = Range(run) \cap (Requests \ {Last(run)}) BY KeepInOrder
  <2>2. Range(run) \subseteq Requests BY DEF Range
  <2> QED BY <2>1, <2>2
<1>8. Last(run) \in Requests /\ Last(run) \in Range(run) BY <1>0, <1>1 DEF Range
<1>9. ASSUME NEW x \in Range(front) PROVE x < Last(run)
  <2>1. PICK i \in 1 .. n - 1 : x = run[i] BY <1>4, <1>5 DEF Range
  <2>2. i \in DOMAIN run /\ i < n BY <1>0, <2>1
  <2> QED BY <1>0, <1>1, <2>1, <2>2 DEF Rising
<1> QED BY <1>0, <1>4, <1>6, <1>7, <1>8, <1>9 DEF n

(* What is left of a sequence when its head is taken.                      *)
LEMMA TailIs ==
    ASSUME NEW S, NEW seq \in Seq(S), seq # <<>>
    PROVE  /\ Tail(seq) \in Seq(S) /\ Len(Tail(seq)) = Len(seq) - 1 /\ Len(seq) \in Nat \ {0}
           /\ DOMAIN Tail(seq) = 1 .. Len(seq) - 1 /\ DOMAIN seq = 1 .. Len(seq)
           /\ \A i \in 1 .. Len(seq) - 1 : Tail(seq)[i] = seq[i + 1]
           /\ Head(seq) = seq[1] /\ Head(seq) \in S /\ Head(seq) \in Range(seq)
<1>1. Len(seq) \in Nat \ {0} /\ DOMAIN seq = 1 .. Len(seq) OBVIOUS
<1>2. Tail(seq) \in Seq(S) /\ Len(Tail(seq)) = Len(seq) - 1 OBVIOUS
<1>3. 1 \in DOMAIN seq /\ Head(seq) = seq[1] BY <1>1
<1>4. Head(seq) \in S /\ Head(seq) \in Range(seq) BY <1>3 DEF Range
<1> QED BY <1>1, <1>2, <1>3, <1>4

(* One more at the end of a sequence.                                      *)
OneMoreThan(more, seq, x) == more = Append(seq, x) \/ more = seq \o <<x>>

(* A sequence with one more element at its end.                            *)
LEMMA AppendIs ==
    ASSUME NEW seq, seq \in Seq(Range(seq)), NEW x, NEW more, OneMoreThan(more, seq, x),
           NEW k, k = Len(seq)
    PROVE  /\ k \in Nat /\ DOMAIN more = 1 .. k + 1 /\ DOMAIN seq = 1 .. k /\ Len(more) = k + 1
           /\ more[k + 1] = x /\ (\A i \in 1 .. k : more[i] = seq[i])
           /\ Range(more) = Range(seq) \cup {x} /\ more \in Seq(Range(more))
<1> DEFINE T == Range(seq) \cup {x}
<1>1. seq \in Seq(T) /\ x \in T /\ <<x>> \in Seq(T) /\ Len(seq) \in Nat /\ DOMAIN seq = 1 .. Len(seq)
  OBVIOUS
<1> HIDE DEF T
<1>2. more \in Seq(T) /\ Len(more) = Len(seq) + 1
  <2>1. CASE more = Append(seq, x) BY <1>1, <2>1
  <2>2. CASE more = seq \o <<x>> BY <1>1, <2>2
  <2> QED BY <2>1, <2>2 DEF OneMoreThan
<1>3. more[Len(seq) + 1] = x /\ \A i \in 1 .. Len(seq) : more[i] = seq[i]
  <2>1. CASE more = Append(seq, x) BY <1>1, <2>1
  <2>2. CASE more = seq \o <<x>> BY <1>1, <2>2
  <2> QED BY <2>1, <2>2 DEF OneMoreThan
<1>4. DOMAIN more = 1 .. Len(seq) + 1 BY <1>1, <1>2
<1>5. k \in Nat /\ DOMAIN seq = 1 .. k /\ DOMAIN more = 1 .. k + 1 /\ Len(more) = k + 1 /\ more[k + 1] = x
      /\ \A i \in 1 .. k : more[i] = seq[i]
  BY <1>1, <1>2, <1>3, <1>4
<1>6. Range(more) = Range(seq) \cup {x}
  <2>1. ASSUME NEW y \in Range(more) PROVE y \in Range(seq) \cup {x}
    <3>1. PICK i \in 1 .. k + 1 : y = more[i] BY <1>5 DEF Range
    <3>2. i \in 1 .. k \/ i = k + 1 BY <1>5, <3>1
    <3> QED BY <1>5, <3>1, <3>2 DEF Range
  <2>2. ASSUME NEW y \in Range(seq) PROVE y \in Range(more)
    <3>1. PICK i \in 1 .. k : y = seq[i] BY <1>5 DEF Range
    <3>2. i \in 1 .. k + 1 /\ more[i] = y BY <1>5, <3>1
    <3> QED BY <1>5, <3>2 DEF Range
  <2>3. x \in Range(more)
    <3>1. k + 1 \in 1 .. k + 1 BY <1>5
    <3> QED BY <3>1, <1>5 DEF Range
  <2> QED BY <2>1, <2>2, <2>3
<1>7. more \in Seq(Range(more))
  <2>1. \A i \in 1 .. k + 1 : more[i] \in Range(more) BY <1>5 DEF Range
  <2> QED BY <2>1, <1>2, <1>5
<1> QED BY <1>5, <1>6, <1>7

(* A sequence is a sequence of its own elements.                           *)
LEMMA ListIs ==
    ASSUME NEW S, NEW seq \in Seq(S)
    PROVE  seq \in Seq(Range(seq)) /\ Range(seq) \subseteq S
<1>1. DOMAIN seq = 1 .. Len(seq) /\ Len(seq) \in Nat OBVIOUS
<1>2. \A i \in 1 .. Len(seq) : seq[i] \in Range(seq) BY <1>1 DEF Range
<1>3. seq \in Seq(Range(seq)) BY <1>1, <1>2
<1> QED BY <1>3 DEF Range

----------------------------------------------------------------------------
(* What requests want, what a batch spends and serves.                     *)

(* A request wants at least one token.                                     *)
LEMMA WantIs ==
    ASSUME NEW from \in Nat, NEW target \in Nat, NEW r, NEW w, w = Want(r, from, target)
    PROVE  w \in Nat \ {0}
BY PolicyAssumption DEF Want, AtMost

(* Progress makes a request want no more.                                  *)
LEMMA WantShrinks ==
    ASSUME NEW from \in Nat, NEW later \in Nat, from <= later, NEW target \in Nat, NEW r
    PROVE  Want(r, later, target) <= Want(r, from, target)
<1>1. PrefillChunk \in Nat \ {0} BY PolicyAssumption
<1>2. CASE from >= target BY <1>2 DEF Want
<1>3. CASE ~(from >= target) /\ later >= target BY <1>1, <1>3 DEF Want, AtMost
<1>4. CASE ~(from >= target) /\ ~(later >= target) BY <1>1, <1>4 DEF Want, AtMost
<1> QED BY <1>2, <1>3, <1>4

(* What the requests want are numbers of tokens.                           *)
LEMMA WantsAre ==
    ASSUME NEW from \in [Requests -> Nat], NEW target \in [Requests -> Nat]
    PROVE  Wants(from, target) \in [Requests -> Nat]
<1>1. \A r \in Requests : Want(r, from[r], target[r]) \in Nat BY WantIs
<1> QED BY <1>1 DEF Wants

(* The slice that _slice_for makes is of as many tokens as the request     *)
(* wants, or of all that is left.                                          *)
LEMMA SliceForIs ==
    ASSUME NEW r \in Requests, NEW from \in Nat, NEW budget \in Nat \ {0},
           prefillTarget[r] \in Nat, NEW s, s = SliceFor(r, from, budget),
           NEW w, w = Want(r, from, prefillTarget[r])
    PROVE  SliceIs(s, r, from, w, budget)
<1> DEFINE t == prefillTarget[r]
           count == IF from >= t THEN 1 ELSE AtMost(AtMost(t - from, PrefillChunk), budget)
<1>1. s.req = r /\ s.begin = from /\ s.count = count BY DEF SliceFor, InDecode
<1>2. t \in Nat /\ w = IF from >= t THEN 1 ELSE AtMost(t - from, PrefillChunk) BY DEF Want
<1>3. PrefillChunk \in Nat \ {0} BY PolicyAssumption
<1> DEFINE c == count
<1>4. c = IF from >= t THEN 1 ELSE AtMost(AtMost(t - from, PrefillChunk), budget) OBVIOUS
<1>5. s.count = c BY <1>1
<1> HIDE DEF t, count, c
<1>6. CASE from >= t BY <1>1, <1>2, <1>4, <1>5, <1>6 DEF SliceIs
<1>7. CASE ~(from >= t)
  <2>1. t - from \in Nat \ {0} BY <1>2, <1>7
  <2>2. w \in Nat \ {0} /\ c = AtMost(w, budget) BY <1>2, <1>3, <1>4, <1>7, <2>1 DEF AtMost
  <2> QED BY <1>1, <1>5, <2>2 DEF AtMost, SliceIs
<1> QED BY <1>6, <1>7

(* The requests of a batch with one more slice.                            *)
LEMMA BatchIs ==
    ASSUME NEW slices, NEW s, slices \in Seq(Range(slices)),
           NEW more, OneMoreThan(more, slices, s)
    PROVE  InBatch(more) = InBatch(slices) \cup {s.req}
<1> DEFINE k == Len(slices)
<1>1. /\ k \in Nat /\ DOMAIN more = 1 .. k + 1 /\ DOMAIN slices = 1 .. k
      /\ more[k + 1] = s /\ \A i \in 1 .. k : more[i] = slices[i]
  BY AppendIs
<1> HIDE DEF k
<1>2. k + 1 \in 1 .. k + 1 /\ \A i \in 1 .. k + 1 : i \in 1 .. k \/ i = k + 1 BY <1>1
<1>3. \A i \in 1 .. k : i \in 1 .. k + 1 BY <1>1
<1> QED BY <1>1, <1>2, <1>3 DEF InBatch

(* A batch with a slice of one more live request.                          *)
LEMMA OneMore ==
    ASSUME NEW p, NEW slices, SlicesOK(p, slices), NEW s, s.req \in Live(p) \ InBatch(slices),
           s.begin \in Nat, s.count \in Nat,
           NEW more, OneMoreThan(more, slices, s)
    PROVE  SlicesOK(p, more) /\ more # <<>>
<1> DEFINE k == Len(slices)
<1>0. slices \in Seq(Range(slices)) /\ OneMoreThan(more, slices, s) /\ k = Len(slices) BY DEF SlicesOK
<1> HIDE DEF k
<1>1. /\ k \in Nat /\ DOMAIN more = 1 .. k + 1 /\ DOMAIN slices = 1 .. k
      /\ more[k + 1] = s /\ (\A i \in 1 .. k : more[i] = slices[i]) /\ more \in Seq(Range(more))
  BY ONLY <1>0, AppendIs
<1>2. \A i \in 1 .. k : slices[i].req # s.req BY <1>1 DEF InBatch
<1>3. \A i \in 1 .. k + 1 : i \in 1 .. k \/ i = k + 1 BY <1>1
<1>4. \A i \in 1 .. k + 1 : more[i].req \in Live(p) /\ more[i].begin \in Nat /\ more[i].count \in Nat
  BY <1>1, <1>3 DEF SlicesOK
<1>5. \A i, j \in 1 .. k + 1 : more[i].req = more[j].req => i = j
  BY <1>1, <1>2, <1>3 DEF SlicesOK
<1>6. k + 1 \in DOMAIN more BY <1>1
<1> QED BY <1>1, <1>4, <1>5, <1>6 DEF SlicesOK

(* The tokens of a batch with one more slice.                              *)
LEMMA CountsGrow ==
    ASSUME NEW slices, slices \in Seq(Range(slices)), \A i \in DOMAIN slices : slices[i].count \in Nat,
           NEW s, s.count \in Nat, NEW more, OneMoreThan(more, slices, s)
    PROVE  /\ SumFunction(Counts(more)) = SumFunction(Counts(slices)) + s.count
           /\ SumFunction(Counts(slices)) \in Nat
<1> DEFINE k == Len(slices)
           f == Counts(slices)
           g == Counts(more)
<1>0. k = Len(slices) /\ slices \in Seq(Range(slices)) /\ OneMoreThan(more, slices, s) OBVIOUS
<1> HIDE DEF k, f, g
<1>1. /\ k \in Nat /\ DOMAIN more = 1 .. k + 1 /\ DOMAIN slices = 1 .. k
      /\ more[k + 1] = s /\ \A i \in 1 .. k : more[i] = slices[i]
  BY ONLY <1>0, AppendIs
<1> USE DEF f, g
<1>2. DOMAIN f = 1 .. k /\ DOMAIN g = 1 .. k + 1 BY <1>1 DEF Counts
<1>3. \A i \in 1 .. k : f[i] = slices[i].count BY <1>1 DEF Counts
<1>4. \A i \in 1 .. k + 1 : g[i] = more[i].count BY <1>1 DEF Counts
<1>5. SumFunction(f) = Total(f, 1 .. k) /\ SumFunction(g) = Total(g, 1 .. k + 1)
  BY <1>2 DEF SumFunction, Total, SumFunctionOnSet, FoldFunction
<1> HIDE DEF f, g
<1>6. \A i \in 1 .. k : f[i] \in Nat /\ f[i] = g[i]
  <2>1. \A i \in 1 .. k : i \in 1 .. k + 1 BY <1>1
  <2> QED BY <2>1, <1>1, <1>3, <1>4
<1>7. k + 1 \in 1 .. k + 1 /\ g[k + 1] = s.count /\ \A i \in 1 .. k + 1 : i \in 1 .. k \/ i = k + 1
  BY <1>1, <1>4
<1>8. \A i \in 1 .. k + 1 : g[i] \in Nat BY <1>6, <1>7
<1>9. IsFiniteSet(1 .. k) /\ IsFiniteSet(1 .. k + 1) BY <1>1, FS_Interval
<1>10. Total(g, 1 .. k + 1) = g[k + 1] + Total(g, (1 .. k + 1) \ {k + 1}) BY <1>7, <1>8, <1>9, SumsAdd
<1>11. (1 .. k + 1) \ {k + 1} = 1 .. k BY <1>1
<1>12. Total(f, 1 .. k) = Total(g, 1 .. k) BY <1>6, <1>9, SameSum
<1>13. Total(f, 1 .. k) \in Nat BY <1>6, <1>9, SumsAdd
<1>14. SumFunction(g) = SumFunction(f) + s.count /\ SumFunction(f) \in Nat
  <2> DEFINE t == Total(f, 1 .. k)
  <2>1. Total(g, (1 .. k + 1) \ {k + 1}) = t BY <1>11, <1>12
  <2>2. Total(g, 1 .. k + 1) = s.count + t BY <1>7, <1>10, <2>1
  <2>3. t \in Nat BY <1>13
  <2> HIDE DEF t
  <2>4. SumFunction(f) = t BY <1>5 DEF t
  <2>5. SumFunction(g) = s.count + t BY <1>5, <2>2
  <2> QED BY <2>3, <2>4, <2>5
<1> QED BY <1>14 DEF f, g

(* The budget is spent exactly when one more slice is taken.               *)
LEMMA SpendMore ==
    ASSUME NEW slices, slices \in Seq(Range(slices)), \A i \in DOMAIN slices : slices[i].count \in Nat,
           InBatch(slices) \subseteq Requests, NEW wants \in [Requests -> Nat],
           NEW budget, Spends(slices, budget, wants),
           NEW s, s.req \in Requests \ InBatch(slices), s.count \in Nat \ {0}, s.count <= budget,
           s.count = wants[s.req] \/ (s.count <= wants[s.req] /\ s.count = budget),
           NEW more, OneMoreThan(more, slices, s)
    PROVE  Spends(more, budget - s.count, wants)
<1> DEFINE B == InBatch(slices)
           C == InBatch(more)
           c == s.count
           w == wants[s.req]
           sum == SumFunction(Counts(slices))
           t == Total(wants, B)
<1>1. SumFunction(Counts(more)) = sum + c /\ sum \in Nat BY CountsGrow
<1>2. C = B \cup {s.req} BY BatchIs
<1>3. NRequests \in Nat /\ IsFiniteSet(Requests)
  <2>1. NRequests \in Nat BY SizesAssumption
  <2> QED BY <2>1, FS_Interval DEF Requests
<1>4. IsFiniteSet(B) /\ IsFiniteSet(C) /\ B \subseteq Requests /\ C \subseteq Requests
  <2>1. B \in SUBSET Requests /\ C \in SUBSET Requests BY <1>2
  <2> HIDE DEF B, C
  <2> QED BY <1>3, <2>1, FS_Subset
<1>5. Total(wants, C) = w + t /\ t \in Nat /\ w \in Nat
  <2>1. s.req \in C /\ C \ {s.req} = B BY <1>2
  <2>2. \A x \in C : wants[x] \in Nat BY <1>4
  <2>3. \A x \in B : wants[x] \in Nat BY <1>4
  <2> HIDE DEF B, C
  <2>4. Total(wants, C) = wants[s.req] + Total(wants, B) BY <1>4, <2>1, <2>2, SumsAdd
  <2>5. Total(wants, B) \in Nat BY <1>4, <2>3, SumsAdd
  <2> QED BY <2>1, <2>2, <2>4, <2>5
<1>6. /\ budget \in Nat /\ sum + budget = MaxBatchTokens /\ t + budget >= MaxBatchTokens
      /\ budget > 0 => t + budget = MaxBatchTokens
  BY DEF Spends
<1>7. c \in Nat \ {0} /\ c <= budget /\ (c = w \/ (c <= w /\ c = budget)) OBVIOUS
<1>8. MaxBatchTokens \in Nat BY PolicyAssumption
<1> DEFINE u == Total(wants, C)
           v == SumFunction(Counts(more))
<1>9. u = w + t /\ v = sum + c /\ sum \in Nat /\ t \in Nat /\ w \in Nat BY <1>1, <1>5
<1> HIDE DEF c, w, t, sum, u, v, B, C
<1>10. budget - c \in Nat BY <1>6, <1>7
<1>11. v + (budget - c) = MaxBatchTokens BY <1>6, <1>7, <1>8, <1>9
<1>12. u + (budget - c) >= MaxBatchTokens BY <1>6, <1>7, <1>8, <1>9
<1>13. budget - c > 0 => u + (budget - c) = MaxBatchTokens
  <2>1. ASSUME budget - c > 0 PROVE c = w
    <3>1. c # budget BY <2>1, <1>6, <1>7
    <3> QED BY <3>1, <1>7
  <2> QED BY <2>1, <1>6, <1>7, <1>8, <1>9
<1> QED BY <1>10, <1>11, <1>12, <1>13 DEF Spends, u, v, C, c

(* Nothing is spent at the start.                                          *)
LEMMA SpendNone == ASSUME NEW wants PROVE Spends(<<>>, MaxBatchTokens, wants)
<1>1. InBatch(<<>>) = {} BY DEF InBatch
<1>2. DOMAIN Counts(<<>>) = {} BY DEF Counts
<1>3. SumFunction(Counts(<<>>)) = Total(Counts(<<>>), {})
  BY <1>2 DEF SumFunction, Total, SumFunctionOnSet, FoldFunction
<1>4. Total(wants, {}) = 0 /\ Total(Counts(<<>>), {}) = 0 BY SumOfNone
<1>5. MaxBatchTokens \in Nat BY PolicyAssumption
<1>6. SumFunction(Counts(<<>>)) = 0 /\ Total(wants, InBatch(<<>>)) = 0 BY <1>1, <1>3, <1>4
<1> QED BY <1>5, <1>6 DEF Spends

(* A batch that serves the running requests in their order serves one      *)
(* more.                                                                   *)
LEMMA ServesMore ==
    ASSUME NEW slices, slices \in Seq(Range(slices)), NEW run \in Seq(Requests), NEW from,
           ServesFirst(slices, run, from), Len(slices) < Len(run), NEW s,
           s.req = run[Len(slices) + 1], s.begin = from[s.req], s.count \in Nat \ {0},
           NEW more, OneMoreThan(more, slices, s)
    PROVE  ServesFirst(more, run, from) /\ Len(more) = Len(slices) + 1
<1> DEFINE k == Len(slices)
<1>0. k = Len(slices) /\ slices \in Seq(Range(slices)) /\ OneMoreThan(more, slices, s) OBVIOUS
<1>2. s.req = run[k + 1] /\ k < Len(run) /\ Len(run) \in Nat OBVIOUS
<1> HIDE DEF k
<1>1. /\ k \in Nat /\ DOMAIN more = 1 .. k + 1 /\ DOMAIN slices = 1 .. k /\ Len(more) = k + 1
      /\ more[k + 1] = s /\ \A i \in 1 .. k : more[i] = slices[i]
  BY ONLY <1>0, AppendIs
<1>3. \A i \in 1 .. k + 1 : i \in 1 .. k \/ i = k + 1 BY <1>1
<1>4. \A i \in 1 .. k + 1 : /\ more[i].req = run[i] /\ more[i].begin = from[run[i]]
                            /\ more[i].count \in Nat \ {0}
  BY <1>1, <1>2, <1>3 DEF ServesFirst
<1>5. k + 1 <= Len(run) BY <1>1, <1>2
<1> QED BY <1>1, <1>4, <1>5 DEF ServesFirst, k

(* The requests served are the first ones of those running.                *)
LEMMA ServedAre ==
    ASSUME NEW slices, slices \in Seq(Range(slices)), NEW run \in Seq(Requests), NEW from,
           ServesFirst(slices, run, from)
    PROVE  /\ InBatch(slices) = {run[i] : i \in 1 .. Len(slices)}
           /\ InBatch(slices) \subseteq Range(run) /\ Range(run) \subseteq Requests
           /\ Len(slices) = Len(run) => InBatch(slices) = Range(run)
           /\ \A i \in DOMAIN slices : slices[i].count \in Nat
           /\ Rising(run) => \A i \in DOMAIN run : run[i] \in InBatch(slices) => i <= Len(slices)
<1>1. DOMAIN slices = 1 .. Len(slices) /\ DOMAIN run = 1 .. Len(run) OBVIOUS
<1>2. Len(slices) \in Nat /\ Len(run) \in Nat /\ Len(slices) <= Len(run) BY DEF ServesFirst
<1>3. \A i \in 1 .. Len(slices) : slices[i].req = run[i] /\ slices[i].count \in Nat BY <1>1 DEF ServesFirst
<1>4. InBatch(slices) = {run[i] : i \in 1 .. Len(slices)} BY <1>1, <1>3 DEF InBatch
<1>5. \A i \in 1 .. Len(slices) : i \in DOMAIN run BY <1>1, <1>2
<1>6. InBatch(slices) \subseteq Range(run) BY <1>4, <1>5 DEF Range
<1>7. Len(slices) = Len(run) => InBatch(slices) = Range(run) BY <1>1, <1>4 DEF Range
<1>8. ASSUME Rising(run), NEW i \in DOMAIN run, run[i] \in InBatch(slices) PROVE i <= Len(slices)
  <2>1. PICK j \in 1 .. Len(slices) : run[i] = run[j] BY <1>4, <1>8
  <2>2. i = j BY <2>1, <1>5, <1>8, RisingOnce
  <2> QED BY <2>2, <2>1, <1>2
<1>9. Range(run) \subseteq Requests BY DEF Range
<1> QED BY <1>1, <1>3, <1>4, <1>6, <1>7, <1>8, <1>9

----------------------------------------------------------------------------
(* The two loops of an iteration.                                          *)

(* The requests of the iteration that are still to be offered a slice.     *)
LEMMA LoopSkips ==
    ASSUME NEW todo, NEW run \in Seq(Requests), NEW k \in Nat, k <= Len(run), LoopOK(todo, run, k),
           todo # <<>>, Head(todo) \notin Range(run), NEW rest, rest = Tail(todo)
    PROVE  LoopOK(rest, run, k)
<1> DEFINE n == Len(run)
<1>1. todo \in Seq(Requests) BY DEF LoopOK
<1>2. /\ rest \in Seq(Requests) /\ Len(rest) = Len(todo) - 1 /\ Len(todo) \in Nat \ {0}
      /\ DOMAIN rest = 1 .. Len(todo) - 1 /\ DOMAIN todo = 1 .. Len(todo)
      /\ (\A i \in 1 .. Len(todo) - 1 : rest[i] = todo[i + 1]) /\ Head(todo) = todo[1]
  BY <1>1, TailIs
<1>3. n \in Nat /\ \A i \in 1 .. n : run[i] \in Range(run) BY DEF Range
<1> HIDE DEF n
<1>4. ~(k + 1 <= n)
  <2>1. 1 \in DOMAIN todo /\ todo[1] \notin Range(run) BY <1>2
  <2>2. k + 1 <= n => todo[1] = run[k + 1] BY <2>1 DEF LoopOK, n
  <2>3. k + 1 <= n => k + 1 \in 1 .. n BY <1>3
  <2> QED BY <2>1, <2>2, <2>3, <1>3
<1>5. \A i \in 1 .. Len(todo) - 1 : i \in Nat /\ i + 1 \in DOMAIN todo /\ ~(k + i <= n) /\ ~(k + (i + 1) <= n)
  BY <1>2, <1>3, <1>4
<1>6. \A i \in 1 .. Len(todo) - 1 : todo[i + 1] \notin Range(run) BY <1>5 DEF LoopOK, n
<1>7. k + Len(rest) >= n BY <1>2, <1>3, <1>4 DEF n
<1> QED BY <1>2, <1>5, <1>6, <1>7 DEF LoopOK, n

(* The running request the loop comes to is the next one that has no       *)
(* slice.                                                                  *)
LEMMA LoopSelects ==
    ASSUME NEW todo, NEW run \in Seq(Requests), NEW k \in Nat, k <= Len(run), LoopOK(todo, run, k),
           todo # <<>>, Head(todo) \in Range(run), NEW rest, rest = Tail(todo)
    PROVE  /\ k + 1 <= Len(run) /\ Head(todo) = run[k + 1] /\ LoopOK(rest, run, k + 1)
<1> DEFINE n == Len(run)
<1>1. todo \in Seq(Requests) /\ n \in Nat BY DEF LoopOK
<1>2. /\ rest \in Seq(Requests) /\ Len(rest) = Len(todo) - 1 /\ Len(todo) \in Nat \ {0}
      /\ DOMAIN rest = 1 .. Len(todo) - 1 /\ DOMAIN todo = 1 .. Len(todo)
      /\ (\A i \in 1 .. Len(todo) - 1 : rest[i] = todo[i + 1]) /\ Head(todo) = todo[1]
  BY <1>1, TailIs
<1> HIDE DEF n
<1>3. k + 1 <= n /\ Head(todo) = run[k + 1]
  <2>1. 1 \in DOMAIN todo BY <1>2
  <2> QED BY <2>1, <1>2 DEF LoopOK, n
<1>4. \A i \in 1 .. Len(todo) - 1 : /\ i + 1 \in DOMAIN todo /\ (k + 1) + i = k + (i + 1)
  BY <1>2
<1>5. \A i \in 1 .. Len(todo) - 1 : IF (k + 1) + i <= n THEN rest[i] = run[(k + 1) + i]
                                    ELSE rest[i] \notin Range(run)
  BY <1>2, <1>4 DEF LoopOK, n
<1>6. (k + 1) + Len(rest) >= n
  <2>1. k + Len(todo) >= n BY DEF LoopOK, n
  <2> QED BY <2>1, <1>1, <1>2
<1> QED BY <1>2, <1>3, <1>5, <1>6 DEF LoopOK, n

(* The loop goes on when the last running request has been preempted.      *)
LEMMA LoopWithout ==
    ASSUME NEW todo, NEW run \in Seq(Requests), Rising(run), NEW k \in Nat, k <= Len(run),
           LoopOK(todo, run, k), todo # <<>>, Head(todo) \in Range(run),
           NEW front, front = Keep(run, Requests \ {Last(run)})
    PROVE  /\ run # <<>> /\ k <= Len(front)
           /\ Head(todo) # Last(run) => LoopOK(todo, front, k) /\ Head(todo) \in Range(front)
           /\ Head(todo) = Last(run) => LoopOK(Tail(todo), front, k)
<1> DEFINE n == Len(run)
           rest == Tail(todo)
<1>1. run # <<>> BY DEF Range
<1>2. /\ front \in Seq(Requests) /\ Len(front) = n - 1 /\ n \in Nat \ {0}
      /\ (\A i \in 1 .. n - 1 : front[i] = run[i])
      /\ Range(front) = Range(run) \ {Last(run)} /\ Last(run) = run[n]
  BY <1>1, WithoutLast
<1>3. k + 1 <= n /\ Head(todo) = run[k + 1] /\ LoopOK(rest, run, k + 1) BY LoopSelects
<1>4. \A i, j \in 1 .. n : run[i] = run[j] => i = j
  <2>1. DOMAIN run = 1 .. n OBVIOUS
  <2> QED BY <2>1, RisingOnce
<1> HIDE DEF n, rest
<1>5. k <= Len(front) BY <1>2, <1>3
<1>6. ASSUME Head(todo) # Last(run) PROVE LoopOK(todo, front, k) /\ Head(todo) \in Range(front)
  <2>1. todo \in Seq(Requests) BY DEF LoopOK
  <2>2. k + Len(todo) >= n - 1 /\ DOMAIN todo = 1 .. Len(todo) /\ Len(todo) \in Nat
    BY <2>1, <1>2 DEF LoopOK, n
  <2>3. ASSUME NEW i \in DOMAIN todo
        PROVE  IF k + i <= n - 1 THEN todo[i] = front[k + i] ELSE todo[i] \notin Range(front)
    <3> DEFINE e == k + i
    <3>1. e \in Nat \ {0} BY <2>2
    <3>2. IF e <= n THEN todo[i] = run[e] ELSE todo[i] \notin Range(run) BY DEF LoopOK, n
    <3> HIDE DEF e
    <3>3. CASE e <= n - 1
      <4>1. e \in 1 .. n - 1 /\ e <= n BY <3>1, <3>3, <1>2
      <4>2. todo[i] = front[e] BY <4>1, <3>2, <1>2
      <4> QED BY <4>2, <3>3 DEF e
    <3>4. CASE ~(e <= n - 1)
      <4>1. e = n \/ ~(e <= n) BY <3>1, <3>4, <1>2
      <4>2. todo[i] \notin Range(front) BY <4>1, <3>2, <1>2
      <4> QED BY <4>2, <3>4 DEF e
    <3> QED BY <3>3, <3>4
  <2>4. LoopOK(todo, front, k) BY <2>1, <2>2, <2>3, <1>2 DEF LoopOK
  <2> QED BY <2>4, <1>2, <1>6
<1>7. ASSUME Head(todo) = Last(run) PROVE LoopOK(rest, front, k)
  <2>1. k + 1 = n
    <3>1. k + 1 \in 1 .. n /\ n \in 1 .. n BY <1>2, <1>3
    <3> QED BY <3>1, <1>2, <1>3, <1>4, <1>7
  <2>2. rest \in Seq(Requests) /\ DOMAIN rest = 1 .. Len(rest) /\ Len(rest) \in Nat BY <1>3 DEF LoopOK
  <2>3. ASSUME NEW i \in DOMAIN rest
        PROVE  IF k + i <= n - 1 THEN rest[i] = front[k + i] ELSE rest[i] \notin Range(front)
    <3>1. i \in Nat \ {0} BY <2>2
    <3>2. ~(k + i <= n - 1) /\ ~((k + 1) + i <= n) BY <3>1, <2>1, <1>2
    <3>3. rest[i] \notin Range(run) BY <3>2, <1>3 DEF LoopOK, n
    <3> QED BY <3>2, <3>3, <1>2
  <2>4. k + Len(rest) >= n - 1 BY <2>1, <2>2
  <2> QED BY <2>2, <2>3, <2>4, <1>2 DEF LoopOK
<1> QED BY <1>1, <1>5, <1>6, <1>7 DEF rest

(* At the end of the loop every running request has a slice.               *)
LEMMA LoopDone ==
    ASSUME NEW run \in Seq(Requests), NEW k \in Nat, k <= Len(run), LoopOK(<<>>, run, k)
    PROVE  k = Len(run)
<1>1. Len(<<>>) = 0 /\ Len(run) \in Nat OBVIOUS
<1>2. k + 0 >= Len(run) BY <1>1 DEF LoopOK
<1> QED BY <1>1, <1>2

(* The requests that wait.                                                 *)
LEMMA QueueHead ==
    ASSUME NEW q, NEW run, NEW res \in Seq(Requests), NEW model, NEW ready, q # <<>>,
           QueueOK(q, run, res, model, ready)
    PROVE  /\ Head(q) \in ready /\ Head(q) \in Requests /\ Head(q) \notin Range(run)
           /\ res # <<>> => Head(q) = Head(res) /\ Head(q) \in Range(res)
           /\ Head(q) \in Range(res) => res # <<>>
<1>1. q \in Seq(Requests) BY DEF QueueOK
<1>2. 1 \in DOMAIN q /\ Head(q) = q[1] /\ Head(q) \in Requests BY <1>1, TailIs
<1>3. Head(q) \in ready /\ Head(q) \notin Range(run) BY <1>2 DEF QueueOK
<1>4. ASSUME res # <<>> PROVE Head(q) = Head(res) /\ Head(q) \in Range(res)
  <2>1. 1 \in DOMAIN res /\ Head(res) = res[1] /\ Head(res) \in Range(res) BY <1>4, TailIs
  <2> QED BY <2>1, <1>2 DEF QueueOK
<1>5. Head(q) \in Range(res) => res # <<>> BY DEF Range
<1> QED BY <1>2, <1>3, <1>4, <1>5

(* Passing over a request of another model.                                *)
LEMMA QueueSkips ==
    ASSUME NEW q, NEW run, NEW res \in Seq(Requests), NEW model, NEW ready, q # <<>>,
           QueueOK(q, run, res, model, ready), Model[Head(q)] # model,
           \A y \in Range(res) : Model[y] = model, NEW rest, rest = Tail(q)
    PROVE  rest = <<>> \/ QueueOK(rest, run, res, model, ready)
<1>1. q \in Seq(Requests) BY DEF QueueOK
<1>2. /\ rest \in Seq(Requests) /\ Len(rest) = Len(q) - 1 /\ Len(q) \in Nat \ {0}
      /\ DOMAIN rest = 1 .. Len(q) - 1 /\ DOMAIN q = 1 .. Len(q)
      /\ (\A i \in 1 .. Len(q) - 1 : rest[i] = q[i + 1]) /\ Head(q) = q[1]
  BY <1>1, TailIs
<1>3. res = <<>>
  <2> SUFFICES ASSUME res # <<>> PROVE FALSE OBVIOUS
  <2> QED BY QueueHead
<1>4. \A i \in 1 .. Len(q) - 1 : i + 1 \in DOMAIN q BY <1>2
<1>5. \A i, j \in 1 .. Len(q) - 1 : rest[i] = rest[j] => i = j
  <2> SUFFICES ASSUME NEW i \in 1 .. Len(q) - 1, NEW j \in 1 .. Len(q) - 1, rest[i] = rest[j] PROVE i = j
      OBVIOUS
  <2>1. i + 1 = j + 1 BY <1>2, <1>4 DEF QueueOK
  <2> QED BY <2>1, <1>2
<1>6. \A i \in 1 .. Len(q) - 1 : rest[i] \in ready /\ rest[i] \notin Range(run) BY <1>2, <1>4 DEF QueueOK
<1>7. \A i, j \in 1 .. Len(q) - 1 : i < j => rest[i] < rest[j]
  <2> SUFFICES ASSUME NEW i \in 1 .. Len(q) - 1, NEW j \in 1 .. Len(q) - 1, i < j PROVE rest[i] < rest[j]
      OBVIOUS
  <2>1. i + 1 < j + 1 /\ Len(res) < i + 1 BY <1>2, <1>3
  <2> QED BY <2>1, <1>2, <1>4 DEF QueueOK
<1>8. ASSUME NEW x \in ready \ Range(run), Model[x] = model PROVE x \in Range(rest)
  <2>1. PICK i \in 1 .. Len(q) : x = q[i] BY <1>2, <1>8 DEF QueueOK, Range
  <2>2. i # 1 BY <2>1, <1>2, <1>8
  <2>3. i - 1 \in 1 .. Len(q) - 1 /\ (i - 1) + 1 = i BY <2>1, <2>2, <1>2
  <2>4. rest[i - 1] = x /\ i - 1 \in DOMAIN rest BY <2>1, <2>3, <1>2
  <2> QED BY <2>4 DEF Range
<1>9. Len(res) = 0 /\ DOMAIN res = {} BY <1>3
<1>10. Len(res) <= Len(rest) BY <1>2, <1>9
<1> QED BY <1>2, <1>5, <1>6, <1>7, <1>8, <1>9, <1>10 DEF QueueOK

(* The first in the queue is admitted: the next preempted one, or else one *)
(* that is new.                                                            *)
LEMMA QueueAdmits ==
    ASSUME NEW q, NEW run \in Seq(Requests), NEW res \in Seq(Requests), Rising(res), NEW model, NEW ready,
           q # <<>>, QueueOK(q, run, res, model, ready), NEW r, r = Head(q),
           NEW more, OneMoreThan(more, run, r), NEW left, left = Keep(res, Requests \ {r})
    PROVE  /\ QueueOK(Tail(q), more, left, model, ready)
           /\ Range(left) = Range(res) \ {r} /\ left \in Seq(Requests) /\ Rising(left)
<1> DEFINE rest == Tail(q)
           n == Len(q)
<1>1. q \in Seq(Requests) BY DEF QueueOK
<1>2. /\ rest \in Seq(Requests) /\ Len(rest) = n - 1 /\ n \in Nat \ {0}
      /\ DOMAIN rest = 1 .. n - 1 /\ DOMAIN q = 1 .. n
      /\ (\A i \in 1 .. n - 1 : rest[i] = q[i + 1]) /\ r = q[1]
  BY <1>1, TailIs
<1>3. Range(more) = Range(run) \cup {r}
  <2>1. run \in Seq(Range(run)) BY ListIs
  <2> QED BY <2>1, AppendIs
<1>4. Range(left) = Range(res) \ {r} /\ left \in Seq(Requests) /\ Rising(left)
  <2>1. Range(left) = Range(res) \cap (Requests \ {r}) /\ left \in Seq(Requests) BY KeepInOrder
  <2>2. Range(res) \subseteq Requests BY ListIs
  <2>3. Requests \in SUBSET Int BY SizesAssumption DEF Requests
  <2>4. \A i, j \in DOMAIN left : i < j => left[i] < left[j] BY <2>3, KeepAscends DEF Rising
  <2> QED BY <2>1, <2>2, <2>4 DEF Rising
<1> HIDE DEF rest, n
<1>5. \A i \in 1 .. n - 1 : i + 1 \in 1 .. n BY <1>2
<1>6. \A i, j \in 1 .. n : q[i] = q[j] => i = j BY <1>2 DEF QueueOK
<1>7. /\ Len(left) \in Nat /\ DOMAIN left = 1 .. Len(left) /\ Len(left) <= n - 1
      /\ \A i \in 1 .. Len(left) : rest[i] = left[i]
      /\ Len(left) + 1 >= Len(res)
  <2> DEFINE m == Len(res)
  <2>1. m \in Nat /\ DOMAIN res = 1 .. m /\ m <= n BY DEF QueueOK, n
  <2>2. Len(left) \in Nat /\ DOMAIN left = 1 .. Len(left) BY <1>4
  <2> HIDE DEF m
  <2>3. CASE res = <<>>
    <3>1. Range(res) \cap (Requests \ {r}) = {} BY <2>3 DEF Range
    <3>2. left = <<>> BY <3>1, KeepNone
    <3>3. m = 0 /\ Len(left) = 0 BY <2>3, <3>2 DEF m
    <3>4. \A i \in 1 .. Len(left) : FALSE BY <3>3
    <3>5. Len(left) <= n - 1 /\ Len(left) + 1 >= Len(res) BY <3>3, <1>2 DEF m
    <3> QED BY <3>4, <3>5, <2>2
  <2>4. CASE res # <<>>
    <3>1. m \in Nat \ {0} /\ res[1] = r
      <4>1. Head(q) = Head(res) BY <2>4, QueueHead
      <4> QED BY <4>1, <2>4, TailIs DEF m
    <3>2. \A i \in DOMAIN res : res[i] \in Requests \ {r} <=> 2 <= i /\ i <= m
      <4>1. \A i \in 1 .. m : res[i] = r <=> i = 1
        <5>1. 1 \in 1 .. m BY <3>1
        <5> QED BY <5>1, <3>1, <2>1, RisingOnce
      <4>2. \A i \in 1 .. m : res[i] \in Requests BY <2>1
      <4>3. \A i \in 1 .. m : i = 1 \/ 2 <= i BY <3>1
      <4>4. \A i \in 1 .. m : i <= m BY <3>1
      <4> QED BY <4>1, <4>2, <4>3, <4>4, <2>1
    <3>3. left = SubSeq(res, 2, m)
      <4>1. 2 \in 1 .. Len(res) + 1 /\ m \in 0 .. Len(res) /\ 2 <= m + 1 BY <3>1 DEF m
      <4> QED BY <4>1, <3>2, KeepInterval
    <3>4. left = [i \in 1 .. m - 1 |-> res[i + 1]]
      <4>1. SubSeq(res, 2, m) = [i \in 1 .. (m - 2) + 1 |-> res[2 + i - 1]] BY <3>1, <2>1
      <4>2. (m - 2) + 1 = m - 1 /\ \A i \in 1 .. m - 1 : 2 + i - 1 = i + 1 BY <3>1
      <4> QED BY <4>1, <4>2, <3>3
    <3>5. Len(left) = m - 1 /\ \A i \in 1 .. m - 1 : left[i] = res[i + 1]
      <4>1. m - 1 \in Nat BY <3>1
      <4>2. \A i \in 1 .. m - 1 : i + 1 \in DOMAIN res BY <2>1, <3>1
      <4>3. \A i \in 1 .. m - 1 : left[i] = res[i + 1] BY <3>4
      <4>4. \A i \in 1 .. m - 1 : res[i + 1] \in Requests BY <4>2
      <4>5. left \in [1 .. m - 1 -> Requests] BY <3>4, <4>4
      <4>6. Len(left) = m - 1 BY <4>1, <4>5, FunctionIsSeq
      <4> QED BY <4>3, <4>6
    <3>6. \A i \in 1 .. m - 1 : i + 1 \in DOMAIN res /\ i \in 1 .. n - 1 BY <2>1, <3>1, <1>2
    <3>7. \A i \in DOMAIN res : q[i] = res[i] BY DEF QueueOK
    <3>8. \A i \in 1 .. m - 1 : rest[i] = q[i + 1] BY <3>6, <1>2
    <3>9. \A i \in 1 .. m - 1 : rest[i] = left[i] BY <3>5, <3>6, <3>7, <3>8
    <3>10. Len(left) <= n - 1 /\ Len(left) + 1 >= Len(res) BY <3>1, <3>5, <2>1, <1>2 DEF m
    <3> QED BY <3>5, <3>9, <3>10, <2>2
  <2> QED BY <2>3, <2>4
<1>8. \A i, j \in 1 .. n - 1 : rest[i] = rest[j] => i = j
  <2> SUFFICES ASSUME NEW i \in 1 .. n - 1, NEW j \in 1 .. n - 1, rest[i] = rest[j] PROVE i = j OBVIOUS
  <2>1. i + 1 = j + 1 BY <1>2, <1>5, <1>6
  <2> QED BY <2>1, <1>2
<1>9. \A i \in 1 .. n - 1 : rest[i] \in ready /\ rest[i] \notin Range(more)
  <2> SUFFICES ASSUME NEW i \in 1 .. n - 1 PROVE rest[i] \in ready /\ rest[i] \notin Range(more) OBVIOUS
  <2>1. q[i + 1] \in ready /\ q[i + 1] \notin Range(run) BY <1>2, <1>5 DEF QueueOK
  <2>2. 1 \in 1 .. n /\ i + 1 # 1 BY <1>2
  <2>3. q[i + 1] # r BY <2>2, <1>2, <1>5, <1>6
  <2> QED BY <2>1, <2>3, <1>2, <1>3
<1>10. \A i, j \in 1 .. n - 1 : Len(left) < i /\ i < j => rest[i] < rest[j]
  <2> SUFFICES ASSUME NEW i \in 1 .. n - 1, NEW j \in 1 .. n - 1, Len(left) < i, i < j PROVE rest[i] < rest[j]
      OBVIOUS
  <2>1. Len(res) \in Nat OBVIOUS
  <2>2. Len(res) < i + 1 /\ i + 1 < j + 1 BY <2>1, <1>2, <1>7
  <2>3. q[i + 1] < q[j + 1] BY <2>2, <1>2, <1>5 DEF QueueOK
  <2> QED BY <2>3, <1>2
<1>11. ASSUME NEW x \in ready \ Range(more), Model[x] = model PROVE x \in Range(rest)
  <2>1. x \in Range(q) /\ x # r BY <1>3, <1>11 DEF QueueOK
  <2>2. PICK i \in 1 .. n : x = q[i] BY <2>1, <1>2 DEF Range
  <2>3. i - 1 \in 1 .. n - 1 /\ (i - 1) + 1 = i
    <3>1. i # 1 BY <2>1, <2>2, <1>2
    <3> QED BY <3>1, <2>2, <1>2
  <2>4. rest[i - 1] = x BY <2>2, <2>3, <1>2
  <2> QED BY <2>3, <2>4, <1>2 DEF Range
<1>12. Len(left) <= Len(rest) BY <1>2, <1>7
<1>13. QueueOK(rest, more, left, model, ready)
  BY <1>2, <1>7, <1>8, <1>9, <1>10, <1>11, <1>12 DEF QueueOK
<1> QED BY <1>4, <1>13 DEF rest

----------------------------------------------------------------------------
(* Ready and waiting requests; the opening of an iteration.                *)

(* The requests are finitely many numbers.                                 *)
LEMMA RequestsFinite == /\ NRequests \in Nat /\ IsFiniteSet(Requests)
                        /\ Requests \in SUBSET Nat /\ Requests \in SUBSET Int
<1>1. NRequests \in Nat BY SizesAssumption
<1> QED BY <1>1, FS_Interval DEF Requests

(* The requests that may run change only with the emitted tokens and the   *)
(* arrivals.                                                               *)
LEMMA SameReady ==
    ASSUME emitted' = emitted
    PROVE  /\ Runnable' = Runnable /\ Unfinished' = Unfinished
           /\ arrived' = arrived => Ready' = Ready
           /\ \A r : Complete(r)' <=> Complete(r)
<1>1. \A r : Complete(r)' <=> Complete(r) BY DEF Complete
<1>2. Runnable' = Runnable BY <1>1 DEF Runnable
<1>3. Unfinished' = Unfinished BY <1>1 DEF Unfinished
<1>4. arrived' = arrived => Ready' = Ready BY <1>2 DEF Ready
<1> QED BY <1>1, <1>2, <1>3, <1>4

(* The ready requests are runnable, the runnable ones unfinished.          *)
LEMMA ReadyIs ==
    /\ Ready \subseteq Runnable /\ Runnable \subseteq Unfinished /\ Unfinished \subseteq Requests
BY DEF Ready, Runnable, Unfinished

(* The preempted requests and then the others, by arrival.                 *)
LEMMA WaitingIs ==
    ASSUME NEW S \in SUBSET Requests, running \in Seq(Requests), resumed \in Seq(Requests),
           Rising(resumed), \A x \in Range(running), y \in Range(resumed) : x < y,
           Range(running) \cup Range(resumed) \subseteq S, NEW model
    PROVE  /\ Waiting(S) = resumed \o Ascending(S \ (Range(running) \cup Range(resumed)))
           /\ QueueOK(Waiting(S), running, resumed, model, S)
<1> DEFINE L == Range(running) \cup Range(resumed)
           new == Ascending(S \ L)
           q == resumed \o new
           m == Len(resumed)
           c == Len(new)
<1>1. Keep(resumed, S) = resumed BY KeepAll
<1>2. Waiting(S) = q BY <1>1 DEF Waiting
<1>3. S \ L \in SUBSET Int /\ IsFiniteSet(S \ L)
  <2>1. S \ L \in SUBSET Requests OBVIOUS
  <2> HIDE DEF L
  <2> QED BY <2>1, RequestsFinite, FS_Subset
<1>4. /\ new \in Seq(S \ L) /\ Range(new) = S \ L
      /\ DOMAIN new = 1 .. Cardinality(S \ L)
      /\ \A i, j \in DOMAIN new : i < j => new[i] < new[j]
  <2> HIDE DEF L
  <2> QED BY <1>3, AscendingIs
<1>5. new \in Seq(Requests) /\ c \in Nat /\ DOMAIN new = 1 .. c
      /\ \A i, j \in 1 .. c : i < j => new[i] < new[j]
  <2>1. S \ L \subseteq Requests OBVIOUS
  <2> HIDE DEF L, new
  <2>2. new \in Seq(Requests) BY <1>4, <2>1
  <2>3. DOMAIN new = 1 .. Len(new) /\ Len(new) \in Nat BY <2>2
  <2> QED BY <1>4, <2>2, <2>3
<1>6. m \in Nat /\ DOMAIN resumed = 1 .. m OBVIOUS
<1> HIDE DEF new
<1>7. /\ q \in Seq(Requests) /\ Len(q) = m + c /\ DOMAIN q = 1 .. m + c
      /\ \A i \in 1 .. m : q[i] = resumed[i]
      /\ \A i \in 1 .. c : q[m + i] = new[i]
  <2>1. q \in Seq(Requests) /\ Len(q) = m + c BY <1>5, <1>6
  <2>2. DOMAIN q = 1 .. m + c BY <2>1, <1>5, <1>6
  <2>3. \A i \in 1 .. m : q[i] = resumed[i] BY <1>5, <1>6
  <2>4. \A i \in 1 .. c : q[m + i] = new[i] BY <1>5, <1>6
  <2> QED BY <2>1, <2>2, <2>3, <2>4
<1>8. \A i \in 1 .. m : resumed[i] \in Range(resumed) BY <1>6 DEF Range
<1>9. \A i \in 1 .. c : new[i] \in S \ L
  <2>1. \A i \in 1 .. c : new[i] \in Range(new) BY <1>5 DEF Range
  <2> QED BY <2>1, <1>4
<1>10. \A x \in Range(running) : x \notin Range(resumed)
  <2>1. Range(resumed) \in SUBSET Int /\ Range(running) \in SUBSET Int BY ListIs, RequestsFinite
  <2>2. \A x \in Range(resumed) : ~(x < x) BY <2>1
  <2> QED BY <2>2
<1>11. \A i, j \in 1 .. m : resumed[i] = resumed[j] => i = j BY <1>6, RisingOnce
<1>12. \A i, j \in 1 .. c : new[i] = new[j] => i = j
  <2>1. Rising(new) BY <1>5 DEF Rising
  <2> QED BY <2>1, <1>5, RisingOnce
<1> HIDE DEF q, m, c
<1>13. \A k \in 1 .. m + c : k \in 1 .. m \/ (k - m \in 1 .. c /\ k = m + (k - m)) BY <1>5, <1>6
<1>14. \A k \in 1 .. m + c : \/ k \in 1 .. m /\ q[k] \in Range(resumed) /\ q[k] = resumed[k]
                             \/ k - m \in 1 .. c /\ ~(k \in 1 .. m) /\ q[k] \in S \ L /\ q[k] = new[k - m]
  <2> SUFFICES ASSUME NEW k \in 1 .. m + c
               PROVE  \/ k \in 1 .. m /\ q[k] \in Range(resumed) /\ q[k] = resumed[k]
                      \/ k - m \in 1 .. c /\ ~(k \in 1 .. m) /\ q[k] \in S \ L /\ q[k] = new[k - m]
      OBVIOUS
  <2>1. CASE k \in 1 .. m BY <2>1, <1>7, <1>8
  <2>2. CASE ~(k \in 1 .. m)
    <3>1. k - m \in 1 .. c /\ k = m + (k - m) BY <2>2, <1>13
    <3>2. q[m + (k - m)] = new[k - m] BY <3>1, <1>7
    <3>3. q[k] = new[k - m] BY <3>1, <3>2
    <3> QED BY <3>1, <3>3, <2>2, <1>9
  <2> QED BY <2>1, <2>2
<1>15. \A i, j \in 1 .. m + c : q[i] = q[j] => i = j
  <2> SUFFICES ASSUME NEW i \in 1 .. m + c, NEW j \in 1 .. m + c, q[i] = q[j] PROVE i = j OBVIOUS
  <2>1. CASE i \in 1 .. m /\ j \in 1 .. m BY <2>1, <1>11, <1>14
  <2>2. CASE ~(i \in 1 .. m) /\ ~(j \in 1 .. m)
    <3>1. i - m = j - m BY <2>2, <1>12, <1>14
    <3> QED BY <3>1, <1>5, <1>6
  <2>3. CASE i \in 1 .. m /\ ~(j \in 1 .. m) BY <2>3, <1>14
  <2>4. CASE ~(i \in 1 .. m) /\ j \in 1 .. m BY <2>4, <1>14
  <2> QED BY <2>1, <2>2, <2>3, <2>4
<1>16. \A i \in 1 .. m + c : q[i] \in S /\ q[i] \notin Range(running) BY <1>10, <1>14
<1>17. \A i, j \in 1 .. m + c : m < i /\ i < j => q[i] < q[j]
  <2> SUFFICES ASSUME NEW i \in 1 .. m + c, NEW j \in 1 .. m + c, m < i, i < j PROVE q[i] < q[j] OBVIOUS
  <2>1. ~(i \in 1 .. m) /\ ~(j \in 1 .. m) /\ i - m < j - m BY <1>5, <1>6
  <2>2. q[i] = new[i - m] /\ q[j] = new[j - m] /\ i - m \in 1 .. c /\ j - m \in 1 .. c BY <2>1, <1>14
  <2> QED BY <2>1, <2>2, <1>5
<1>18. ASSUME NEW x \in S \ Range(running) PROVE x \in Range(q)
  <2>1. CASE x \in Range(resumed)
    <3>1. PICK i \in 1 .. m : x = resumed[i] BY <2>1, <1>6 DEF Range
    <3>2. i \in 1 .. m + c BY <1>5, <1>6
    <3> QED BY <3>1, <3>2, <1>7 DEF Range
  <2>2. CASE x \notin Range(resumed)
    <3>1. PICK i \in 1 .. c : x = new[i] BY <2>2, <1>4, <1>5 DEF Range
    <3>2. m + i \in 1 .. m + c BY <1>5, <1>6
    <3> QED BY <3>1, <3>2, <1>7 DEF Range
  <2> QED BY <2>1, <2>2
<1>19. m <= Len(q) BY <1>5, <1>6, <1>7
<1>20. QueueOK(q, running, resumed, model, S)
  BY <1>6, <1>7, <1>15, <1>16, <1>17, <1>18, <1>19 DEF QueueOK, m
<1> QED BY <1>2, <1>20 DEF q, new

(* An iteration that is opened.                                            *)
LEMMA OpenedOK ==
    ASSUME LineOK(running, resumed, Live(kv), Ready, Unfinished), NEW S \in SUBSET Requests,
           Live(kv) \subseteq S, NEW wants, NEW it, it = Opened(S)
    PROVE  /\ DOMAIN it = Locals /\ it.phase = "running" /\ it.preempted = FALSE /\ it.slices = <<>>
           /\ IterationOK(it, running, Live(kv), processed, wants)
           /\ RunningOK(it, running, resumed, processed, wants, S)
<1> DEFINE W == Waiting(S)
           run == Keep(running, S)
<1>0. /\ running \in Seq(Requests) /\ resumed \in Seq(Requests) /\ Rising(running) /\ Rising(resumed)
      /\ (\A x \in Range(running), y \in Range(resumed) : x < y)
      /\ Range(running) \cup Range(resumed) = Live(kv) /\ SameModel(Live(kv))
  BY DEF LineOK
<1>1. run = running BY <1>0, KeepAll
<1>2. /\ DOMAIN it = Locals /\ it.phase = "running" /\ it.preempted = FALSE /\ it.slices = <<>>
      /\ it.todo = run /\ it.waiting = W /\ it.offer = <<>> /\ it.budget = MaxBatchTokens
      /\ it.model = Model[Head(run \o W)]
  BY DEF Opened, Idle, Locals
<1>3. W = resumed \o Ascending(S \ (Range(running) \cup Range(resumed)))
  BY <1>0, WaitingIs
<1>4. \A model : QueueOK(W, running, resumed, model, S) BY <1>0, WaitingIs
<1> HIDE DEF W, run
<1>5. W \in Seq(Requests) BY <1>4 DEF QueueOK
<1>6. ASSUME NEW y \in Live(kv) PROVE Model[y] = it.model
  <2>1. CASE running # <<>>
    <3>1. Len(running) \in Nat \ {0} /\ Len(W) \in Nat BY <1>0, <1>5, <2>1
    <3>2. 1 \in 1 .. Len(running) /\ 1 \in 1 .. Len(running) + Len(W) BY <3>1
    <3>3. (running \o W)[1] = running[1] BY <1>0, <1>5, <3>2
    <3>4. Len(running \o W) = Len(running) + Len(W) /\ running \o W \in Seq(Requests) BY <1>0, <1>5
    <3>5. Head(running \o W) = running[1]
      <4>1. running \o W # <<>> BY <3>1, <3>4
      <4> QED BY <4>1, <3>3, <3>4, TailIs
    <3>6. running[1] \in Range(running) BY <3>2, <1>0 DEF Range
    <3> QED BY <3>5, <3>6, <1>0, <1>1, <1>2 DEF SameModel
  <2>2. CASE running = <<>>
    <3>1. running \o W = W BY <2>2, <1>5
    <3>2. Range(running) = {} BY <2>2 DEF Range
    <3>3. resumed # <<>> BY <3>2, <1>0 DEF Range
    <3>4. W # <<>>
      <4>1. Len(resumed) <= Len(W) /\ Len(resumed) > 0 BY <1>0, <1>4, <3>3 DEF QueueOK
      <4> QED BY <4>1
    <3>5. Head(W) \in Range(resumed) BY <1>0, <1>4, <3>3, <3>4, QueueHead
    <3> QED BY <3>1, <3>5, <1>0, <1>1, <1>2 DEF SameModel
  <2> QED BY <2>1, <2>2
<1>7. ServesFirst(<<>>, running, processed)
  <2>1. Len(running) \in Nat BY <1>0
  <2> QED BY <2>1 DEF ServesFirst
<1>8. IterationOK(it, running, Live(kv), processed, wants)
  BY <1>2, <1>6, <1>7, SpendNone DEF IterationOK
<1>9. LoopOK(running, running, 0)
  <2>1. DOMAIN running = 1 .. Len(running) /\ Len(running) \in Nat BY <1>0
  <2>2. \A i \in 1 .. Len(running) : 0 + i = i /\ i <= Len(running) BY <2>1
  <2> QED BY <1>0, <2>1, <2>2 DEF LoopOK
<1>10. RunningOK(it, running, resumed, processed, wants, S)
  <2>1. Len(<<>>) = 0 OBVIOUS
  <2> QED BY <2>1, <1>1, <1>2, <1>4, <1>9 DEF RunningOK, OfferOK
<1> QED BY <1>2, <1>8, <1>10

----------------------------------------------------------------------------
(* Steps that only plan; the loop over the running requests.               *)

(* More requests are ready.                                                *)
LEMMA MoreReady ==
    ASSUME NEW run, NEW res, NEW line, NEW ready, NEW more, ready \subseteq more, NEW unfinished,
           LineOK(run, res, line, ready, unfinished)
    PROVE  LineOK(run, res, line, more, unfinished)
BY DEF LineOK

(* An iteration that is opened over the requests that have arrived         *)
(* satisfies the invariant.                                                *)
LEMMA OpenedInv ==
    ASSUME EngineInv, NEW n \in arrived .. NRequests,
           UNCHANGED <<kv, progress, admitted, running, resumed>>, arrived' = n,
           iteration' = Opened({r \in Runnable : r <= n})
    PROVE  EngineInv'
<1> DEFINE S == {r \in Runnable : r <= n}
<1>0. TypeInv /\ PlaneInv /\ LineInv /\ arrived \in 0 .. NRequests BY DEF EngineInv, TypeInv
<1>1. /\ kv' = kv /\ processed' = processed /\ emitted' = emitted /\ prefillTarget' = prefillTarget
      /\ admitted' = admitted /\ running' = running /\ resumed' = resumed
  BY DEF progress
<1>2. Runnable' = Runnable /\ Unfinished' = Unfinished /\ \A r : Complete(r)' <=> Complete(r)
  BY <1>1, SameReady
<1>3. Ready' = S BY <1>2 DEF Ready
<1>4. Ready \subseteq S /\ S \subseteq Requests
  <2>1. \A r \in Runnable : r \in Nat BY ReadyIs, RequestsFinite
  <2>2. arrived \in Nat /\ n \in Nat /\ arrived <= n BY <1>0, RequestsFinite
  <2>3. \A r \in Runnable : r <= arrived => r <= n BY <2>1, <2>2
  <2> QED BY <2>3, ReadyIs DEF Ready
<1>5. LineOK(running, resumed, Live(kv), Ready, Unfinished) BY <1>0 DEF LineInv
<1>6. Live(kv) \subseteq S BY <1>4, <1>5 DEF LineOK
<1> DEFINE it == iteration'
<1>7. it = Opened(S) OBVIOUS
<1> HIDE DEF it, S
<1>8. /\ DOMAIN it = Locals /\ it.phase = "running" /\ it.preempted = FALSE /\ it.slices = <<>>
      /\ IterationOK(it, running, Live(kv), processed, Wants(processed, prefillTarget))
      /\ RunningOK(it, running, resumed, processed, Wants(processed, prefillTarget), S)
  BY <1>4, <1>5, <1>6, <1>7, OpenedOK
<1>9. TypeInv'
  <2>1. arrived' \in 0 .. NRequests BY <1>0, RequestsFinite
  <2> QED BY <1>0, <1>1, <2>1 DEF TypeInv
<1>10. PlaneInv'
  <2>1. SlicesOK(kv, <<>>) BY DEF SlicesOK, Range
  <2>2. Live(kv) = {r \in admitted : ~Complete(r)} /\ PlaneOK(kv) BY <1>0 DEF PlaneInv
  <2>3. {r \in admitted : ~Complete(r)}' = {r \in admitted : ~Complete(r)} BY <1>1, <1>2
  <2> QED BY <1>1, <1>8, <2>1, <2>2, <2>3 DEF PlaneInv, it
<1>11. LineInv'
  <2>1. LineOK(running, resumed, Live(kv), S, Unfinished) BY <1>4, <1>5, MoreReady
  <2> QED BY <1>0, <1>1, <1>2, <1>3, <2>1 DEF LineInv
<1>12. IterationInv'
  <2>1. IterationIs(it, kv, running, resumed, processed, Wants(processed, prefillTarget), S)
    BY <1>8 DEF IterationIs
  <2> QED BY <1>1, <1>3, <2>1 DEF IterationInv, it
<1> QED BY <1>9, <1>10, <1>11, <1>12 DEF EngineInv

(* StartIteration preserves the invariant.                                 *)
LEMMA StartOK == ASSUME EngineInv, StartIteration PROVE EngineInv'
<1>1. PICK n \in arrived .. NRequests :
        /\ arrived' = n /\ iteration' = Opened({r \in Runnable : r <= n})
  BY DEF StartIteration
<1>2. UNCHANGED <<kv, progress, admitted, running, resumed>> BY DEF StartIteration
<1> QED BY <1>1, <1>2, OpenedInv

(* A step that only changes the locals of the iteration.                   *)
LEMMA PlanOnlyOK ==
    ASSUME EngineInv, PlanOnly,
           SlicesOK(kv, iteration'.slices), DOMAIN iteration' = Locals,
           iteration'.phase = iteration.phase, iteration'.preempted = iteration.preempted,
           iteration.phase # "idle",
           IterationOK(iteration', running, Live(kv), processed, Wants(processed, prefillTarget)),
           iteration.phase = "running" => RunningOK(iteration', running, resumed, processed, Wants(processed, prefillTarget), Ready),
           iteration.phase = "admit" => AdmitPhaseOK(iteration', kv, running, resumed, Ready)
    PROVE  EngineInv'
<1>0. TypeInv /\ PlaneInv /\ LineInv /\ IterationInv BY DEF EngineInv
<1>1. /\ kv' = kv /\ processed' = processed /\ emitted' = emitted /\ prefillTarget' = prefillTarget
      /\ admitted' = admitted /\ running' = running /\ resumed' = resumed /\ arrived' = arrived
  BY DEF PlanOnly, progress
<1>2. Ready' = Ready /\ Unfinished' = Unfinished /\ \A r : Complete(r)' <=> Complete(r)
  BY <1>1, SameReady
<1>3. TypeInv' BY <1>0, <1>1 DEF TypeInv
<1>4. PlaneInv'
  <2>1. {r \in admitted : ~Complete(r)}' = {r \in admitted : ~Complete(r)} BY <1>1, <1>2
  <2> QED BY <1>0, <1>1, <2>1 DEF PlaneInv
<1>5. LineInv' BY <1>0, <1>1, <1>2 DEF LineInv
<1>6. iteration.phase \in {"idle", "running", "admit"} /\ iteration.preempted \in BOOLEAN
  BY <1>0 DEF IterationInv, IterationIs
<1>7. IterationInv'
  <2> DEFINE it == iteration'
  <2>1. /\ DOMAIN it = Locals /\ it.phase \in {"idle", "running", "admit"} /\ it.preempted \in BOOLEAN
        /\ it.phase # "idle"
        /\ IterationOK(it, running, Live(kv), processed, Wants(processed, prefillTarget))
        /\ it.phase = "running" => RunningOK(it, running, resumed, processed, Wants(processed, prefillTarget), Ready)
        /\ it.phase = "admit" => AdmitPhaseOK(it, kv, running, resumed, Ready)
    BY <1>6
  <2> HIDE DEF it
  <2>2. IterationIs(it, kv, running, resumed, processed, Wants(processed, prefillTarget), Ready)
    BY <2>1 DEF IterationIs
  <2> QED BY <1>1, <1>2, <2>2 DEF IterationInv, it
<1> QED BY <1>3, <1>4, <1>5, <1>7 DEF EngineInv

(* An error changes nothing but the failure.                               *)
LEMMA RaiseOK == ASSUME EngineInv, NEW error, Raise(error) PROVE EngineInv'
<1>0. TypeInv /\ PlaneInv /\ LineInv /\ IterationInv BY DEF EngineInv
<1>1. /\ kv' = kv /\ processed' = processed /\ emitted' = emitted /\ prefillTarget' = prefillTarget
      /\ admitted' = admitted /\ running' = running /\ resumed' = resumed /\ arrived' = arrived
      /\ iteration' = iteration
  BY DEF Raise, progress
<1>2. Ready' = Ready /\ Unfinished' = Unfinished /\ \A r : Complete(r)' <=> Complete(r)
  BY <1>1, SameReady
<1>3. TypeInv' BY <1>0, <1>1 DEF TypeInv
<1>4. PlaneInv'
  <2>1. {r \in admitted : ~Complete(r)}' = {r \in admitted : ~Complete(r)} BY <1>1, <1>2
  <2> QED BY <1>0, <1>1, <2>1 DEF PlaneInv
<1>5. LineInv' BY <1>0, <1>1, <1>2 DEF LineInv
<1>6. IterationInv' BY <1>0, <1>1, <1>2 DEF IterationInv
<1> QED BY <1>3, <1>4, <1>5, <1>6 DEF EngineInv

(* A stuttering step preserves the invariant.                              *)
LEMMA StutterOK == ASSUME EngineInv, UNCHANGED vars PROVE EngineInv'
<1>0. TypeInv /\ PlaneInv /\ LineInv /\ IterationInv BY DEF EngineInv
<1>2. /\ kv' = kv /\ processed' = processed /\ emitted' = emitted /\ prefillTarget' = prefillTarget
      /\ admitted' = admitted /\ running' = running /\ resumed' = resumed /\ arrived' = arrived
      /\ iteration' = iteration
  BY DEF vars, progress
<1>3. Raise(failure') BY <1>2 DEF Raise, progress
<1> QED BY <1>3, RaiseOK

(* The running requests of the iteration and its slices.                   *)
LEMMA LoopFacts ==
    ASSUME EngineInv, iteration.phase = "running"
    PROVE  /\ RunningOK(iteration, running, resumed, processed, Wants(processed, prefillTarget), Ready)
           /\ IterationOK(iteration, running, Live(kv), processed, Wants(processed, prefillTarget))
           /\ SlicesOK(kv, iteration.slices) /\ DOMAIN iteration = Locals
           /\ running \in Seq(Requests) /\ Rising(running) /\ Range(running) \subseteq Live(kv)
           /\ Len(iteration.slices) \in Nat /\ Len(iteration.slices) <= Len(running)
           /\ LoopOK(iteration.todo, running, Len(iteration.slices))
           /\ iteration.slices \in Seq(Range(iteration.slices))
           /\ PlaneOK(kv) /\ Range(running) \subseteq Requests
<1>1. /\ RunningOK(iteration, running, resumed, processed, Wants(processed, prefillTarget), Ready)
      /\ IterationOK(iteration, running, Live(kv), processed, Wants(processed, prefillTarget))
      /\ DOMAIN iteration = Locals
  BY DEF EngineInv, IterationInv, IterationIs
<1>2. SlicesOK(kv, iteration.slices) /\ PlaneOK(kv) BY DEF EngineInv, PlaneInv
<1>3. running \in Seq(Requests) /\ Rising(running) /\ Range(running) \subseteq Live(kv)
  BY DEF EngineInv, LineInv, LineOK
<1>4. iteration.slices \in Seq(Range(iteration.slices)) BY <1>2 DEF SlicesOK
<1>5. Len(iteration.slices) \in Nat BY <1>4
<1>6. Len(iteration.slices) <= Len(running) BY <1>1 DEF IterationOK, ServesFirst
<1>7. LoopOK(iteration.todo, running, Len(iteration.slices)) BY <1>1 DEF RunningOK
<1>8. Range(running) \subseteq Requests BY <1>3, ListIs
<1> QED BY <1>1, <1>2, <1>3, <1>4, <1>5, <1>6, <1>7, <1>8

(* SkipRunning preserves the invariant.                                    *)
LEMMA SkipRunningOK == ASSUME EngineInv, SkipRunning PROVE EngineInv'
<1> DEFINE it == iteration
           jt == iteration'
<1>1. /\ it.phase = "running" /\ it.todo # <<>> /\ it.offer = <<>> /\ PlanOnly
      /\ Head(it.todo) \notin Range(running) \/ Model[Head(it.todo)] # it.model
      /\ jt = [it EXCEPT !.todo = Tail(@)]
  BY DEF SkipRunning, InRunningLoop, Current
<1>2. /\ RunningOK(it, running, resumed, processed, Wants(processed, prefillTarget), Ready)
      /\ IterationOK(it, running, Live(kv), processed, Wants(processed, prefillTarget))
      /\ SlicesOK(kv, it.slices) /\ DOMAIN it = Locals
      /\ running \in Seq(Requests) /\ Range(running) \subseteq Live(kv)
      /\ Len(it.slices) \in Nat /\ Len(it.slices) <= Len(running)
      /\ LoopOK(it.todo, running, Len(it.slices))
  BY <1>1, LoopFacts
<1>3. /\ DOMAIN jt = Locals /\ jt.todo = Tail(it.todo) /\ jt.phase = it.phase /\ jt.waiting = it.waiting
      /\ jt.model = it.model /\ jt.offer = it.offer /\ jt.slices = it.slices /\ jt.budget = it.budget
      /\ jt.preempted = it.preempted
  BY <1>1, <1>2 DEF Locals
<1> HIDE DEF it, jt
<1>4. Head(it.todo) \notin Range(running) BY <1>1, <1>2 DEF IterationOK
<1>5. LoopOK(jt.todo, running, Len(it.slices)) BY <1>1, <1>2, <1>3, <1>4, LoopSkips
<1>6. RunningOK(jt, running, resumed, processed, Wants(processed, prefillTarget), Ready)
  BY <1>1, <1>2, <1>3, <1>5 DEF RunningOK, OfferOK
<1>7. IterationOK(jt, running, Live(kv), processed, Wants(processed, prefillTarget))
  BY <1>2, <1>3 DEF IterationOK
<1>8. SlicesOK(kv, jt.slices) BY <1>2, <1>3
<1> QED BY <1>1, <1>3, <1>6, <1>7, <1>8, PlanOnlyOK DEF it, jt

(* The budget is not spent before the last running request is offered.     *)
LEMMA BudgetLeft ==
    ASSUME EngineInv, iteration.phase = "running", Len(iteration.slices) < Len(running)
    PROVE  iteration.budget \in Nat \ {0}
<1> DEFINE k == Len(iteration.slices)
           B == InBatch(iteration.slices)
           R == Range(running) \ {Last(running)}
           wants == Wants(processed, prefillTarget)
<1>0. /\ IterationOK(iteration, running, Live(kv), processed, wants)
      /\ running \in Seq(Requests) /\ Rising(running) /\ iteration.slices \in Seq(Range(iteration.slices))
      /\ k \in Nat
  BY LoopFacts
<1>1. ServesFirst(iteration.slices, running, processed) /\ Spends(iteration.slices, iteration.budget, wants)
  BY <1>0 DEF IterationOK
<1>2. /\ B = {running[i] : i \in 1 .. k} /\ B \subseteq Range(running) /\ Range(running) \subseteq Requests
      /\ \A i \in DOMAIN running : running[i] \in B => i <= k
  BY <1>0, <1>1, ServedAre
<1>3. running # <<>> /\ Len(running) \in DOMAIN running /\ Last(running) = running[Len(running)]
  <2>1. Len(running) \in Nat /\ DOMAIN running = 1 .. Len(running) BY <1>0
  <2>2. Len(running) > 0 BY <1>0, <2>1
  <2> QED BY <2>1, <2>2 DEF Last
<1>4. Last(running) \notin B
  <2>1. Len(running) \in Nat BY <1>0
  <2> QED BY <1>0, <1>2, <1>3, <2>1
<1>5. B \subseteq R BY <1>2, <1>4
<1>6. wants \in [Requests -> Nat]
  <2>1. processed \in [Requests -> Nat] /\ prefillTarget \in [Requests -> Nat] BY DEF EngineInv, TypeInv
  <2> QED BY <2>1, WantsAre
<1>7. Total(wants, R) < MaxBatchTokens BY <1>3 DEF EngineInv, LineInv, LastOK
<1>8. IsFiniteSet(R) /\ IsFiniteSet(B) /\ R \subseteq Requests
  <2>1. R \in SUBSET Requests /\ B \in SUBSET Requests BY <1>2
  <2> HIDE DEF R, B
  <2> QED BY <2>1, RequestsFinite, FS_Subset
<1> HIDE DEF wants, B, R, k
<1>9. Total(wants, B) <= Total(wants, R) /\ Total(wants, B) \in Nat /\ Total(wants, R) \in Nat
  <2>1. (\A x \in R : wants[x] \in Nat) /\ (\A x \in B : wants[x] \in Nat /\ wants[x] <= wants[x])
    BY <1>5, <1>6, <1>8
  <2>2. B \in SUBSET R BY <1>5
  <2> QED BY <2>1, <2>2, <1>8, SumsGrow, SumsAdd
<1>10. iteration.budget \in Nat /\ Total(wants, B) + iteration.budget >= MaxBatchTokens
  BY <1>1 DEF Spends, B
<1>11. MaxBatchTokens \in Nat BY PolicyAssumption
<1> QED BY <1>7, <1>9, <1>10, <1>11

(* OfferRunning preserves the invariant: the budget lasts for the          *)
(* request's slice.                                                        *)
LEMMA OfferRunningOK == ASSUME EngineInv, OfferRunning PROVE EngineInv'
<1> DEFINE it == iteration
           jt == iteration'
           c == Head(iteration.todo)
<1>1. /\ it.phase = "running" /\ it.todo # <<>> /\ it.offer = <<>>
      /\ c \in Range(running)
      /\ IF it.budget = 0 THEN jt = [it EXCEPT !.todo = <<>>] /\ PlanOnly
         ELSE \/ Raise("decode frontier is inconsistent")
              \/ PlanOnly /\ jt = [it EXCEPT !.offer = <<SliceFor(c, processed[c], it.budget)>>]
  BY DEF OfferRunning, InRunningLoop, Current
<1>2. /\ RunningOK(it, running, resumed, processed, Wants(processed, prefillTarget), Ready)
      /\ IterationOK(it, running, Live(kv), processed, Wants(processed, prefillTarget))
      /\ SlicesOK(kv, it.slices) /\ DOMAIN it = Locals
      /\ running \in Seq(Requests) /\ Range(running) \subseteq Live(kv)
      /\ Len(it.slices) \in Nat /\ Len(it.slices) <= Len(running)
      /\ LoopOK(it.todo, running, Len(it.slices))
  BY <1>1, LoopFacts
<1>3. Len(it.slices) < Len(running)
  <2>1. Len(it.slices) + 1 <= Len(running) BY <1>1, <1>2, LoopSelects
  <2>2. Len(running) \in Nat BY <1>2
  <2> QED BY <2>1, <2>2, <1>2
<1>4. it.budget \in Nat \ {0} BY <1>1, <1>3, BudgetLeft
<1>5. CASE Raise("decode frontier is inconsistent") BY <1>5, RaiseOK
<1>6. CASE PlanOnly /\ jt = [it EXCEPT !.offer = <<SliceFor(c, processed[c], it.budget)>>]
  <2>1. /\ DOMAIN jt = Locals /\ jt.offer = <<SliceFor(c, processed[c], it.budget)>>
        /\ jt.phase = it.phase /\ jt.waiting = it.waiting /\ jt.todo = it.todo
        /\ jt.model = it.model /\ jt.slices = it.slices /\ jt.budget = it.budget
        /\ jt.preempted = it.preempted
    BY <1>6, <1>2 DEF Locals
  <2>2. c = Head(it.todo) OBVIOUS
  <2> HIDE DEF it, jt, c
  <2>3. OfferOK(jt, running, processed, Wants(processed, prefillTarget))
    <3>1. Head(jt.todo) = c BY <2>1, <2>2
    <3>2. SliceIs(jt.offer[1], c, processed[c], Wants(processed, prefillTarget)[c], jt.budget)
      <4>1. c \in Requests /\ processed[c] \in Nat /\ prefillTarget[c] \in Nat
        <5>1. c \in Requests BY <1>1, LoopFacts DEF it
        <5> QED BY <5>1 DEF EngineInv, TypeInv
      <4>2. Wants(processed, prefillTarget)[c] = Want(c, processed[c], prefillTarget[c])
        BY <4>1 DEF Wants
      <4>3. jt.offer[1] = SliceFor(c, processed[c], it.budget) BY <2>1
      <4> QED BY <1>4, <2>1, <4>1, <4>2, <4>3, SliceForIs
    <3>4. jt.offer = <<jt.offer[1]>> BY <2>1
    <3>3. jt.todo # <<>> BY <1>1, <2>1
    <3> QED BY <3>1, <3>2, <3>3, <3>4, <1>1, <2>1 DEF OfferOK
  <2>4. RunningOK(jt, running, resumed, processed, Wants(processed, prefillTarget), Ready) BY <1>2, <2>1, <2>3 DEF RunningOK
  <2>5. IterationOK(jt, running, Live(kv), processed, Wants(processed, prefillTarget))
    BY <1>2, <2>1 DEF IterationOK
  <2>6. SlicesOK(kv, jt.slices) BY <1>2, <2>1
  <2> QED BY <1>1, <1>6, <2>1, <2>4, <2>5, <2>6, PlanOnlyOK DEF it, jt
<1> QED BY <1>1, <1>4, <1>5, <1>6

----------------------------------------------------------------------------
(* Selecting a slice.                                                      *)

(* What the invariant says outside the iteration's locals.                 *)
LEMMA ProgressIs ==
    ASSUME EngineInv
    PROVE  /\ processed \in [Requests -> Nat] /\ prefillTarget \in [Requests -> Nat]
           /\ emitted \in [Requests -> Nat] /\ Wants(processed, prefillTarget) \in [Requests -> Nat]
           /\ admitted \subseteq Requests /\ arrived \in 0 .. NRequests
           /\ PlaneOK(kv) /\ SlicesOK(kv, iteration.slices) /\ Live(kv) = {r \in admitted : ~Complete(r)}
           /\ LineOK(running, resumed, Live(kv), Ready, Unfinished)
           /\ HotOK(kv, running) /\ LastOK(running, Wants(processed, prefillTarget))
<1>1. TypeInv /\ PlaneInv /\ LineInv BY DEF EngineInv
<1>2. processed \in [Requests -> Nat] /\ prefillTarget \in [Requests -> Nat] BY <1>1 DEF TypeInv
<1>3. Wants(processed, prefillTarget) \in [Requests -> Nat] BY <1>2, WantsAre
<1> QED BY <1>1, <1>2, <1>3 DEF TypeInv, PlaneInv, LineInv

(* The slice that is on offer to a running request.                        *)
LEMMA OfferIs ==
    ASSUME EngineInv, iteration.phase = "running", iteration.offer # <<>>,
           NEW c, c = Head(iteration.todo), NEW o, o = iteration.offer[1], NEW k, k = Len(iteration.slices)
    PROVE  /\ iteration.todo # <<>> /\ c \in Range(running) /\ c \in Requests /\ iteration.offer = <<o>>
           /\ SliceIs(o, c, processed[c], Wants(processed, prefillTarget)[c], iteration.budget)
           /\ k + 1 <= Len(running) /\ c = running[k + 1]
           /\ LoopOK(Tail(iteration.todo), running, k + 1)
           /\ c \notin InBatch(iteration.slices) /\ c \in Live(kv) /\ Len(running) \in Nat /\ k \in Nat
<1> DEFINE it == iteration
           W == Wants(processed, prefillTarget)
<1>1. /\ RunningOK(it, running, resumed, processed, W, Ready)
      /\ IterationOK(it, running, Live(kv), processed, W)
      /\ running \in Seq(Requests) /\ Range(running) \subseteq Live(kv) /\ Rising(running)
      /\ it.slices \in Seq(Range(it.slices)) /\ Range(running) \subseteq Requests
      /\ k \in Nat /\ k <= Len(running) /\ LoopOK(it.todo, running, k)
  BY LoopFacts
<1> HIDE DEF W
<1>2. /\ it.todo # <<>> /\ c \in Range(running) /\ it.offer = <<o>>
      /\ SliceIs(o, c, processed[c], W[c], it.budget)
  BY <1>1 DEF RunningOK, OfferOK
<1>3. k + 1 <= Len(running) /\ c = running[k + 1] /\ LoopOK(Tail(it.todo), running, k + 1)
  BY <1>1, <1>2, LoopSelects
<1>4. c \notin InBatch(it.slices)
  <2>1. Len(running) \in Nat /\ DOMAIN running = 1 .. Len(running) BY <1>1
  <2>2. k + 1 \in DOMAIN running /\ ~(k + 1 <= k) BY <2>1, <1>1, <1>3
  <2>3. ServesFirst(it.slices, running, processed) BY <1>1 DEF IterationOK
  <2>4. \A i \in DOMAIN running : running[i] \in InBatch(it.slices) => i <= k BY <1>1, <2>3, ServedAre
  <2> QED BY <2>2, <2>4, <1>3
<1>5. c \in Live(kv) /\ c \in Requests /\ Len(running) \in Nat BY <1>1, <1>2
<1> QED BY <1>1, <1>2, <1>3, <1>4, <1>5 DEF W

(* SelectRunning preserves the invariant: the slices stay in the order of  *)
(* the running requests.                                                   *)
LEMMA SelectRunningOK == ASSUME EngineInv, SelectRunning PROVE EngineInv'
<1> DEFINE it == iteration
           jt == iteration'
           W == Wants(processed, prefillTarget)
           k == Len(iteration.slices)
           c == Head(iteration.todo)
           o == iteration.offer[1]
<1>1. /\ it.phase = "running" /\ it.todo # <<>> /\ it.offer # <<>> /\ PlanOnly
      /\ jt = [it EXCEPT !.slices = @ \o it.offer, !.budget = @ - o.count, !.todo = Tail(@), !.offer = <<>>]
  BY DEF SelectRunning, InRunningLoop
<1>2. /\ RunningOK(it, running, resumed, processed, W, Ready)
      /\ IterationOK(it, running, Live(kv), processed, W)
      /\ DOMAIN it = Locals /\ SlicesOK(kv, it.slices) /\ running \in Seq(Requests)
      /\ it.slices \in Seq(Range(it.slices))
  BY <1>1, LoopFacts
<1>3. /\ c \in Range(running) /\ c \in Requests /\ it.offer = <<o>> /\ SliceIs(o, c, processed[c], W[c], it.budget)
      /\ k + 1 <= Len(running) /\ c = running[k + 1] /\ LoopOK(Tail(it.todo), running, k + 1)
      /\ c \notin InBatch(it.slices) /\ c \in Live(kv) /\ Len(running) \in Nat /\ k \in Nat
  BY <1>1, OfferIs
<1>4. /\ DOMAIN jt = Locals /\ jt.phase = it.phase /\ jt.waiting = it.waiting /\ jt.todo = Tail(it.todo)
      /\ jt.model = it.model /\ jt.offer = <<>> /\ jt.budget = it.budget - o.count
      /\ jt.preempted = it.preempted
  BY <1>1, <1>2 DEF Locals
<1>5. jt.slices = it.slices \o <<o>> BY <1>1, <1>2, <1>3 DEF Locals
<1>6. W \in [Requests -> Nat] /\ processed \in [Requests -> Nat] BY ProgressIs
<1>7. k = Len(it.slices) OBVIOUS
<1> HIDE DEF it, jt, W, k, c, o
<1>8. OneMoreThan(jt.slices, it.slices, o) BY <1>5 DEF OneMoreThan
<1>9. ServesFirst(it.slices, running, processed) /\ Spends(it.slices, it.budget, W) BY <1>2 DEF IterationOK
<1>10. /\ InBatch(it.slices) \subseteq Requests
       /\ \A i \in DOMAIN it.slices : it.slices[i].count \in Nat
  BY <1>2, <1>9, ServedAre
<1>11. /\ o.req = c /\ o.begin = processed[c] /\ o.count \in Nat \ {0} /\ o.count <= it.budget
       /\ o.count = W[c] \/ (o.count <= W[c] /\ o.count = it.budget)
  BY <1>3 DEF SliceIs
<1>12. SlicesOK(kv, jt.slices)
  <2>1. o.req \in Live(kv) \ InBatch(it.slices) /\ o.begin \in Nat /\ o.count \in Nat BY <1>3, <1>6, <1>11
  <2> QED BY <2>1, <1>2, <1>8, OneMore
<1>13. Spends(jt.slices, jt.budget, W)
  <2>1. Spends(jt.slices, it.budget - o.count, W)
    BY <1>2, <1>3, <1>6, <1>8, <1>9, <1>10, <1>11, SpendMore
  <2> QED BY <2>1, <1>4
<1>14. ServesFirst(jt.slices, running, processed) /\ Len(jt.slices) = k + 1
  <2>1. k < Len(running) BY <1>3
  <2>2. o.req = running[k + 1] /\ o.begin = processed[o.req] BY <1>3, <1>11
  <2> QED BY <2>1, <2>2, <1>2, <1>7, <1>8, <1>9, <1>11, ServesMore
<1>15. IterationOK(jt, running, Live(kv), processed, W) BY <1>2, <1>4, <1>13, <1>14 DEF IterationOK
<1>16. RunningOK(jt, running, resumed, processed, W, Ready)
  <2>1. LoopOK(jt.todo, running, Len(jt.slices)) BY <1>3, <1>4, <1>14
  <2> QED BY <2>1, <1>2, <1>4 DEF RunningOK, OfferOK
<1> QED BY <1>1, <1>4, <1>12, <1>15, <1>16, PlanOnlyOK DEF it, jt, W

----------------------------------------------------------------------------
(* Reserving the running requests' slices; the loop over the waiting ones. *)

(* A slice of at least one token needs a block.                            *)
LEMMA SomeBlock ==
    ASSUME NEW n \in Nat \ {0}
    PROVE  BlocksFor(n) \in Nat \ {0}
<1>1. BlockTokens \in Nat \ {0} BY SizesAssumption
<1> QED BY <1>1 DEF BlocksFor

(* A reservation of the running requests' slices makes every one of them   *)
(* hot and mappable.                                                       *)
LEMMA ReservedOK ==
    ASSUME NEW p, PlaneOK(p), NEW slices, SlicesOK(p, slices), CanReserve(p, slices),
           NEW q, q = Settled(Reserve(p, slices)),
           NEW run \in Seq(Requests), NEW from \in [Requests -> Nat], ServesFirst(slices, run, from),
           Len(slices) = Len(run)
    PROVE  /\ PlaneOK(q) /\ Live(q) = Live(p) /\ SlicesOK(q, slices) /\ Mappable(q, slices)
           /\ HotOK(q, run)
<1> DEFINE m == Reserve(p, slices)
<1>1. PlaneOK(m) /\ Live(m) = Live(p) BY ReserveOK
<1>2. PlaneOK(q) /\ SlicesOK(q, slices) /\ Mappable(q, slices) BY ReservedBatch
<1>3. q = Settled(m) OBVIOUS
<1> HIDE DEF m
<1>4. Live(q) = Live(p) BY <1>1, <1>3, SettledOK
<1>5. ASSUME NEW i \in DOMAIN run PROVE CanPreempt(q, run[i])
  <2>1. DOMAIN run = 1 .. Len(run) OBVIOUS
  <2>2. slices \in Seq(Range(slices)) BY DEF SlicesOK
  <2>3. i \in DOMAIN slices BY <2>1, <2>2
  <2>4. slices[i].req = run[i] /\ slices[i].begin = from[run[i]] /\ slices[i].count \in Nat \ {0}
    BY <2>3 DEF ServesFirst
  <2>5. from[run[i]] \in Nat OBVIOUS
  <2>6. Tokens(slices[i]) \in Nat \ {0} BY <2>4, <2>5 DEF Tokens
  <2>7. BlocksFor(Tokens(slices[i])) \in Nat \ {0} BY <2>6, SomeBlock
  <2>8. /\ IsHot(q, run[i]) /\ Len(q.req[run[i]].table) >= BlocksFor(Tokens(slices[i]))
    BY <1>2, <2>3, <2>4 DEF Mappable
  <2>9. q.req[run[i]].table # <<>> BY <2>7, <2>8
  <2> QED BY <2>8, <2>9 DEF CanPreempt
<1> QED BY <1>2, <1>4, <1>5 DEF HotOK

(* The line stays what it is as long as nothing of it changes.             *)
LEMMA ReserveRunningOK == ASSUME EngineInv, ReserveRunning PROVE EngineInv'
<1> DEFINE it == iteration
           jt == iteration'
           W == Wants(processed, prefillTarget)
           p == kv'
<1>1. it.phase = "running" /\ it.todo = <<>> BY DEF ReserveRunning
<1>2. CASE Raise("HBM KV pool cannot hold the iteration") BY <1>2, RaiseOK
<1>3. CASE ~Raise("HBM KV pool cannot hold the iteration")
  <2>1. /\ it.slices # <<>> => CanReserve(kv, it.slices)
        /\ p = IF it.slices = <<>> THEN kv ELSE Settled(Reserve(kv, it.slices))
        /\ jt = [it EXCEPT !.phase = "admit", !.waiting = <<>>,
                           !.todo = IF it.preempted THEN <<>> ELSE it.waiting]
        /\ UNCHANGED <<progress, admitted, running, resumed, arrived>>
    BY <1>3 DEF ReserveRunning
  <2>2. /\ RunningOK(it, running, resumed, processed, W, Ready)
        /\ IterationOK(it, running, Live(kv), processed, W)
        /\ DOMAIN it = Locals /\ SlicesOK(kv, it.slices) /\ running \in Seq(Requests)
        /\ it.slices \in Seq(Range(it.slices)) /\ Len(it.slices) \in Nat /\ Len(it.slices) <= Len(running)
        /\ LoopOK(it.todo, running, Len(it.slices)) /\ PlaneOK(kv)
    BY <1>1, LoopFacts
  <2>3. /\ DOMAIN jt = Locals /\ jt.phase = "admit" /\ jt.model = it.model /\ jt.slices = it.slices
        /\ jt.budget = it.budget /\ jt.preempted = it.preempted
        /\ jt.todo = IF it.preempted THEN <<>> ELSE it.waiting
    BY <2>1, <2>2 DEF Locals
  <2>4. /\ processed' = processed /\ emitted' = emitted /\ prefillTarget' = prefillTarget
        /\ admitted' = admitted /\ running' = running /\ resumed' = resumed /\ arrived' = arrived
    BY <2>1 DEF progress
  <2>5. it.preempted \in BOOLEAN BY DEF EngineInv, IterationInv, IterationIs
  <2>6. Ready' = Ready /\ Unfinished' = Unfinished /\ \A r : Complete(r)' <=> Complete(r)
    BY <2>4, SameReady
  <2>7. /\ W \in [Requests -> Nat] /\ processed \in [Requests -> Nat]
        /\ LineOK(running, resumed, Live(kv), Ready, Unfinished) /\ HotOK(kv, running) /\ LastOK(running, W)
        /\ Live(kv) = {r \in admitted : ~Complete(r)}
    BY ProgressIs
  <2> HIDE DEF it, jt, W, p
  <2>8. Len(it.slices) = Len(running) BY <1>1, <2>2, LoopDone
  <2>9. /\ PlaneOK(p) /\ Live(p) = Live(kv) /\ SlicesOK(p, it.slices) /\ Mappable(p, it.slices)
        /\ HotOK(p, running)
    <3>1. CASE it.slices = <<>>
      <4>1. Mappable(p, it.slices) BY <3>1 DEF Mappable
      <4> QED BY <4>1, <2>1, <2>2, <2>7, <3>1
    <3>2. CASE it.slices # <<>>
      <4>1. ServesFirst(it.slices, running, processed) BY <2>2 DEF IterationOK
      <4> QED BY <4>1, <2>1, <2>2, <2>7, <2>8, <3>2, ReservedOK
    <3> QED BY <3>1, <3>2
  <2>10. AdmitPhaseOK(jt, p, running, resumed, Ready)
    <3>1. CASE it.preempted BY <3>1, <2>3, <2>8, <2>9 DEF AdmitPhaseOK
    <3>2. CASE ~it.preempted
      <4>1. QueueOK(it.waiting, running, resumed, it.model, Ready) BY <3>2, <2>2 DEF RunningOK
      <4> QED BY <4>1, <3>2, <2>3, <2>8, <2>9 DEF AdmitPhaseOK
    <3> QED BY <3>1, <3>2
  <2>11. IterationOK(jt, running, Live(p), processed, W) BY <2>2, <2>3, <2>9 DEF IterationOK
  <2>12. IterationIs(jt, p, running, resumed, processed, W, Ready)
    BY <2>3, <2>5, <2>10, <2>11 DEF IterationIs
  <2>13. IterationInv' BY <2>4, <2>6, <2>12 DEF IterationInv, jt, p, W
  <2>14. TypeInv'
    <3>1. TypeInv BY DEF EngineInv
    <3> QED BY <3>1, <2>4 DEF TypeInv
  <2>15. PlaneInv'
    <3>1. {r \in admitted : ~Complete(r)}' = {r \in admitted : ~Complete(r)} BY <2>4, <2>6
    <3> QED BY <3>1, <2>3, <2>7, <2>9 DEF PlaneInv, p, jt
  <2>16. LineInv' BY <2>4, <2>6, <2>7, <2>9 DEF LineInv, p, W
  <2> QED BY <2>13, <2>14, <2>15, <2>16 DEF EngineInv
<1> QED BY <1>2, <1>3

(* What the invariant says of an iteration that admits.                    *)
LEMMA AdmitFacts ==
    ASSUME EngineInv, iteration.phase = "admit"
    PROVE  /\ AdmitPhaseOK(iteration, kv, running, resumed, Ready)
           /\ IterationOK(iteration, running, Live(kv), processed, Wants(processed, prefillTarget))
           /\ SlicesOK(kv, iteration.slices) /\ DOMAIN iteration = Locals
           /\ running \in Seq(Requests) /\ resumed \in Seq(Requests) /\ PlaneOK(kv)
           /\ iteration.slices \in Seq(Range(iteration.slices))
<1>1. /\ AdmitPhaseOK(iteration, kv, running, resumed, Ready)
      /\ IterationOK(iteration, running, Live(kv), processed, Wants(processed, prefillTarget))
      /\ DOMAIN iteration = Locals
  BY DEF EngineInv, IterationInv, IterationIs
<1>2. SlicesOK(kv, iteration.slices) /\ PlaneOK(kv) BY DEF EngineInv, PlaneInv
<1>3. running \in Seq(Requests) /\ resumed \in Seq(Requests) BY DEF EngineInv, LineInv, LineOK
<1>4. iteration.slices \in Seq(Range(iteration.slices)) BY <1>2 DEF SlicesOK
<1> QED BY <1>1, <1>2, <1>3, <1>4

(* The loop over the waiting requests goes on, or ends.                    *)
LEMMA AdmitLoopOK ==
    ASSUME EngineInv, iteration.phase = "admit", PlanOnly,
           NEW rest, iteration' = [iteration EXCEPT !.todo = rest],
           rest = <<>> \/ QueueOK(rest, running, resumed, iteration.model, Ready)
    PROVE  EngineInv'
<1> DEFINE it == iteration
           jt == iteration'
           W == Wants(processed, prefillTarget)
<1>1. /\ AdmitPhaseOK(it, kv, running, resumed, Ready)
      /\ IterationOK(it, running, Live(kv), processed, W)
      /\ SlicesOK(kv, it.slices) /\ DOMAIN it = Locals
  BY AdmitFacts
<1>2. /\ DOMAIN jt = Locals /\ jt.phase = it.phase /\ jt.model = it.model /\ jt.slices = it.slices
      /\ jt.budget = it.budget /\ jt.preempted = it.preempted /\ jt.todo = rest
  BY <1>1 DEF Locals
<1>3. it.phase = "admit" OBVIOUS
<1> HIDE DEF it, jt, W
<1>4. AdmitPhaseOK(jt, kv, running, resumed, Ready) BY <1>1, <1>2 DEF AdmitPhaseOK, it
<1>5. IterationOK(jt, running, Live(kv), processed, W) BY <1>1, <1>2 DEF IterationOK
<1>6. SlicesOK(kv, jt.slices) BY <1>1, <1>2
<1> QED BY <1>2, <1>3, <1>4, <1>5, <1>6, PlanOnlyOK DEF it, jt, W

(* SkipWaiting preserves the invariant.                                    *)
LEMMA SkipWaitingOK == ASSUME EngineInv, SkipWaiting PROVE EngineInv'
<1> DEFINE q == iteration.todo
<1>1. /\ iteration.phase = "admit" /\ q # <<>> /\ Model[Head(q)] # iteration.model /\ PlanOnly
      /\ iteration' = [iteration EXCEPT !.todo = Tail(q)]
  BY DEF SkipWaiting, InAdmitLoop, Current
<1>2. /\ QueueOK(q, running, resumed, iteration.model, Ready) /\ resumed \in Seq(Requests)
      /\ \A y \in Live(kv) : Model[y] = iteration.model
  BY <1>1, AdmitFacts DEF AdmitPhaseOK, IterationOK
<1>3. \A y \in Range(resumed) : Model[y] = iteration.model
  <2>1. Range(resumed) \subseteq Live(kv) BY ProgressIs DEF LineOK
  <2> QED BY <2>1, <1>2
<1> DEFINE rest == Tail(q)
<1>4. rest = <<>> \/ QueueOK(rest, running, resumed, iteration.model, Ready)
  BY <1>1, <1>2, <1>3, QueueSkips
<1> QED BY <1>1, <1>4, AdmitLoopOK

(* StopAdmitting preserves the invariant.                                  *)
LEMMA StopAdmittingOK == ASSUME EngineInv, StopAdmitting PROVE EngineInv'
<1>1. /\ iteration.phase = "admit" /\ PlanOnly /\ iteration' = [iteration EXCEPT !.todo = <<>>]
  BY DEF StopAdmitting, InAdmitLoop
<1> QED BY <1>1, AdmitLoopOK

(* EmptyIteration preserves the invariant.                                 *)
LEMMA EmptyIterationOK == ASSUME EngineInv, EmptyIteration PROVE EngineInv'
<1>1. CASE Raise("KV pool cannot hold one schedulable chunk") BY <1>1, RaiseOK
<1>2. CASE iteration' = Opened({r \in Runnable : r <= arrived}) /\ PlanOnly
  <2>1. arrived \in arrived .. NRequests
    <3>1. arrived \in 0 .. NRequests BY ProgressIs
    <3> QED BY <3>1, RequestsFinite
  <2>2. UNCHANGED <<kv, progress, admitted, running, resumed>> /\ arrived' = arrived
    BY <1>2 DEF PlanOnly
  <2> QED BY <1>2, <2>1, <2>2, OpenedInv
<1> QED BY <1>1, <1>2 DEF EmptyIteration

----------------------------------------------------------------------------
(* What a preemption changes.                                              *)

(* What a batch spends does not depend on the requests outside it.         *)
LEMMA SameSpending ==
    ASSUME NEW slices, NEW budget, NEW wants \in [Requests -> Nat], NEW others \in [Requests -> Nat],
           InBatch(slices) \subseteq Requests, \A x \in InBatch(slices) : others[x] = wants[x],
           Spends(slices, budget, wants)
    PROVE  Spends(slices, budget, others)
<1> DEFINE B == InBatch(slices)
<1>1. B \in SUBSET Requests OBVIOUS
<1>2. \A x \in B : others[x] \in Nat /\ others[x] = wants[x] OBVIOUS
<1> HIDE DEF B
<1>3. IsFiniteSet(B) BY <1>1, RequestsFinite, FS_Subset
<1>4. Total(others, B) = Total(wants, B) BY <1>2, <1>3, SameSum
<1> QED BY <1>4 DEF Spends, B

(* Fewer requests that want less fit the token budget too.                 *)
LEMMA FewerFit ==
    ASSUME NEW R \in SUBSET Requests, NEW T \in SUBSET R, NEW wants \in [Requests -> Nat],
           NEW others \in [Requests -> Nat], \A x \in T : others[x] <= wants[x],
           Total(wants, R) < MaxBatchTokens
    PROVE  Total(others, T) < MaxBatchTokens
<1>1. IsFiniteSet(R) /\ IsFiniteSet(T)
  <2>1. T \in SUBSET Requests OBVIOUS
  <2> QED BY <2>1, RequestsFinite, FS_Subset
<1>2. (\A x \in R : wants[x] \in Nat) /\ \A x \in T : others[x] \in Nat /\ others[x] <= wants[x] OBVIOUS
<1>3. Total(others, T) <= Total(wants, R) BY <1>1, <1>2, SumsGrow
<1>4. Total(others, T) \in Nat /\ Total(wants, R) \in Nat BY <1>1, <1>2, SumsAdd
<1>5. MaxBatchTokens \in Nat BY PolicyAssumption
<1> QED BY <1>3, <1>4, <1>5

(* One sequence after the other.                                           *)
Joined(c, a, b) == c = a \o b

(* The elements of a concatenation.                                        *)
LEMMA ConcatIs ==
    ASSUME NEW S, NEW a \in Seq(S), NEW b \in Seq(S), NEW c, Joined(c, a, b)
    PROVE  /\ c \in Seq(S) /\ Len(c) = Len(a) + Len(b)
           /\ \A i \in 1 .. Len(a) + Len(b) : c[i] = IF i <= Len(a) THEN a[i] ELSE b[i - Len(a)]
BY DEF Joined

(* The elements of a sequence with one more in front.                      *)
LEMMA PrependIs ==
    ASSUME NEW S, NEW one \in Seq(S), Len(one) = 1, NEW seq \in Seq(S), NEW more, Joined(more, one, seq)
    PROVE  /\ more \in Seq(S) /\ Len(more) = 1 + Len(seq) /\ more[1] = one[1]
           /\ \A i \in 1 .. Len(seq) : more[i + 1] = seq[i]
<1> DEFINE n == Len(seq)
<1>1. /\ more \in Seq(S) /\ Len(more) = Len(one) + n
      /\ \A i \in 1 .. Len(one) + n : more[i] = IF i <= Len(one) THEN one[i] ELSE seq[i - Len(one)]
  BY ConcatIs
<1>2. n \in Nat /\ Len(one) = 1 OBVIOUS
<1> HIDE DEF n
<1>3. more[1] = one[1]
  <2>1. 1 \in 1 .. 1 + n BY <1>2
  <2> QED BY ONLY <2>1, <1>1, <1>2
<1>4. ASSUME NEW i \in 1 .. n PROVE more[i + 1] = seq[i]
  <2>1. i + 1 \in 1 .. 1 + n /\ ~(i + 1 <= 1) /\ (i + 1) - 1 = i BY <1>2
  <2> QED BY ONLY <2>1, <1>1, <1>2
<1> QED BY ONLY <1>1, <1>2, <1>3, <1>4 DEF n

ResumedFirst(res, v) == <<v>> \o Keep(res, Requests \ {v})

(* The preempted request comes first among those that wait to be resumed.  *)
LEMMA PreemptedFirst ==
    ASSUME NEW res \in Seq(Requests), Rising(res), NEW v \in Requests, \A y \in Range(res) : v < y,
           NEW more, more = ResumedFirst(res, v)
    PROVE  more \in Seq(Requests) /\ Rising(more) /\ Range(more) = Range(res) \cup {v}
<1>1. Requests \in SUBSET Int /\ Range(res) \subseteq Requests BY RequestsFinite, ListIs
<1>2. v \notin Range(res)
  <2>1. ~(v < v) BY <1>1
  <2> QED BY <2>1
<1>3. Keep(res, Requests \ {v}) = res BY <1>1, <1>2, KeepAll
<1> DEFINE one == <<v>>
<1>4. more = one \o res BY <1>3 DEF ResumedFirst
<1> DEFINE m == Len(res)
<1>5. m \in Nat /\ DOMAIN res = 1 .. m OBVIOUS
<1>6. more \in Seq(Requests) /\ Len(more) = m + 1 /\ more[1] = v
      /\ \A i \in 1 .. m : more[i + 1] = res[i]
  <2>1. one \in Seq(Requests) /\ Len(one) = 1 /\ one[1] = v OBVIOUS
  <2>2. res \in Seq(Requests) OBVIOUS
  <2> HIDE DEF one
  <2>3. Joined(more, one, res) BY <1>4 DEF Joined
  <2>4. more \in Seq(Requests) /\ Len(more) = 1 + m /\ more[1] = v /\ \A i \in 1 .. m : more[i + 1] = res[i]
    BY <2>1, <2>2, <2>3, PrependIs DEF m
  <2>5. 1 + m = m + 1 BY <1>5
  <2> QED BY <2>4, <2>5
<1> HIDE DEF m
<1>7. DOMAIN more = 1 .. m + 1 BY <1>5, <1>6
<1>8. \A i \in 1 .. m + 1 : \/ i = 1 /\ more[i] = v
                            \/ i - 1 \in 1 .. m /\ more[i] = res[i - 1] /\ more[i] \in Range(res)
  <2> SUFFICES ASSUME NEW i \in 1 .. m + 1
               PROVE  \/ i = 1 /\ more[i] = v
                      \/ i - 1 \in 1 .. m /\ more[i] = res[i - 1] /\ more[i] \in Range(res)
      OBVIOUS
  <2>1. CASE i = 1 BY <2>1, <1>6
  <2>2. CASE i # 1
    <3>1. i - 1 \in 1 .. m /\ (i - 1) + 1 = i BY <2>2, <1>5
    <3>2. more[(i - 1) + 1] = res[i - 1] BY <3>1, <1>6
    <3>3. res[i - 1] \in Range(res) BY <3>1, <1>5 DEF Range
    <3> QED BY <3>1, <3>2, <3>3
  <2> QED BY <2>1, <2>2
<1>9. Rising(more)
  <2> SUFFICES ASSUME NEW i \in 1 .. m + 1, NEW j \in 1 .. m + 1, i < j PROVE more[i] < more[j]
      BY <1>7 DEF Rising
  <2>1. j # 1 BY <1>5
  <2>2. j - 1 \in 1 .. m /\ more[j] = res[j - 1] /\ more[j] \in Range(res) BY <2>1, <1>8
  <2>3. CASE i = 1 BY <2>2, <2>3, <1>6
  <2>4. CASE i # 1
    <3>1. i - 1 \in 1 .. m /\ more[i] = res[i - 1] BY <2>4, <1>8
    <3>2. i - 1 < j - 1 BY <1>5
    <3> QED BY <3>1, <3>2, <2>2, <1>5 DEF Rising
  <2> QED BY <2>3, <2>4
<1>10. Range(more) = Range(res) \cup {v}
  <2>1. ASSUME NEW y \in Range(more) PROVE y \in Range(res) \cup {v}
    <3>1. PICK i \in 1 .. m + 1 : y = more[i] BY <1>7 DEF Range
    <3> QED BY <3>1, <1>8
  <2>2. v \in Range(more)
    <3>1. 1 \in 1 .. m + 1 BY <1>5
    <3> QED BY <3>1, <1>6, <1>7 DEF Range
  <2>3. ASSUME NEW y \in Range(res) PROVE y \in Range(more)
    <3>1. PICK i \in 1 .. m : y = res[i] BY <1>5 DEF Range
    <3>2. i + 1 \in 1 .. m + 1 /\ more[i + 1] = y BY <3>1, <1>5, <1>6
    <3> QED BY <3>2, <1>7 DEF Range
  <2> QED BY <2>1, <2>2, <2>3
<1> QED BY <1>6, <1>9, <1>10

(* The line of the running and the preempted requests keeps its order when *)
(* the last one that runs is preempted.                                    *)
LEMMA LinePreempted ==
    ASSUME NEW run, NEW res, NEW line, NEW ready, NEW unfinished, LineOK(run, res, line, ready, unfinished),
           run # <<>>, NEW v, v = Last(run), NEW front, front = Keep(run, Requests \ {v}),
           NEW more, more = ResumedFirst(res, v)
    PROVE  LineOK(front, more, line, ready, unfinished)
<1>0. /\ run \in Seq(Requests) /\ res \in Seq(Requests) /\ Rising(run) /\ Rising(res)
      /\ \A x \in Range(run), y \in Range(res) : x < y
      /\ Range(run) \cup Range(res) = line /\ Len(run) <= MaxBatchRequests
  BY DEF LineOK
<1>1. /\ front \in Seq(Requests) /\ Len(front) = Len(run) - 1 /\ Len(run) \in Nat \ {0}
      /\ Rising(front) /\ Range(front) = Range(run) \ {v}
      /\ v \in Requests /\ v \in Range(run) /\ \A x \in Range(front) : x < v
  BY <1>0, WithoutLast
<1>2. more \in Seq(Requests) /\ Rising(more) /\ Range(more) = Range(res) \cup {v}
  BY <1>0, <1>1, PreemptedFirst
<1>3. ASSUME NEW x \in Range(front), NEW y \in Range(more) PROVE x < y
  <2>1. x \in Range(run) /\ x < v BY <1>1
  <2>2. y = v \/ y \in Range(res) BY <1>2
  <2> QED BY <2>1, <2>2, <1>0
<1>4. Range(front) \cup Range(more) = line BY <1>0, <1>1, <1>2
<1>5. Len(front) <= MaxBatchRequests
  <2>1. MaxBatchRequests \in Nat BY PolicyAssumption
  <2> QED BY <2>1, <1>0, <1>1
<1> QED BY <1>1, <1>2, <1>3, <1>4, <1>5 DEF LineOK

(* The progress of a preempted request.                                    *)
LEMMA DiscardedIs ==
    ASSUME EngineInv, NEW v \in Requests
    PROVE  Discarded(v) \in Nat
<1>1. processed[v] \in Nat BY ProgressIs
<1>2. Prompt[v] \in Nat BY RequestsAssumption
<1> QED BY <1>1, <1>2 DEF Discarded

----------------------------------------------------------------------------
(* Preempting the youngest request.                                        *)

(* Those that still run keep their blocks in HBM when another is preempted.*)
LEMMA OthersStayHot ==
    ASSUME NEW p, NEW q, NEW r, OthersKept(p, q, r), NEW run, HotOK(p, run), Range(run) \subseteq Live(p),
           NEW front, Range(front) = Range(run) \ {r}
    PROVE  HotOK(q, front)
<1> SUFFICES ASSUME NEW i \in DOMAIN front PROVE CanPreempt(q, front[i]) BY DEF HotOK
<1>1. front[i] \in Range(run) /\ front[i] \in Live(p) \ {r}
  <2>1. front[i] \in Range(front) BY DEF Range
  <2> QED BY <2>1
<1>2. q.req[front[i]] = p.req[front[i]] BY <1>1 DEF OthersKept
<1>3. PICK j \in DOMAIN run : front[i] = run[j] BY <1>1 DEF Range
<1>4. CanPreempt(p, front[i]) BY <1>3 DEF HotOK
<1> QED BY <1>2, <1>4 DEF CanPreempt, IsHot

(* The slices chosen so far are not those of the youngest request.         *)
LEMMA ChosenKept ==
    ASSUME NEW p, NEW slices, SlicesOK(p, slices), PlaneOK(p), NEW v, v \notin InBatch(slices)
    PROVE  SlicesOf(slices, {v}) = <<>> /\ SlicesOf(slices, Requests \ {v}) = slices
<1> DEFINE T == Range(slices)
<1>0. slices \in Seq(T) BY DEF SlicesOK
<1>1. \A i \in DOMAIN slices : slices[i].req \in Requests /\ slices[i].req # v
  <2>1. Live(p) \subseteq Requests BY RestIs DEF FieldsOK
  <2> QED BY <2>1 DEF SlicesOK, InBatch
<1>2. \A s \in T : s.req \in Requests \ {v} /\ s.req \notin {v} BY <1>1 DEF Range
<1> DEFINE A == {s \in T : s.req \in {v}}
           B == {s \in T : s.req \in Requests \ {v}}
<1>3. Range(slices) \cap A = {} /\ Range(slices) \subseteq B BY <1>2
<1>4. SlicesOf(slices, {v}) = Keep(slices, A) /\ SlicesOf(slices, Requests \ {v}) = Keep(slices, B)
  BY DEF SlicesOf
<1> HIDE DEF A, B, T
<1>5. Keep(slices, A) = <<>> BY <1>0, <1>3, KeepNone
<1>6. Keep(slices, B) = slices BY <1>0, <1>3, KeepAll
<1> QED BY <1>4, <1>5, <1>6

(* PreemptYoungest preserves the invariant: the victim goes from the end   *)
(* of the running requests to the front of the preempted ones.             *)
LEMMA PreemptYoungestOK == ASSUME EngineInv, PreemptYoungest PROVE EngineInv'
<1> DEFINE it == iteration
           jt == iteration'
           W == Wants(processed, prefillTarget)
           V == Wants(processed', prefillTarget')
           p == kv'
           k == Len(iteration.slices)
           c == Head(iteration.todo)
           o == iteration.offer[1]
           v == Last(running)
           front == Keep(running, Requests \ {v})
           more == resumed'
<1>1. it.phase = "running" /\ it.todo # <<>> /\ it.offer # <<>>
  BY DEF PreemptYoungest, InRunningLoop
<1>2. CASE Raise("no hot KV blocks to preempt") BY <1>2, RaiseOK
<1>3. CASE ~Raise("no hot KV blocks to preempt")
  <2>1. CanPreempt(kv, v) BY <1>3 DEF PreemptYoungest, Victim
  <2>2. /\ p = Settled(Preempt(kv, v))
        /\ \E n \in {0, processed[v]} : processed' = [processed EXCEPT ![v] = n]
        /\ \E n \in {Discarded(v), prefillTarget[v]} : prefillTarget' = [prefillTarget EXCEPT ![v] = n]
        /\ running' = front
        /\ emitted' = emitted /\ admitted' = admitted /\ arrived' = arrived
    BY <1>3, <2>1 DEF PreemptYoungest, Victim, Without
  <2>3. more = ResumedFirst(resumed, v) BY <1>3, <2>1 DEF PreemptYoungest, Victim, ResumedFirst
  <2>4. jt = [it EXCEPT !.preempted = TRUE, !.slices = SlicesOf(@, Requests \ {v}),
                        !.budget = @ + IF SlicesOf(it.slices, {v}) = <<>> THEN 0
                                       ELSE SlicesOf(it.slices, {v})[1].count,
                        !.todo = IF v = c THEN Tail(@) ELSE @,
                        !.offer = IF v = c THEN <<>> ELSE @]
    BY <1>3, <2>1 DEF PreemptYoungest, Victim, Current
  <2>5. /\ RunningOK(it, running, resumed, processed, W, Ready)
        /\ IterationOK(it, running, Live(kv), processed, W)
        /\ DOMAIN it = Locals /\ SlicesOK(kv, it.slices) /\ running \in Seq(Requests)
        /\ it.slices \in Seq(Range(it.slices)) /\ LoopOK(it.todo, running, k)
        /\ Rising(running) /\ Range(running) \subseteq Live(kv) /\ Range(running) \subseteq Requests
        /\ k \in Nat /\ k <= Len(running)
    BY <1>1, LoopFacts
  <2>6. /\ c \in Range(running) /\ c \in Requests /\ it.offer = <<o>>
        /\ SliceIs(o, c, processed[c], W[c], it.budget)
        /\ k + 1 <= Len(running) /\ c = running[k + 1] /\ Len(running) \in Nat
    BY <1>1, OfferIs
  <2>7. /\ processed \in [Requests -> Nat] /\ prefillTarget \in [Requests -> Nat]
        /\ emitted \in [Requests -> Nat] /\ W \in [Requests -> Nat]
        /\ PlaneOK(kv) /\ Live(kv) = {r \in admitted : ~Complete(r)}
        /\ LineOK(running, resumed, Live(kv), Ready, Unfinished)
        /\ HotOK(kv, running) /\ LastOK(running, W)
    BY ProgressIs
  <2>8. Ready' = Ready /\ Unfinished' = Unfinished /\ \A r : Complete(r)' <=> Complete(r)
    BY <2>2, SameReady
  <2>9. /\ running # <<>> /\ k <= Len(front)
        /\ c # v => LoopOK(it.todo, front, k) /\ c \in Range(front)
        /\ c = v => LoopOK(Tail(it.todo), front, k)
    BY <1>1, <2>5, <2>6, LoopWithout
  <2>10. /\ front \in Seq(Requests) /\ Len(front) = Len(running) - 1
         /\ \A i \in 1 .. Len(running) - 1 : front[i] = running[i]
         /\ Range(front) = Range(running) \ {v} /\ v = running[Len(running)] /\ v \in Requests
         /\ v \in Range(running)
    BY <2>5, <2>9, WithoutLast
  <2>11. ServesFirst(it.slices, running, processed) /\ Spends(it.slices, it.budget, W)
    BY <2>5 DEF IterationOK
  <2>12. /\ InBatch(it.slices) \subseteq Range(running)
         /\ \A i \in DOMAIN running : running[i] \in InBatch(it.slices) => i <= k
    BY <2>5, <2>11, ServedAre
  <2>13. v \notin InBatch(it.slices)
    <3>1. DOMAIN running = 1 .. Len(running) BY <2>5
    <3>2. Len(running) \in DOMAIN running /\ ~(Len(running) <= k) BY <3>1, <2>5, <2>6
    <3> QED BY <3>2, <2>10, <2>12
  <2>14. SlicesOf(it.slices, {v}) = <<>> /\ SlicesOf(it.slices, Requests \ {v}) = it.slices
    BY <2>5, <2>7, <2>13, ChosenKept
  <2>15. /\ DOMAIN jt = Locals /\ jt.phase = it.phase /\ jt.model = it.model /\ jt.preempted = TRUE
         /\ jt.todo = (IF v = c THEN Tail(it.todo) ELSE it.todo)
         /\ jt.offer = IF v = c THEN <<>> ELSE it.offer
    BY <2>4, <2>5 DEF Locals
  <2>16. jt.slices = it.slices /\ jt.budget = it.budget
    <3>1. jt.slices = SlicesOf(it.slices, Requests \ {v}) BY <2>4, <2>5 DEF Locals
    <3>2. jt.budget = it.budget + (IF SlicesOf(it.slices, {v}) = <<>> THEN 0
                                   ELSE SlicesOf(it.slices, {v})[1].count)
      BY <2>4, <2>5 DEF Locals
    <3>3. jt.budget = it.budget + 0 BY <3>2, <2>14
    <3>4. it.budget \in Nat BY <2>11 DEF Spends
    <3> QED BY <3>1, <3>3, <3>4, <2>14
  <2>17. LineOK(front, more, Live(kv), Ready, Unfinished) BY <2>3, <2>7, <2>9, LinePreempted
  <2>18. v \in Live(kv) /\ IsHot(kv, v) BY <2>1, <2>5, <2>10 DEF CanPreempt
  <2>19. PlaneOK(p) /\ Live(p) = Live(kv) /\ OthersKept(kv, p, v)
    <3> DEFINE m == Preempt(kv, v)
    <3>1. PlaneOK(m) /\ Live(m) = Live(kv) /\ OthersKept(kv, m, v) BY <2>7, <2>18, PreemptOK
    <3>2. p = Settled(m) BY <2>2
    <3> HIDE DEF m, p
    <3>3. PlaneOK(p) /\ Live(p) = Live(m) /\ p.req = m.req BY <3>1, <3>2, SettledOK
    <3> QED BY <3>1, <3>3 DEF OthersKept
  <2>20. /\ processed' \in [Requests -> Nat] /\ prefillTarget' \in [Requests -> Nat]
         /\ \A x \in Requests \ {v} : processed'[x] = processed[x] /\ prefillTarget'[x] = prefillTarget[x]
    <3>1. Discarded(v) \in Nat BY <2>10, DiscardedIs
    <3>2. PICK n \in {0, processed[v]} : processed' = [processed EXCEPT ![v] = n] BY <2>2
    <3>3. PICK m \in {Discarded(v), prefillTarget[v]} : prefillTarget' = [prefillTarget EXCEPT ![v] = m]
      BY <2>2
    <3>4. n \in Nat /\ m \in Nat BY <3>1, <2>7, <2>10
    <3> HIDE DEF v
    <3>5. processed' \in [Requests -> Nat] /\ \A x \in Requests \ {v} : processed'[x] = processed[x]
      BY <3>2, <3>4, <2>7
    <3>6. prefillTarget' \in [Requests -> Nat]
          /\ \A x \in Requests \ {v} : prefillTarget'[x] = prefillTarget[x]
      BY <3>3, <3>4, <2>7
    <3> QED BY <3>5, <3>6
  <2>21. V \in [Requests -> Nat] /\ \A x \in Requests \ {v} : V[x] = W[x]
    <3>1. V \in [Requests -> Nat] BY <2>20, WantsAre
    <3> QED BY <3>1, <2>20 DEF Wants
  <2> HIDE DEF it, jt, W, V, p, k, c, o, v, front, more
  <2>22. SlicesOK(p, it.slices) BY <2>5, <2>13, <2>19, BatchUntouched
  <2>23. HotOK(p, front) BY <2>5, <2>7, <2>10, <2>19, OthersStayHot
  <2>24. LastOK(front, V)
    <3> SUFFICES ASSUME front # <<>> PROVE Total(V, Range(front) \ {Last(front)}) < MaxBatchTokens
        BY DEF LastOK
    <3> DEFINE R == Range(running) \ {v}
               T == Range(front) \ {Last(front)}
    <3>1. Total(W, R) < MaxBatchTokens BY <2>7, <2>9 DEF LastOK, v
    <3>2. R \in SUBSET Requests /\ T \in SUBSET R BY <2>5, <2>10
    <3>3. \A x \in T : V[x] <= W[x]
      <4>1. \A x \in T : x \in Requests \ {v} BY <3>2
      <4>2. \A x \in T : V[x] = W[x] /\ W[x] \in Nat BY <4>1, <2>7, <2>21
      <4> QED BY <4>2
    <3> HIDE DEF R, T
    <3>4. Total(V, T) < MaxBatchTokens BY <3>1, <3>2, <3>3, <2>7, <2>21, FewerFit
    <3> QED BY <3>4 DEF T
  <2>25. ServesFirst(it.slices, front, processed')
    <3>1. DOMAIN it.slices = 1 .. k /\ k = Len(it.slices) BY <2>5 DEF k, it
    <3>2. k <= Len(running) - 1 BY <2>5, <2>6
    <3>3. ASSUME NEW i \in 1 .. k
          PROVE  it.slices[i].req = front[i] /\ it.slices[i].begin = processed'[front[i]]
      <4>1. i \in 1 .. Len(running) - 1 BY <3>2, <2>5, <2>6
      <4>2. front[i] = running[i] BY <4>1, <2>10
      <4>3. it.slices[i].req = running[i] /\ it.slices[i].begin = processed[running[i]]
        BY <3>1, <2>11 DEF ServesFirst
      <4>4. running[i] \in InBatch(it.slices) BY <3>1, <4>3 DEF InBatch
      <4>5. running[i] \in Requests \ {v} BY <4>4, <2>5, <2>12, <2>13
      <4> QED BY <4>2, <4>3, <4>5, <2>20
    <3>4. \A i \in 1 .. k : it.slices[i].count \in Nat \ {0} BY <3>1, <2>11 DEF ServesFirst
    <3>5. Len(it.slices) <= Len(front) BY <3>1, <2>9
    <3> QED BY <3>1, <3>3, <3>4, <3>5 DEF ServesFirst
  <2>26. Spends(it.slices, it.budget, V)
    <3>1. \A x \in InBatch(it.slices) : x \in Requests \ {v} BY <2>5, <2>12, <2>13
    <3>2. InBatch(it.slices) \subseteq Requests /\ \A x \in InBatch(it.slices) : V[x] = W[x] BY <3>1, <2>21
    <3> QED BY <3>2, <2>7, <2>11, <2>21, SameSpending
  <2>27. IterationOK(jt, front, Live(p), processed', V)
    BY <2>5, <2>15, <2>16, <2>19, <2>25, <2>26 DEF IterationOK
  <2>28. RunningOK(jt, front, more, processed', V, Ready)
    <3>1. LoopOK(jt.todo, front, Len(jt.slices)) BY <2>9, <2>15, <2>16 DEF k, it
    <3>2. OfferOK(jt, front, processed', V)
      <4>1. CASE v = c BY <4>1, <2>15 DEF OfferOK
      <4>2. CASE v # c
        <5>1. jt.todo = it.todo /\ jt.offer = it.offer /\ c = Head(jt.todo) BY <4>2, <2>15 DEF c, it
        <5>2. jt.offer = <<jt.offer[1]>> /\ jt.offer[1] = o BY <5>1, <2>6
        <5>3. V[c] = W[c] /\ processed'[c] = processed[c] BY <4>2, <2>6, <2>20, <2>21
        <5>4. SliceIs(o, c, processed'[c], V[c], jt.budget) BY <5>3, <2>6, <2>16
        <5>5. Head(jt.todo) \in Range(front) /\ jt.todo # <<>> BY <4>2, <5>1, <1>1, <2>9 DEF it
        <5> QED BY <5>1, <5>2, <5>4, <5>5 DEF OfferOK
      <4> QED BY <4>1, <4>2
    <3> QED BY <3>1, <3>2, <2>15 DEF RunningOK
  <2>29. IterationIs(jt, p, front, more, processed', V, Ready)
    <3>1. it.phase = "running" BY <1>1 DEF it
    <3> QED BY <3>1, <2>15, <2>27, <2>28 DEF IterationIs
  <2>30. IterationInv' BY <2>2, <2>8, <2>29 DEF IterationInv, jt, p, V, more
  <2>31. TypeInv'
    <3>1. TypeInv BY DEF EngineInv
    <3> QED BY <3>1, <2>2, <2>20 DEF TypeInv
  <2>32. PlaneInv'
    <3>1. {r \in admitted : ~Complete(r)}' = {r \in admitted : ~Complete(r)} BY <2>2, <2>8
    <3> QED BY <3>1, <2>7, <2>16, <2>19, <2>22 DEF PlaneInv, p, jt
  <2>33. LineInv' BY <2>2, <2>8, <2>17, <2>19, <2>23, <2>24 DEF LineInv, p, V, more
  <2> QED BY <2>30, <2>31, <2>32, <2>33 DEF EngineInv
<1> QED BY <1>2, <1>3

----------------------------------------------------------------------------
(* The line of the requests when one more is admitted.                     *)

(* A request that cannot be scheduled yet comes after those that can.      *)
LEMMA LaterThanReady ==
    ASSUME NEW r \in Ready, NEW x \in Unfinished \ Ready, arrived \in 0 .. NRequests
    PROVE  r < x
<1>1. r \in Runnable /\ r <= arrived /\ r \in Unfinished BY ReadyIs DEF Ready
<1>2. r \in Requests /\ x \in Requests /\ r \in Nat /\ x \in Nat /\ arrived \in Nat
  BY <1>1, ReadyIs, RequestsFinite
<1>3. CASE x \in Runnable
  <2>1. ~(x <= arrived) BY <1>3 DEF Ready
  <2> QED BY <2>1, <1>1, <1>2
<1>4. CASE x \notin Runnable
  <2>1. \A s \in Unfinished : Group[r] <= Group[s] BY <1>1 DEF Runnable, Unfinished
  <2>2. PICK s \in Unfinished : ~(Group[x] <= Group[s]) BY <1>4 DEF Runnable, Unfinished
  <2>3. s \in Requests BY ReadyIs
  <2>4. Group[r] \in Nat /\ Group[x] \in Nat /\ Group[s] \in Nat BY <1>2, <2>3, GroupsAssumption
  <2>5. ~(Group[x] <= Group[r]) BY <2>1, <2>2, <2>4
  <2>6. ~(x <= r) BY <1>2, <2>5, GroupsAssumption
  <2> QED BY <1>2, <2>6
<1> QED BY <1>3, <1>4

(* The first that waits comes after all that run, and before all others.   *)
LEMMA LineAdmits ==
    ASSUME NEW run, NEW res, NEW line, NEW ready, NEW unfinished, LineOK(run, res, line, ready, unfinished),
           NEW q, NEW model, QueueOK(q, run, res, model, ready), q # <<>>, NEW r, r = Head(q),
           Model[r] = model, \A y \in line : Model[y] = model,
           ready \subseteq unfinished, unfinished \subseteq Requests,
           \A x \in unfinished \ ready, y \in ready : y < x,
           Len(run) < MaxBatchRequests,
           NEW more, OneMoreThan(more, run, r), NEW left, left = Keep(res, Requests \ {r})
    PROVE  LineOK(more, left, line \cup {r}, ready, unfinished)
<1> DEFINE n == Len(run)
<1>0. /\ run \in Seq(Requests) /\ res \in Seq(Requests) /\ Rising(run) /\ Rising(res)
      /\ \A x \in Range(run), y \in Range(res) : x < y
      /\ Range(run) \cup Range(res) = line /\ line \subseteq ready /\ NoneOvertaken(line, unfinished)
  BY DEF LineOK
<1>1. /\ n \in Nat /\ DOMAIN more = 1 .. n + 1 /\ DOMAIN run = 1 .. n /\ Len(more) = n + 1
      /\ more[n + 1] = r /\ (\A i \in 1 .. n : more[i] = run[i])
      /\ Range(more) = Range(run) \cup {r} /\ more \in Seq(Range(more))
  <2>1. run \in Seq(Range(run)) /\ OneMoreThan(more, run, r) /\ n = Len(run) BY <1>0, ListIs
  <2> HIDE DEF n
  <2> QED BY ONLY <2>1, AppendIs
<1>2. /\ Range(left) = Range(res) \ {r} /\ left \in Seq(Requests) /\ Rising(left)
  BY <1>0, QueueAdmits
<1>3. /\ r \in ready /\ r \in Requests /\ r \notin Range(run)
      /\ res # <<>> => r = Head(res) /\ r \in Range(res)
  BY <1>0, QueueHead
<1> HIDE DEF n
<1>4. more \in Seq(Requests)
  <2>1. \A i \in 1 .. n + 1 : i \in 1 .. n \/ i = n + 1 BY <1>1
  <2>2. \A i \in 1 .. n : run[i] \in Requests BY <1>0, <1>1
  <2>3. \A i \in 1 .. n + 1 : more[i] \in Requests BY <2>1, <2>2, <1>1, <1>3
  <2> QED BY <2>3, <1>1
<1>5. \A x \in Range(run) : x < r
  <2>1. CASE res # <<>> BY <2>1, <1>0, <1>3
  <2>2. CASE res = <<>>
    <3>1. Range(res) = {} BY <2>2 DEF Range
    <3>2. Range(run) = line /\ r \in unfinished \ line BY <3>1, <1>0, <1>3
    <3> QED BY <3>2, <1>0 DEF NoneOvertaken
  <2> QED BY <2>1, <2>2
<1>6. \A y \in Range(left) : r < y
  <2>1. CASE res # <<>>
    <3>1. 1 \in DOMAIN res /\ DOMAIN res = 1 .. Len(res) /\ r = res[1] BY <2>1, <1>0, <1>3, TailIs
    <3>2. ASSUME NEW y \in Range(left) PROVE r < y
      <4>1. PICK i \in DOMAIN res : y = res[i] BY <1>2, <3>2 DEF Range
      <4>2. i # 1 BY <4>1, <3>1, <3>2, <1>2
      <4>3. 1 < i BY <4>1, <4>2, <3>1, <1>0
      <4> QED BY <4>1, <4>3, <3>1, <1>0 DEF Rising
    <3> QED BY <3>2
  <2>2. CASE res = <<>>
    <3>1. Range(res) = {} BY <2>2 DEF Range
    <3> QED BY <3>1, <1>2
  <2> QED BY <2>1, <2>2
<1>7. Rising(more)
  <2> SUFFICES ASSUME NEW i \in 1 .. n + 1, NEW j \in 1 .. n + 1, i < j PROVE more[i] < more[j]
      BY <1>1 DEF Rising
  <2>1. i \in 1 .. n BY <1>1
  <2>2. more[i] = run[i] /\ run[i] \in Range(run) BY <2>1, <1>1 DEF Range
  <2>3. CASE j = n + 1 BY <2>2, <2>3, <1>1, <1>5
  <2>4. CASE j # n + 1
    <3>1. j \in 1 .. n BY <2>4, <1>1
    <3> QED BY <3>1, <2>1, <1>0, <1>1 DEF Rising
  <2> QED BY <2>3, <2>4
<1>8. ASSUME NEW x \in Range(more), NEW y \in Range(left) PROVE x < y
  <2>1. x \in Range(run) \/ x = r BY <1>1
  <2>2. y \in Range(res) BY <1>2
  <2> QED BY <2>1, <2>2, <1>0, <1>6
<1>9. Range(more) \cup Range(left) = line \cup {r} BY <1>0, <1>1, <1>2
<1>10. SameModel(line \cup {r}) BY DEF SameModel
<1>11. NoneOvertaken(line \cup {r}, unfinished)
  <2> SUFFICES ASSUME NEW x \in unfinished \ (line \cup {r}), NEW y \in line \cup {r}, Model[x] = Model[y]
               PROVE  y < x
      BY DEF NoneOvertaken
  <2>1. CASE y \in line BY <2>1, <1>0 DEF NoneOvertaken
  <2>2. CASE y = r /\ y \notin line
    <3>1. res = <<>>
      <4>1. r \notin Range(res) BY <2>2, <1>0
      <4> QED BY <4>1, <1>3
    <3>2. CASE x \notin ready BY <3>2, <2>2, <1>3
    <3>3. CASE x \in ready
      <4>1. x \in ready \ Range(run) /\ Model[x] = model BY <3>3, <2>2, <1>0
      <4>2. x \in Range(q) /\ q \in Seq(Requests) BY <4>1 DEF QueueOK
      <4>3. PICK j \in DOMAIN q : x = q[j] BY <4>2 DEF Range
      <4>4. r = q[1] /\ 1 \in DOMAIN q /\ DOMAIN q = 1 .. Len(q) BY <4>2, TailIs
      <4>5. j # 1 BY <4>3, <4>4
      <4>6. Len(res) = 0 BY <3>1
      <4>7. Len(res) < 1 /\ 1 < j BY <4>2, <4>4, <4>5, <4>6
      <4>8. q[1] < q[j] BY <4>4, <4>7 DEF QueueOK
      <4> QED BY <2>2, <4>3, <4>4, <4>8
    <3> QED BY <3>2, <3>3
  <2> QED BY <2>1, <2>2
<1>12. Len(more) <= MaxBatchRequests
  <2>1. MaxBatchRequests \in Nat BY PolicyAssumption
  <2> QED BY <2>1, <1>1 DEF n
<1>13. line \cup {r} \subseteq ready BY <1>0, <1>3
<1> QED BY <1>2, <1>4, <1>7, <1>8, <1>9, <1>10, <1>11, <1>12, <1>13 DEF LineOK

----------------------------------------------------------------------------
(* Considering a waiting request.                                          *)

(* What ConsiderWaiting looks at: the plane with the request in it.        *)
PlaneWith(r) == IF r \notin admitted THEN Admit(kv, r, kv.clock, kv.clock) ELSE kv
StartOf(r) == IF r \notin admitted THEN AdmitHit(kv, r, kv.clock) * BlockTokens ELSE processed[r]

(* The plane on which a waiting request is considered.                     *)
LEMMA PlaneWithIs ==
    ASSUME EngineInv, NEW r \in Ready, r \notin Range(running), NEW p, p = PlaneWith(r),
           NEW from, from = StartOf(r)
    PROVE  /\ PlaneOK(p) /\ Live(p) = Live(kv) \cup {r} /\ OthersKept(kv, p, r) /\ from \in Nat
           /\ r \in admitted <=> r \in Live(kv)
           /\ r \in admitted => p = kv
           /\ r \in Requests /\ ~Complete(r)
<1>0. /\ PlaneOK(kv) /\ Live(kv) = {x \in admitted : ~Complete(x)} /\ processed \in [Requests -> Nat]
  BY ProgressIs
<1>1. r \in Requests /\ ~Complete(r) BY ReadyIs DEF Unfinished
<1>2. r \in admitted <=> r \in Live(kv) BY <1>0, <1>1
<1>3. CASE r \in admitted
  <2>1. p = kv /\ from = processed[r] BY <1>3 DEF PlaneWith, StartOf
  <2>2. OthersKept(kv, kv, r) BY DEF OthersKept
  <2> QED BY <2>1, <2>2, <1>0, <1>1, <1>2, <1>3
<1>4. CASE r \notin admitted
  <2>1. p = Admit(kv, r, kv.clock, kv.clock) /\ from = AdmitHit(kv, r, kv.clock) * BlockTokens
    BY <1>4 DEF PlaneWith, StartOf
  <2>2. kv.clock \in Nat BY <1>0, RestIs DEF FieldsOK
  <2>3. kv.clock \in Int /\ r \notin Live(kv) BY <2>2, <1>2, <1>4
  <2>4. PlaneOK(p) /\ Live(p) = Live(kv) \cup {r} /\ OthersKept(kv, p, r)
    BY <2>1, <2>2, <2>3, <1>0, <1>1, AdmitOK
  <2>5. from \in Nat BY <2>1, <2>3, <1>0, <1>1, AdmitHitIs
  <2> QED BY <2>4, <2>5, <1>1, <1>2, <1>4
<1> QED BY <1>3, <1>4

(* What ConsiderWaiting decides.                                           *)
Taken(r, p, from) ==
    LET slice == SliceFor(r, from, iteration.budget)
        slices == Append(iteration.slices, slice)
    IN  /\ CanReserve(p, slices)
        /\ kv' = Settled(Reserve(p, slices))
        /\ processed' = [processed EXCEPT ![r] = from]
        /\ admitted' = admitted \cup {r}
        /\ running' = Append(running, r)
        /\ resumed' = Keep(resumed, Requests \ {r})
        /\ iteration' = [iteration EXCEPT
                !.slices = slices, !.budget = @ - slice.count, !.todo = Tail(@)]
        /\ UNCHANGED <<emitted, prefillTarget, arrived>>
Refused(r, p) ==
    /\ kv' = IF r \notin admitted THEN Settled(ReleaseRequest(p, r)) ELSE kv
    /\ iteration' = [iteration EXCEPT !.todo = <<>>]
    /\ UNCHANGED <<progress, admitted, running, resumed, arrived>>

(* The outcomes of ConsiderWaiting.                                        *)
LEMMA ConsiderIs ==
    ASSUME ConsiderWaiting, NEW r, r = Head(iteration.todo)
    PROVE  /\ iteration.phase = "admit" /\ iteration.todo # <<>> /\ Model[r] = iteration.model
           /\ iteration.budget > 0 /\ Len(running) < MaxBatchRequests
           /\ \/ Raise("executor returned an invalid cached prefix length")
              \/ Raise("decode frontier is inconsistent")
              \/ Taken(r, PlaneWith(r), StartOf(r))
              \/ Refused(r, PlaneWith(r))
<1>1. /\ iteration.phase = "admit" /\ iteration.todo # <<>> /\ Model[r] = iteration.model
      /\ iteration.budget > 0 /\ Len(running) < MaxBatchRequests
  BY DEF ConsiderWaiting, InAdmitLoop, HasBudget, Current
<1>2. \/ Raise("executor returned an invalid cached prefix length")
      \/ Raise("decode frontier is inconsistent")
      \/ Taken(r, PlaneWith(r), StartOf(r))
      \/ Refused(r, PlaneWith(r))
  BY DEF ConsiderWaiting, Current, Taken, Refused, PlaneWith, StartOf
<1> QED BY <1>1, <1>2

(* The request that is considered.                                         *)
LEMMA ConsideredIs ==
    ASSUME EngineInv, iteration.phase = "admit", iteration.todo # <<>>, NEW r, r = Head(iteration.todo)
    PROVE  /\ QueueOK(iteration.todo, running, resumed, iteration.model, Ready)
           /\ r \in Ready /\ r \in Requests /\ r \notin Range(running)
           /\ Len(iteration.slices) = Len(running) /\ InBatch(iteration.slices) = Range(running)
           /\ Range(running) \subseteq Live(kv) /\ Range(running) \subseteq Requests
<1>1. /\ AdmitPhaseOK(iteration, kv, running, resumed, Ready)
      /\ IterationOK(iteration, running, Live(kv), processed, Wants(processed, prefillTarget))
      /\ running \in Seq(Requests) /\ resumed \in Seq(Requests)
      /\ iteration.slices \in Seq(Range(iteration.slices))
  BY AdmitFacts
<1>2. /\ QueueOK(iteration.todo, running, resumed, iteration.model, Ready)
      /\ Len(iteration.slices) = Len(running)
  BY <1>1 DEF AdmitPhaseOK
<1>3. r \in Ready /\ r \in Requests /\ r \notin Range(running) BY <1>1, <1>2, QueueHead
<1>4. ServesFirst(iteration.slices, running, processed) BY <1>1 DEF IterationOK
<1>5. InBatch(iteration.slices) = Range(running) /\ Range(running) \subseteq Requests
  BY <1>1, <1>2, <1>4, ServedAre
<1>6. Range(running) \subseteq Live(kv) BY ProgressIs DEF LineOK
<1> QED BY <1>2, <1>3, <1>5, <1>6

(* Nothing is left of a request that is refused.                           *)
LEMMA RefusedOK ==
    ASSUME EngineInv, iteration.phase = "admit", iteration.todo # <<>>, NEW r, r = Head(iteration.todo),
           Refused(r, PlaneWith(r))
    PROVE  EngineInv'
<1> DEFINE it == iteration
           jt == iteration'
           W == Wants(processed, prefillTarget)
           m == PlaneWith(r)
           p == kv'
<1>1. /\ r \in Ready /\ r \in Requests /\ r \notin Range(running)
      /\ Len(it.slices) = Len(running) /\ InBatch(it.slices) = Range(running)
      /\ Range(running) \subseteq Live(kv)
  BY ConsideredIs
<1>2. /\ PlaneOK(m) /\ Live(m) = Live(kv) \cup {r} /\ OthersKept(kv, m, r)
      /\ r \in admitted <=> r \in Live(kv)
  BY <1>1, PlaneWithIs
<1>3. /\ p = (IF r \notin admitted THEN Settled(ReleaseRequest(m, r)) ELSE kv)
      /\ jt = [it EXCEPT !.todo = <<>>]
      /\ UNCHANGED <<progress, admitted, running, resumed, arrived>>
  BY DEF Refused
<1>4. /\ AdmitPhaseOK(it, kv, running, resumed, Ready)
      /\ IterationOK(it, running, Live(kv), processed, W)
      /\ SlicesOK(kv, it.slices) /\ DOMAIN it = Locals /\ PlaneOK(kv)
  BY AdmitFacts
<1>5. /\ DOMAIN jt = Locals /\ jt.phase = it.phase /\ jt.model = it.model /\ jt.slices = it.slices
      /\ jt.budget = it.budget /\ jt.preempted = it.preempted /\ jt.todo = <<>>
  BY <1>3, <1>4 DEF Locals
<1>6. /\ LineOK(running, resumed, Live(kv), Ready, Unfinished) /\ HotOK(kv, running) /\ LastOK(running, W)
      /\ Live(kv) = {x \in admitted : ~Complete(x)}
  BY ProgressIs
<1>7. /\ processed' = processed /\ emitted' = emitted /\ prefillTarget' = prefillTarget
      /\ admitted' = admitted /\ running' = running /\ resumed' = resumed /\ arrived' = arrived
  BY <1>3 DEF progress
<1>8. Ready' = Ready /\ Unfinished' = Unfinished /\ \A x : Complete(x)' <=> Complete(x)
  BY <1>7, SameReady
<1>9. it.phase = "admit" /\ it.preempted \in BOOLEAN BY DEF EngineInv, IterationInv, IterationIs
<1> HIDE DEF it, jt, W, m, p
<1>10. Mappable(kv, it.slices) BY <1>4 DEF AdmitPhaseOK
<1>11. /\ PlaneOK(p) /\ Live(p) = Live(kv) /\ SlicesOK(p, it.slices) /\ Mappable(p, it.slices)
       /\ HotOK(p, running)
  <2>1. CASE r \in admitted BY <2>1, <1>3, <1>4, <1>6, <1>10
  <2>2. CASE r \notin admitted
    <3> DEFINE q == ReleaseRequest(m, r)
    <3>1. r \in Live(m) /\ r \notin Live(kv) BY <2>2, <1>2
    <3>2. PlaneOK(q) /\ Live(q) = Live(m) \ {r} /\ OthersKept(m, q, r) BY <3>1, <1>2, ReleaseOK
    <3>3. p = Settled(q) BY <2>2, <1>3
    <3> HIDE DEF q
    <3>4. PlaneOK(p) /\ Live(p) = Live(q) /\ p.req = q.req BY <3>2, <3>3, SettledOK
    <3>5. Live(p) = Live(kv) BY <3>1, <3>2, <3>4, <1>2
    <3>6. OthersKept(kv, p, r)
      <4> SUFFICES ASSUME NEW s \in Live(kv) \ {r} PROVE p.req[s] = kv.req[s] BY DEF OthersKept
      <4>1. s \in Live(m) \ {r} BY <1>2
      <4>2. q.req[s] = m.req[s] BY <4>1, <3>2 DEF OthersKept
      <4>3. m.req[s] = kv.req[s] BY <1>2 DEF OthersKept
      <4> QED BY <4>2, <4>3, <3>4
    <3>7. r \notin InBatch(it.slices) /\ Range(running) = Range(running) \ {r} BY <1>1
    <3>8. Live(kv) \ {r} \subseteq Live(p) BY <3>5
    <3>9. SlicesOK(p, it.slices) /\ Mappable(p, it.slices)
      BY <3>6, <3>7, <3>8, <1>4, <1>10, BatchUntouched
    <3>10. HotOK(p, running) BY <3>6, <3>7, <1>1, <1>6, OthersStayHot
    <3> QED BY <3>4, <3>5, <3>9, <3>10
  <2> QED BY <2>1, <2>2
<1>12. AdmitPhaseOK(jt, p, running, resumed, Ready)
  <2>1. Len(it.slices) = Len(running) BY <1>4 DEF AdmitPhaseOK
  <2> QED BY <2>1, <1>5, <1>11 DEF AdmitPhaseOK
<1>13. IterationOK(jt, running, Live(p), processed, W) BY <1>4, <1>5, <1>11 DEF IterationOK
<1>14. IterationIs(jt, p, running, resumed, processed, W, Ready)
  BY <1>5, <1>9, <1>12, <1>13 DEF IterationIs
<1>15. IterationInv' BY <1>7, <1>8, <1>14 DEF IterationInv, jt, p, W
<1>16. TypeInv'
  <2>1. TypeInv BY DEF EngineInv
  <2> QED BY <2>1, <1>7 DEF TypeInv
<1>17. PlaneInv'
  <2>1. {x \in admitted : ~Complete(x)}' = {x \in admitted : ~Complete(x)} BY <1>7, <1>8
  <2> QED BY <2>1, <1>5, <1>6, <1>11 DEF PlaneInv, p, jt
<1>18. LineInv' BY <1>6, <1>7, <1>8, <1>11 DEF LineInv, p, W
<1> QED BY <1>15, <1>16, <1>17, <1>18 DEF EngineInv

----------------------------------------------------------------------------
(* Taking a waiting request.                                               *)

(* The batch and the running requests with one more of each.               *)
LEMMA ServesAnother ==
    ASSUME NEW slices, slices \in Seq(Range(slices)), NEW run \in Seq(Requests), NEW from,
           ServesFirst(slices, run, from), Len(slices) = Len(run),
           NEW r \in Requests, r \notin Range(run), NEW after, \A x \in Requests \ {r} : after[x] = from[x],
           NEW s, s.req = r, s.begin = after[r], s.count \in Nat \ {0},
           NEW more, OneMoreThan(more, slices, s), NEW longer, OneMoreThan(longer, run, r)
    PROVE  ServesFirst(more, longer, after) /\ Len(more) = Len(longer)
<1> DEFINE k == Len(slices)
<1>0. run \in Seq(Range(run)) /\ OneMoreThan(longer, run, r) /\ k = Len(run) BY ListIs
<1>9. slices \in Seq(Range(slices)) /\ OneMoreThan(more, slices, s) /\ k = Len(slices) OBVIOUS
<1>5. \A i \in DOMAIN run : run[i] \in Requests \ {r} BY DEF Range
<1> HIDE DEF k
<1>1. /\ k \in Nat /\ DOMAIN more = 1 .. k + 1 /\ DOMAIN slices = 1 .. k /\ Len(more) = k + 1
      /\ more[k + 1] = s /\ \A i \in 1 .. k : more[i] = slices[i]
  BY ONLY <1>9, AppendIs
<1>2. /\ Len(longer) = k + 1 /\ DOMAIN run = 1 .. k
      /\ longer[k + 1] = r /\ \A i \in 1 .. k : longer[i] = run[i]
  BY ONLY <1>0, AppendIs
<1>3. \A i \in 1 .. k + 1 : i \in 1 .. k \/ i = k + 1 BY <1>1
<1>4. \A i \in 1 .. k : slices[i].req = run[i] /\ slices[i].begin = from[run[i]] /\ slices[i].count \in Nat \ {0}
  BY <1>1 DEF ServesFirst
<1>6. \A i \in 1 .. k : after[run[i]] = from[run[i]] BY <1>2, <1>5
<1>7. \A i \in 1 .. k + 1 : /\ more[i].req = longer[i] /\ more[i].begin = after[longer[i]]
                            /\ more[i].count \in Nat \ {0}
  BY <1>1, <1>2, <1>3, <1>4, <1>6
<1>8. k + 1 <= k + 1 BY <1>1
<1> QED BY <1>1, <1>2, <1>7, <1>8 DEF ServesFirst

(* A waiting request that is taken into the batch preserves the invariant. *)
LEMMA TakenOK ==
    ASSUME EngineInv, iteration.phase = "admit", iteration.todo # <<>>, NEW r, r = Head(iteration.todo),
           Model[r] = iteration.model, iteration.budget > 0, Len(running) < MaxBatchRequests,
           Taken(r, PlaneWith(r), StartOf(r))
    PROVE  EngineInv'
<1> DEFINE it == iteration
           jt == iteration'
           W == Wants(processed, prefillTarget)
           V == Wants(processed', prefillTarget)
           m == PlaneWith(r)
           from == StartOf(r)
           p == kv'
           s == SliceFor(r, from, iteration.budget)
           more == Append(iteration.slices, s)
           longer == running'
           left == resumed'
<1>1. /\ QueueOK(it.todo, running, resumed, it.model, Ready)
      /\ r \in Ready /\ r \in Requests /\ r \notin Range(running)
      /\ Len(it.slices) = Len(running) /\ InBatch(it.slices) = Range(running)
      /\ Range(running) \subseteq Live(kv) /\ Range(running) \subseteq Requests
  BY ConsideredIs
<1>2. /\ PlaneOK(m) /\ Live(m) = Live(kv) \cup {r} /\ OthersKept(kv, m, r) /\ from \in Nat
      /\ r \in Requests /\ ~Complete(r)
  BY <1>1, PlaneWithIs
<1>3. /\ CanReserve(m, more) /\ p = Settled(Reserve(m, more))
      /\ processed' = [processed EXCEPT ![r] = from] /\ admitted' = admitted \cup {r}
      /\ emitted' = emitted /\ prefillTarget' = prefillTarget /\ arrived' = arrived
  BY DEF Taken
<1>4. longer = Append(running, r) BY DEF Taken
<1>5. left = Keep(resumed, Requests \ {r}) BY DEF Taken
<1>6. jt = [it EXCEPT !.slices = more, !.budget = @ - s.count, !.todo = Tail(@)] BY DEF Taken
<1>7. /\ AdmitPhaseOK(it, kv, running, resumed, Ready)
      /\ IterationOK(it, running, Live(kv), processed, W)
      /\ SlicesOK(kv, it.slices) /\ DOMAIN it = Locals /\ PlaneOK(kv)
      /\ running \in Seq(Requests) /\ resumed \in Seq(Requests) /\ it.slices \in Seq(Range(it.slices))
  BY AdmitFacts
<1>8. /\ DOMAIN jt = Locals /\ jt.phase = it.phase /\ jt.model = it.model /\ jt.slices = more
      /\ jt.budget = it.budget - s.count /\ jt.preempted = it.preempted /\ jt.todo = Tail(it.todo)
  BY <1>6, <1>7 DEF Locals
<1>9. /\ LineOK(running, resumed, Live(kv), Ready, Unfinished)
      /\ Live(kv) = {x \in admitted : ~Complete(x)}
      /\ processed \in [Requests -> Nat] /\ prefillTarget \in [Requests -> Nat]
      /\ W \in [Requests -> Nat] /\ admitted \subseteq Requests /\ arrived \in 0 .. NRequests
  BY ProgressIs
<1>10. Ready' = Ready /\ Unfinished' = Unfinished /\ \A x : Complete(x)' <=> Complete(x)
  BY <1>3, SameReady
<1>11. it.phase = "admit" /\ it.preempted \in BOOLEAN BY DEF EngineInv, IterationInv, IterationIs
<1>12. OneMoreThan(more, it.slices, s) /\ OneMoreThan(longer, running, r) BY <1>4 DEF OneMoreThan
<1>13. s = SliceFor(r, from, it.budget) OBVIOUS
<1>14. Model[r] = it.model /\ it.budget > 0 /\ r = Head(it.todo) /\ it.todo # <<>> OBVIOUS
<1>15. V = Wants(processed', prefillTarget) OBVIOUS
<1> HIDE DEF it, jt, W, V, m, from, p, s, more, longer, left
<1>16. ServesFirst(it.slices, running, processed) /\ Spends(it.slices, it.budget, W)
       /\ \A y \in Live(kv) : Model[y] = it.model
  BY <1>7 DEF IterationOK
<1>17. /\ processed' \in [Requests -> Nat] /\ processed'[r] = from
       /\ \A x \in Requests \ {r} : processed'[x] = processed[x]
  BY <1>2, <1>3, <1>9
<1>18. V \in [Requests -> Nat] /\ (\A x \in Requests \ {r} : V[x] = W[x])
       /\ V[r] = Want(r, from, prefillTarget[r])
  <2>1. V \in [Requests -> Nat] BY <1>9, <1>15, <1>17, WantsAre
  <2>2. V[r] = Want(r, processed'[r], prefillTarget[r]) BY <1>1, <1>15 DEF Wants
  <2>3. \A x \in Requests \ {r} : V[x] = W[x] BY <1>15, <1>17 DEF Wants, W
  <2> QED BY <2>1, <2>2, <2>3, <1>17
<1>19. it.budget \in Nat \ {0} BY <1>14, <1>16 DEF Spends
<1>20. SliceIs(s, r, from, V[r], it.budget)
  <2>1. prefillTarget[r] \in Nat BY <1>1, <1>9
  <2> QED BY <2>1, <1>1, <1>2, <1>13, <1>18, <1>19, SliceForIs
<1>21. /\ s.req = r /\ s.begin = from /\ s.count \in Nat \ {0} /\ s.count <= it.budget
       /\ s.count = V[s.req] \/ (s.count <= V[s.req] /\ s.count = it.budget)
  BY <1>20 DEF SliceIs
<1>22. r \notin InBatch(it.slices) /\ \A x \in InBatch(it.slices) : x \in Requests \ {r} BY <1>1
<1>23. SlicesOK(m, more)
  <2>1. Live(kv) \ {r} \subseteq Live(m) BY <1>2
  <2>2. SlicesOK(m, it.slices) BY <2>1, <1>2, <1>7, <1>22, BatchUntouched
  <2>3. s.req \in Live(m) \ InBatch(it.slices) /\ s.begin \in Nat /\ s.count \in Nat
    BY <1>2, <1>21, <1>22
  <2> QED BY <2>2, <2>3, <1>12, OneMore
<1>24. InBatch(it.slices) \subseteq Requests /\ Spends(it.slices, it.budget, V)
  <2>1. InBatch(it.slices) \subseteq Requests /\ \A x \in InBatch(it.slices) : V[x] = W[x] BY <1>18, <1>22
  <2> QED BY <2>1, <1>9, <1>16, <1>18, SameSpending
<1>25. Spends(more, it.budget - s.count, V)
  <2>1. s.req \in Requests \ InBatch(it.slices) BY <1>1, <1>21, <1>22
  <2>2. \A i \in DOMAIN it.slices : it.slices[i].count \in Nat BY <1>7, <1>16, ServedAre
  <2> QED BY <2>1, <2>2, <1>7, <1>12, <1>18, <1>21, <1>24, SpendMore
<1>26. ServesFirst(more, longer, processed') /\ Len(more) = Len(longer)
  <2> DEFINE after == processed'
  <2>1. s.begin = after[r] /\ \A x \in Requests \ {r} : after[x] = processed[x] BY <1>17, <1>21
  <2> HIDE DEF after
  <2>2. ServesFirst(more, longer, after) /\ Len(more) = Len(longer)
    <3>1. /\ it.slices \in Seq(Range(it.slices)) /\ running \in Seq(Requests)
          /\ ServesFirst(it.slices, running, processed) /\ Len(it.slices) = Len(running)
          /\ r \in Requests /\ r \notin Range(running)
          /\ s.req = r /\ s.count \in Nat \ {0}
          /\ OneMoreThan(more, it.slices, s) /\ OneMoreThan(longer, running, r)
      BY <1>1, <1>7, <1>12, <1>16, <1>21
    <3> QED BY ONLY <2>1, <3>1, ServesAnother
  <2> QED BY <2>2 DEF after
<1>27. LineOK(longer, left, Live(kv) \cup {r}, Ready, Unfinished)
  <2>1. Ready \subseteq Unfinished /\ Unfinished \subseteq Requests BY ReadyIs
  <2>2. \A x \in Unfinished \ Ready, y \in Ready : y < x BY <1>9, LaterThanReady
  <2> QED BY <2>1, <2>2, <1>1, <1>5, <1>9, <1>12, <1>14, <1>16, LineAdmits
<1>28. longer \in Seq(Requests) BY <1>27 DEF LineOK
<1>29. /\ PlaneOK(p) /\ Live(p) = Live(m) /\ SlicesOK(p, more) /\ Mappable(p, more) /\ HotOK(p, longer)
  <2> DEFINE after == processed'
  <2>1. after \in [Requests -> Nat] /\ ServesFirst(more, longer, after) BY <1>17, <1>26
  <2> HIDE DEF after
  <2> QED BY <2>1, <1>2, <1>3, <1>23, <1>26, <1>28, ReservedOK
<1>30. Live(p) = Live(kv) \cup {r} BY <1>2, <1>29
<1>31. QueueOK(Tail(it.todo), longer, left, it.model, Ready)
  <2>1. Rising(resumed) BY <1>9 DEF LineOK
  <2> QED BY <2>1, <1>1, <1>5, <1>7, <1>12, <1>14, QueueAdmits
<1>32. LastOK(longer, V)
  <2> DEFINE k == Len(running)
  <2>1. running \in Seq(Range(running)) /\ OneMoreThan(longer, running, r) /\ k = Len(running) BY <1>7, <1>12, ListIs
  <2> HIDE DEF k
  <2>2. /\ k \in Nat /\ longer[k + 1] = r /\ Range(longer) = Range(running) \cup {r} /\ Len(longer) = k + 1
    BY ONLY <2>1, AppendIs
  <2>3. Last(longer) = r BY <2>2 DEF Last
  <2>4. Range(longer) \ {Last(longer)} = InBatch(it.slices) BY <2>2, <2>3, <1>1
  <2> DEFINE t == Total(V, InBatch(it.slices))
  <2>5. t + it.budget = MaxBatchTokens BY <1>19, <1>24 DEF Spends
  <2>6. t \in Nat
    <3> DEFINE B == InBatch(it.slices)
    <3>1. B \in SUBSET Requests BY <1>24
    <3>2. \A x \in B : V[x] \in Nat BY <1>18, <1>24
    <3> HIDE DEF B
    <3>3. IsFiniteSet(B) BY <3>1, RequestsFinite, FS_Subset
    <3>4. Total(V, B) \in Nat BY <3>2, <3>3, SumsAdd
    <3> QED BY <3>4 DEF B
  <2>7. MaxBatchTokens \in Nat BY PolicyAssumption
  <2> HIDE DEF t
  <2>8. t < MaxBatchTokens BY <2>5, <2>6, <2>7, <1>19
  <2> QED BY <2>4, <2>8 DEF LastOK, t
<1>33. IterationOK(jt, longer, Live(p), processed', V)
  <2>1. \A y \in Live(p) : Model[y] = jt.model BY <1>8, <1>14, <1>16, <1>30
  <2> QED BY <2>1, <1>8, <1>25, <1>26 DEF IterationOK
<1>34. AdmitPhaseOK(jt, p, longer, left, Ready) BY <1>8, <1>26, <1>29, <1>31 DEF AdmitPhaseOK
<1>35. IterationIs(jt, p, longer, left, processed', V, Ready)
  BY <1>8, <1>11, <1>33, <1>34 DEF IterationIs
<1>36. IterationInv' BY <1>3, <1>10, <1>35 DEF IterationInv, jt, p, V, longer, left
<1>37. TypeInv'
  <2>1. TypeInv BY DEF EngineInv
  <2> QED BY <2>1, <1>1, <1>3, <1>9, <1>17 DEF TypeInv
<1>38. PlaneInv'
  <2>1. {x \in admitted : ~Complete(x)}' = {x \in admitted' : ~Complete(x)} BY <1>10
  <2>2. Live(p) = {x \in admitted' : ~Complete(x)} BY <1>2, <1>3, <1>9, <1>30
  <2> QED BY <2>1, <2>2, <1>8, <1>29 DEF PlaneInv, p, jt
<1>39. LineInv' BY <1>3, <1>10, <1>27, <1>29, <1>30, <1>32 DEF LineInv, p, V, longer, left
<1> QED BY <1>36, <1>37, <1>38, <1>39 DEF EngineInv

(* ConsiderWaiting preserves the invariant.                                *)
LEMMA ConsiderWaitingOK == ASSUME EngineInv, ConsiderWaiting PROVE EngineInv'
<1> DEFINE r == Head(iteration.todo)
<1>1. /\ iteration.phase = "admit" /\ iteration.todo # <<>> /\ Model[r] = iteration.model
      /\ iteration.budget > 0 /\ Len(running) < MaxBatchRequests
      /\ \/ Raise("executor returned an invalid cached prefix length")
         \/ Raise("decode frontier is inconsistent")
         \/ Taken(r, PlaneWith(r), StartOf(r))
         \/ Refused(r, PlaneWith(r))
  BY ConsiderIs
<1>2. r = Head(iteration.todo) OBVIOUS
<1> HIDE DEF r
<1>3. CASE Raise("executor returned an invalid cached prefix length") BY <1>3, RaiseOK
<1>4. CASE Raise("decode frontier is inconsistent") BY <1>4, RaiseOK
<1>5. CASE Taken(r, PlaneWith(r), StartOf(r)) BY <1>1, <1>2, <1>5, TakenOK
<1>6. CASE Refused(r, PlaneWith(r)) BY <1>1, <1>2, <1>6, RefusedOK
<1> QED BY <1>1, <1>3, <1>4, <1>5, <1>6

----------------------------------------------------------------------------
(* Releasing the finished requests.                                        *)

(* The requests that are done are released one after the other.            *)
ReleaseStep(x, y, p, s) == ReleaseRequest(p, s.req)
Releases == INSTANCE FoldTheorems WITH Op <- ReleaseStep
ReleaseAll(p, slices) == FoldLeft(LAMBDA a, s : ReleaseRequest(a, s.req), p, slices)
Until(slices, k) == {slices[i].req : i \in 1 .. k}

(* The releases of the finished requests as a fold.                        *)
LEMMA ReleasesIsFold ==
    ASSUME NEW p, NEW slices
    PROVE  ReleaseAll(p, slices) = Releases!Fold({}, {}, p, slices)
BY DEF ReleaseAll, Releases!Fold, ReleaseStep, Releases!Iter, Releases!Greatest,
       FoldLeft, MapThenFoldSet, Max

ReleasedOf(p, q, S) ==
    /\ PlaneOK(q) /\ Live(q) = Live(p) \ S
    /\ \A s \in Live(p) \ S : q.req[s] = p.req[s]

(* The releases of finished requests preserve the plane invariant and the  *)
(* other requests.                                                         *)
LEMMA ReleaseAllOK ==
    ASSUME NEW p, PlaneOK(p), NEW slices, SlicesOK(p, slices)
    PROVE  ReleasedOf(p, ReleaseAll(p, slices), InBatch(slices))
<1> DEFINE n == Len(slices)
           f(k) == Releases!Partial({}, {}, p, slices, k)
           G == {k \in 0 .. n : ReleasedOf(p, f(k), Until(slices, k))}
<1>0. slices \in Seq(Range(slices)) /\ DOMAIN slices = 1 .. n /\ n \in Nat BY DEF SlicesOK
<1>ind. Releases!Inductive BY Induction DEF Releases!Inductive
<1>1. f(0) = p /\ f(n) = Releases!Fold({}, {}, p, slices) BY <1>0, Releases!FoldEnds, <1>ind
<1>2. ASSUME NEW k \in 0 .. n - 1
      PROVE  f(k + 1) = ReleaseRequest(f(k), slices[k + 1].req) /\ k + 1 \in DOMAIN slices
  <2>1. f(k + 1) = ReleaseStep({}, {}, f(k), slices[k + 1]) BY <1>0, Releases!FoldStep, <1>ind
  <2> QED BY <2>1, <1>0 DEF ReleaseStep
<1> HIDE DEF f
<1>3. 0 \in G
  <2>1. Until(slices, 0) = {} BY DEF Until
  <2> QED BY <2>1, <1>0, <1>1 DEF ReleasedOf
<1>4. ASSUME NEW k \in G, k \in 0 .. n - 1 PROVE k + 1 \in G
  <2> DEFINE a == f(k)
             b == f(k + 1)
             r == slices[k + 1].req
             S == Until(slices, k)
             T == Until(slices, k + 1)
  <2>1. ReleasedOf(p, a, S) BY <1>4
  <2>2. b = ReleaseRequest(a, r) /\ k + 1 \in DOMAIN slices BY <1>2, <1>4
  <2>3. T = S \cup {r}
    <3>1. \A i \in 1 .. k + 1 : i \in 1 .. k \/ i = k + 1 BY <1>4, <1>0
    <3>2. k + 1 \in 1 .. k + 1 /\ \A i \in 1 .. k : i \in 1 .. k + 1 BY <1>4, <1>0
    <3> QED BY <3>1, <3>2 DEF Until
  <2>4. r \in Live(p) /\ r \notin S
    <3>1. r \in Live(p) BY <2>2 DEF SlicesOK
    <3>2. ASSUME NEW i \in 1 .. k, slices[i].req = r PROVE FALSE
      <4>1. i \in DOMAIN slices /\ i # k + 1 BY <1>0, <1>4
      <4> QED BY <4>1, <3>2, <2>2 DEF SlicesOK
    <3> QED BY <3>1, <3>2 DEF Until
  <2> HIDE DEF a, b, r, S, T
  <2>5. PlaneOK(a) /\ Live(a) = Live(p) \ S /\ r \in Live(a) BY <2>1, <2>4 DEF ReleasedOf
  <2>6. PlaneOK(b) /\ Live(b) = Live(a) \ {r} /\ OthersKept(a, b, r) BY <2>2, <2>5, ReleaseOK
  <2>7. Live(b) = Live(p) \ T BY <2>3, <2>5, <2>6
  <2>8. \A s \in Live(p) \ T : b.req[s] = p.req[s]
    <3> SUFFICES ASSUME NEW s \in Live(p) \ T PROVE b.req[s] = p.req[s] OBVIOUS
    <3>1. s \in Live(a) \ {r} /\ s \in Live(p) \ S BY <2>3, <2>5
    <3>2. b.req[s] = a.req[s] BY <3>1, <2>6 DEF OthersKept
    <3>3. a.req[s] = p.req[s] BY <3>1, <2>1 DEF ReleasedOf
    <3> QED BY <3>2, <3>3
  <2>9. ReleasedOf(p, b, T) BY <2>6, <2>7, <2>8 DEF ReleasedOf
  <2> QED BY <2>9, <1>0, <1>4 DEF b, T
<1>5. n \in G
  <2> HIDE DEF G
  <2>1. \A k \in 0 .. n : k \in G BY <1>0, <1>3, <1>4, Sums!PrefixInduction
  <2> QED BY <2>1, <1>0
<1>6. Until(slices, n) = InBatch(slices) BY <1>0 DEF Until, InBatch
<1> QED BY <1>1, <1>5, <1>6, ReleasesIsFold

(* Part of a batch is a batch.                                             *)
LEMMA PartOfBatch ==
    ASSUME NEW p, NEW slices, SlicesOK(p, slices), NEW S, NEW part, part = Keep(slices, S)
    PROVE  /\ SlicesOK(p, part) /\ Range(part) = Range(slices) \cap S
           /\ InBatch(part) = {s.req : s \in Range(slices) \cap S}
<1> DEFINE T == Range(slices)
           place(n) == NthLeast(Places(slices, S), n)
<1>0. /\ slices \in Seq(T)
      /\ \A i \in DOMAIN slices : /\ slices[i].req \in Live(p)
                                  /\ slices[i].begin \in Nat /\ slices[i].count \in Nat
      /\ \A i, j \in DOMAIN slices : slices[i].req = slices[j].req => i = j
  BY DEF SlicesOK
<1> HIDE DEF T
<1>1. /\ part \in Seq(T) /\ Range(part) = Range(slices) \cap S
      /\ DOMAIN part = 1 .. Len(part)
      /\ \A n \in DOMAIN part : place(n) \in DOMAIN slices
      /\ \A m, n \in DOMAIN part : m < n => place(m) < place(n)
  BY <1>0, KeepInOrder
<1>2. \A n \in DOMAIN part : part[n] = slices[place(n)] BY <1>0, KeepIs
<1> HIDE DEF place
<1>3. part \in Seq(Range(part)) BY <1>1, ListIs
<1>4. \A n \in DOMAIN part : /\ part[n].req \in Live(p) /\ part[n].begin \in Nat /\ part[n].count \in Nat
  BY <1>0, <1>1, <1>2
<1>5. ASSUME NEW m \in DOMAIN part, NEW n \in DOMAIN part, part[m].req = part[n].req PROVE m = n
  <2>1. place(m) = place(n) BY <1>0, <1>1, <1>2, <1>5
  <2>2. place(m) \in Int /\ place(n) \in Int BY <1>0, <1>1
  <2>3. m \in Int /\ n \in Int BY <1>1
  <2>4. ~(m < n) /\ ~(n < m) BY <1>1, <2>1, <2>2
  <2> QED BY <2>3, <2>4
<1>6. InBatch(part) = {s.req : s \in Range(part)} BY DEF InBatch, Range
<1> QED BY <1>1, <1>3, <1>4, <1>5, <1>6 DEF SlicesOK

(* What stays of a rising sequence ends where it ended, or before.         *)
LEMMA LastKept ==
    ASSUME NEW run \in Seq(Requests), Rising(run), NEW S, NEW front, front = Keep(run, S), front # <<>>
    PROVE  Range(front) \ {Last(front)} \subseteq Range(run) \ {Last(run)}
<1>1. /\ front \in Seq(Requests) /\ DOMAIN front = 1 .. Len(front) /\ Range(front) = Range(run) \cap S
  BY KeepInOrder
<1>2. Requests \in SUBSET Int BY RequestsFinite
<1>3. \A i, j \in DOMAIN front : i < j => front[i] < front[j] BY <1>2, KeepAscends DEF Rising
<1>4. Len(front) \in DOMAIN front /\ Last(front) = front[Len(front)] BY <1>1 DEF Last
<1>5. DOMAIN run = 1 .. Len(run) /\ Len(run) \in Nat /\ Last(run) = run[Len(run)] BY DEF Last
<1> SUFFICES ASSUME NEW x \in Range(front) \ {Last(front)}, x = Last(run) PROVE FALSE BY <1>1
<1>6. PICK i \in DOMAIN front : x = front[i] BY DEF Range
<1>7. i < Len(front) BY <1>1, <1>4, <1>6
<1>8. x < Last(front) BY <1>3, <1>4, <1>6, <1>7
<1>9. Last(front) \in Range(run) BY <1>1, <1>4 DEF Range
<1>10. PICK j \in DOMAIN run : Last(front) = run[j] BY <1>9 DEF Range
<1>11. CASE j = Len(run)
  <2>1. Last(front) = x BY <1>10, <1>11, <1>5
  <2> QED BY <2>1
<1>12. CASE j # Len(run)
  <2>1. j < Len(run) /\ Len(run) \in DOMAIN run BY <1>5, <1>12
  <2>2. run[j] < run[Len(run)] BY <2>1 DEF Rising
  <2>3. run[j] \in Int /\ run[Len(run)] \in Int
    <3>1. run[j] \in Requests /\ run[Len(run)] \in Requests BY <2>1
    <3> QED BY <3>1, <1>2
  <2> QED BY <2>2, <2>3, <1>5, <1>8, <1>10
<1> QED BY <1>11, <1>12

----------------------------------------------------------------------------
(* The progress a batch makes.                                             *)

(* What the completion of the batch makes of the progress.                 *)
Advanced == [r \in Requests |-> IF r \in InBatch(iteration.slices) THEN Tokens(SliceOf(r)) ELSE processed[r]]
Counted == [r \in Requests |-> IF r \in InBatch(iteration.slices) /\ SliceOf(r).emits
                               THEN emitted[r] + 1 ELSE emitted[r]]
Finishing == {s \in Range(iteration.slices) : s.emits /\ Counted[s.req] = Output(s.req)}
Finished == Keep(iteration.slices, Finishing)
Ran ==
    /\ Mappable(kv, iteration.slices)
    /\ kv' = Settled(ReleaseAll(Execute(kv, iteration.slices), Finished))
    /\ processed' = Advanced /\ emitted' = Counted
    /\ running' = Keep(running, Requests \ InBatch(Finished))
    /\ iteration' = Idle
    /\ UNCHANGED <<prefillTarget, admitted, resumed, arrived>>

(* The outcomes of RunBatch.                                               *)
LEMMA RunIs ==
    ASSUME RunBatch
    PROVE  /\ iteration.phase = "admit" /\ iteration.slices # <<>>
           /\ (\E error : Raise(error)) \/ Ran
<1>1. iteration.phase = "admit" /\ iteration.slices # <<>> BY DEF RunBatch
<1>2. (\E error : Raise(error)) \/ Ran
  BY DEF RunBatch, Ran, Advanced, Counted, Finishing, Finished, ReleaseAll
<1> QED BY <1>1, <1>2

(* The slice of a request in the batch is found by its name.               *)
LEMMA SliceOfIs ==
    ASSUME SlicesOK(kv, iteration.slices), NEW i \in DOMAIN iteration.slices
    PROVE  SliceOf(iteration.slices[i].req) = iteration.slices[i]
<1> DEFINE slices == iteration.slices
           j == CHOOSE j \in DOMAIN slices : slices[j].req = slices[i].req
<1>1. j \in DOMAIN slices /\ slices[j].req = slices[i].req OBVIOUS
<1>2. j = i
  <2> HIDE DEF j
  <2> QED BY <1>1 DEF SlicesOK
<1>3. SliceOf(slices[i].req) = slices[j] BY DEF SliceOf
<1> QED BY <1>2, <1>3

(* The progress of the requests in the batch and of the others.            *)
LEMMA BatchProgress ==
    ASSUME EngineInv, iteration.phase = "admit"
    PROVE  /\ Advanced \in [Requests -> Nat] /\ Counted \in [Requests -> Nat]
           /\ \A r \in InBatch(iteration.slices) : processed[r] <= Advanced[r]
           /\ InBatch(Finished) \subseteq InBatch(iteration.slices)
           /\ \A r \in Requests : Counted[r] = Output(r) <=> Complete(r) \/ r \in InBatch(Finished)
           /\ SlicesOK(kv, Finished)
<1> DEFINE slices == iteration.slices
           B == InBatch(iteration.slices)
           done == InBatch(Finished)
<1>1. /\ AdmitPhaseOK(iteration, kv, running, resumed, Ready)
      /\ IterationOK(iteration, running, Live(kv), processed, Wants(processed, prefillTarget))
      /\ SlicesOK(kv, slices) /\ running \in Seq(Requests) /\ slices \in Seq(Range(slices))
  BY AdmitFacts
<1>2. /\ processed \in [Requests -> Nat] /\ emitted \in [Requests -> Nat]
      /\ Live(kv) = {r \in admitted : ~Complete(r)}
  BY ProgressIs
<1>3. ServesFirst(slices, running, processed) BY <1>1 DEF IterationOK
<1>4. B \subseteq Requests BY <1>1, <1>3, ServedAre
<1>5. \A r \in B : \E i \in DOMAIN slices : r = slices[i].req BY DEF InBatch
<1>6. ASSUME NEW i \in DOMAIN slices
      PROVE  /\ SliceOf(slices[i].req) = slices[i] /\ slices[i].begin = processed[slices[i].req]
             /\ slices[i].count \in Nat \ {0} /\ slices[i].req \in Live(kv) /\ slices[i].req \in B
  <2>1. SliceOf(slices[i].req) = slices[i] BY <1>1, SliceOfIs
  <2>2. slices[i].begin = processed[slices[i].req] /\ slices[i].count \in Nat \ {0}
    BY <1>3 DEF ServesFirst
  <2>3. slices[i].req \in Live(kv) BY <1>1 DEF SlicesOK
  <2>4. slices[i].req \in B BY DEF InBatch
  <2> QED BY <2>1, <2>2, <2>3, <2>4
<1>7. \A r \in B : Tokens(SliceOf(r)) \in Nat /\ processed[r] <= Tokens(SliceOf(r))
  <2> SUFFICES ASSUME NEW r \in B PROVE Tokens(SliceOf(r)) \in Nat /\ processed[r] <= Tokens(SliceOf(r)) OBVIOUS
  <2>1. PICK i \in DOMAIN slices : r = slices[i].req BY <1>5
  <2>2. Tokens(SliceOf(r)) = processed[r] + slices[i].count /\ slices[i].count \in Nat
    BY <2>1, <1>6 DEF Tokens
  <2>3. processed[r] \in Nat BY <1>2, <1>4
  <2> QED BY <2>2, <2>3
<1>8. SlicesOK(kv, Finished) /\ done = {s.req : s \in Range(slices) \cap Finishing}
  BY <1>1, PartOfBatch DEF Finished
<1>9. \A r : r \in done <=> \E i \in DOMAIN slices : /\ r = slices[i].req /\ slices[i].emits
                                                      /\ Counted[r] = Output(r)
  BY <1>8 DEF Finishing, Range
<1>10. done \subseteq B
  <2> HIDE DEF done, B
  <2>1. \A r \in done : \E i \in DOMAIN slices : r = slices[i].req BY <1>9
  <2> QED BY <2>1, <1>6
<1>11. Advanced \in [Requests -> Nat] /\ \A r \in B : Advanced[r] = Tokens(SliceOf(r))
  BY <1>2, <1>4, <1>7 DEF Advanced
<1>12. Counted \in [Requests -> Nat] BY <1>2 DEF Counted
<1>13. ASSUME NEW r \in Requests PROVE Counted[r] = Output(r) <=> Complete(r) \/ r \in done
  <2>1. Counted[r] = IF r \in B /\ SliceOf(r).emits THEN emitted[r] + 1 ELSE emitted[r] BY DEF Counted
  <2>2. Complete(r) <=> emitted[r] = Output(r) BY DEF Complete
  <2> HIDE DEF B, done
  <2>3. CASE r \notin B
    <3>1. r \notin done BY <2>3, <1>10
    <3> QED BY <3>1, <2>1, <2>2, <2>3
  <2>4. CASE r \in B
    <3>1. PICK i \in DOMAIN slices : r = slices[i].req BY <2>4, <1>5 DEF B
    <3>2. SliceOf(r) = slices[i] /\ ~Complete(r) BY <3>1, <1>2, <1>6
    <3>3. r \in done <=> slices[i].emits /\ Counted[r] = Output(r)
      <4>1. \A j \in DOMAIN slices : r = slices[j].req => slices[j] = slices[i] BY <3>2, <1>6
      <4> QED BY <4>1, <3>1, <1>9
    <3>4. CASE slices[i].emits BY <3>2, <3>3, <3>4, <2>2
    <3>5. CASE ~slices[i].emits
      <4>1. Counted[r] = emitted[r] BY <3>2, <3>5, <2>1
      <4> QED BY <4>1, <3>2, <3>3, <3>5, <2>2
    <3> QED BY <3>4, <3>5
  <2> QED BY <2>3, <2>4
<1>14. \A r \in B : processed[r] <= Advanced[r] BY <1>7, <1>11
<1> QED BY <1>8, <1>10, <1>11, <1>12, <1>13, <1>14

----------------------------------------------------------------------------
(* Completing the batch.                                                   *)

(* The line of the requests when some of the running ones have finished.   *)
LEMMA LineFinishes ==
    ASSUME NEW run, NEW res, NEW line, NEW ready, NEW unfinished, LineOK(run, res, line, ready, unfinished),
           NEW S, S \subseteq Range(run), NEW left, left = Keep(run, Requests \ S),
           NEW later, later \subseteq unfinished \ S,
           NEW still, \A x \in ready \ S : x \in still
    PROVE  LineOK(left, res, line \ S, still, later)
<1>0. /\ run \in Seq(Requests) /\ res \in Seq(Requests) /\ Rising(run) /\ Rising(res)
      /\ \A x \in Range(run), y \in Range(res) : x < y
      /\ Range(run) \cup Range(res) = line /\ SameModel(line) /\ line \subseteq ready
      /\ NoneOvertaken(line, unfinished) /\ Len(run) <= MaxBatchRequests
  BY DEF LineOK
<1>1. /\ left \in Seq(Requests) /\ Range(left) = Range(run) \cap (Requests \ S)
      /\ Len(left) <= Len(run)
  BY <1>0, KeepInOrder
<1>2. Range(run) \subseteq Requests /\ Range(res) \subseteq Requests BY <1>0, ListIs
<1>3. Range(left) = Range(run) \ S BY <1>1, <1>2
<1>4. Rising(left)
  <2>1. Requests \in SUBSET Int BY RequestsFinite
  <2>2. \A i, j \in DOMAIN left : i < j => left[i] < left[j] BY <2>1, <1>0, KeepAscends DEF Rising
  <2> QED BY <2>2 DEF Rising
<1>5. Range(left) \cup Range(res) = line \ S
  <2>1. \A x \in Range(res) : x \notin S
    <3>1. Range(res) \in SUBSET Int BY <1>2, RequestsFinite
    <3>2. \A x \in Range(res) : ~(x < x) BY <3>1
    <3> QED BY <3>2, <1>0
  <2> QED BY <2>1, <1>0, <1>3
<1>6. SameModel(line \ S) BY <1>0 DEF SameModel
<1>7. NoneOvertaken(line \ S, later)
  <2> SUFFICES ASSUME NEW x \in later \ (line \ S), NEW y \in line \ S, Model[x] = Model[y] PROVE y < x
      BY DEF NoneOvertaken
  <2>1. CASE x \in line
    <3>1. x \in S BY <2>1
    <3> QED BY <3>1
  <2>2. CASE x \notin line
    <3>1. x \in unfinished \ line BY <2>2
    <3> QED BY <3>1, <1>0 DEF NoneOvertaken
  <2> QED BY <2>1, <2>2
<1>8. \A x \in Range(left), y \in Range(res) : x < y BY <1>0, <1>3
<1>9. Len(left) <= MaxBatchRequests
  <2>1. Len(left) \in Nat /\ Len(run) \in Nat /\ MaxBatchRequests \in Nat BY <1>0, <1>1, PolicyAssumption
  <2> QED BY <2>1, <1>0, <1>1
<1>10. line \ S \subseteq still BY <1>0
<1> QED BY <1>0, <1>1, <1>4, <1>5, <1>6, <1>7, <1>8, <1>9, <1>10 DEF LineOK

(* The completion of a batch preserves the invariant: the finished         *)
(* requests leave the plane and the line together.                         *)
LEMMA RanOK ==
    ASSUME EngineInv, iteration.phase = "admit", iteration.todo = <<>>, Ran
    PROVE  EngineInv'
<1> DEFINE it == iteration
           W == Wants(processed, prefillTarget)
           V == Wants(processed', prefillTarget)
           S == InBatch(Finished)
           p == kv'
           left == running'
           after == processed'
           e == Execute(kv, iteration.slices)
<1>1. /\ AdmitPhaseOK(it, kv, running, resumed, Ready)
      /\ IterationOK(it, running, Live(kv), processed, W)
      /\ SlicesOK(kv, it.slices) /\ PlaneOK(kv)
      /\ running \in Seq(Requests) /\ resumed \in Seq(Requests) /\ it.slices \in Seq(Range(it.slices))
  BY AdmitFacts
<1>2. /\ processed \in [Requests -> Nat] /\ prefillTarget \in [Requests -> Nat]
      /\ W \in [Requests -> Nat] /\ admitted \subseteq Requests /\ arrived \in 0 .. NRequests
      /\ Live(kv) = {r \in admitted : ~Complete(r)}
      /\ LineOK(running, resumed, Live(kv), Ready, Unfinished) /\ HotOK(kv, running) /\ LastOK(running, W)
  BY ProgressIs
<1>3. /\ Advanced \in [Requests -> Nat] /\ Counted \in [Requests -> Nat]
      /\ \A r \in InBatch(it.slices) : processed[r] <= Advanced[r]
      /\ S \subseteq InBatch(it.slices)
      /\ \A r \in Requests : Counted[r] = Output(r) <=> Complete(r) \/ r \in S
      /\ SlicesOK(kv, Finished)
  BY BatchProgress
<1>4. /\ p = Settled(ReleaseAll(e, Finished)) /\ after = Advanced /\ emitted' = Counted
      /\ left = Keep(running, Requests \ S) /\ iteration' = Idle
      /\ prefillTarget' = prefillTarget /\ admitted' = admitted /\ resumed' = resumed /\ arrived' = arrived
  BY DEF Ran
<1>5. Mappable(kv, it.slices) BY DEF Ran
<1>6. InBatch(it.slices) = Range(running) /\ Range(running) \subseteq Requests
  <2>1. ServesFirst(it.slices, running, processed) /\ Len(it.slices) = Len(running)
    BY <1>1 DEF IterationOK, AdmitPhaseOK
  <2> QED BY <2>1, <1>1, ServedAre
<1>7. \A r \in Requests : Complete(r)' <=> Complete(r) \/ r \in S
  <2>1. \A r : Complete(r)' <=> emitted'[r] = Output(r) BY DEF Complete, Output
  <2> HIDE DEF S
  <2> QED BY <2>1, <1>3, <1>4
<1>8. Live(kv) \subseteq Requests BY <1>2
<1>9. V = Wants(after, prefillTarget) OBVIOUS
<1> HIDE DEF it, W, V, S, p, left, after, e
<1>10. PlaneOK(e) /\ Live(e) = Live(kv) /\ e.req = kv.req BY <1>1, <1>5, ExecuteOK DEF e, it
<1>11. /\ PlaneOK(p) /\ Live(p) = Live(kv) \ S
       /\ \A s \in Live(kv) \ S : p.req[s] = kv.req[s]
  <2> DEFINE q == ReleaseAll(e, Finished)
  <2>1. SlicesOK(e, Finished) BY <1>3, <1>10 DEF SlicesOK
  <2>2. ReleasedOf(e, q, S) BY <2>1, <1>10, ReleaseAllOK DEF S
  <2>3. p = Settled(q) BY <1>4
  <2> HIDE DEF q
  <2>4. PlaneOK(q) /\ Live(q) = Live(kv) \ S /\ \A s \in Live(kv) \ S : q.req[s] = kv.req[s]
    BY <2>2, <1>10 DEF ReleasedOf
  <2>5. PlaneOK(p) /\ Live(p) = Live(q) /\ p.req = q.req BY <2>3, <2>4, SettledOK
  <2> QED BY <2>4, <2>5
<1>12. Unfinished' = Unfinished \ S
  <2>1. Unfinished' = {r \in Requests : ~Complete(r)'} BY DEF Unfinished
  <2> QED BY <2>1, <1>7 DEF Unfinished
<1>13. \A x \in Ready \ S : x \in Ready'
  <2> SUFFICES ASSUME NEW x \in Ready \ S PROVE x \in Ready' OBVIOUS
  <2>1. x \in Runnable /\ x \in Unfinished /\ x <= arrived BY ReadyIs DEF Ready
  <2>2. \A s \in Unfinished : Group[x] <= Group[s] BY <2>1 DEF Runnable, Unfinished
  <2>3. x \in Unfinished' /\ \A s \in Unfinished' : Group[x] <= Group[s] BY <2>1, <2>2, <1>12
  <2>4. Runnable' = {r \in Unfinished' : \A s \in Unfinished' : Group[r] <= Group[s]}
    BY DEF Runnable, Unfinished
  <2>5. x \in Runnable' BY <2>3, <2>4
  <2> QED BY <2>1, <2>5, <1>4 DEF Ready
<1>14. LineOK(left, resumed, Live(p), Ready', Unfinished')
  <2> DEFINE still == Ready'
             later == Unfinished'
  <2>1. (\A x \in Ready \ S : x \in still) /\ later \subseteq Unfinished \ S BY <1>12, <1>13
  <2> HIDE DEF still, later
  <2>2. S \subseteq Range(running) BY <1>3, <1>6
  <2>3. LineOK(left, resumed, Live(kv) \ S, still, later) BY <2>1, <2>2, <1>2, <1>4, LineFinishes
  <2> QED BY <2>3, <1>11 DEF still, later
<1>15. left \in Seq(Requests) /\ Range(left) = Range(running) \ S
  <2>1. left \in Seq(Requests) /\ Range(left) = Range(running) \cap (Requests \ S) BY <1>1, <1>4, KeepInOrder
  <2> QED BY <2>1, <1>6
<1>16. HotOK(p, left)
  <2> SUFFICES ASSUME NEW i \in DOMAIN left PROVE CanPreempt(p, left[i]) BY DEF HotOK
  <2>1. left[i] \in Range(left) BY DEF Range
  <2>2. left[i] \in Range(running) /\ left[i] \notin S BY <2>1, <1>15
  <2>3. left[i] \in Live(kv) BY <2>2, <1>2 DEF LineOK
  <2>4. PICK j \in DOMAIN running : left[i] = running[j] BY <2>2 DEF Range
  <2>5. CanPreempt(kv, left[i]) BY <2>4, <1>2 DEF HotOK
  <2>6. p.req[left[i]] = kv.req[left[i]] BY <2>2, <2>3, <1>11
  <2> QED BY <2>5, <2>6 DEF CanPreempt, IsHot
<1>17. after \in [Requests -> Nat] /\ V \in [Requests -> Nat]
  <2>1. after \in [Requests -> Nat] BY <1>3, <1>4
  <2> QED BY <2>1, <1>2, <1>9, WantsAre
<1>18. \A x \in Range(running) : V[x] <= W[x]
  <2> SUFFICES ASSUME NEW x \in Range(running) PROVE V[x] <= W[x] OBVIOUS
  <2>1. x \in Requests /\ processed[x] <= after[x] BY <1>3, <1>4, <1>6
  <2>2. processed[x] \in Nat /\ after[x] \in Nat /\ prefillTarget[x] \in Nat BY <2>1, <1>2, <1>17
  <2>3. Want(x, after[x], prefillTarget[x]) <= Want(x, processed[x], prefillTarget[x])
    BY <2>1, <2>2, WantShrinks
  <2>4. V[x] = Want(x, after[x], prefillTarget[x]) BY <2>1, <1>9 DEF Wants
  <2>5. W[x] = Want(x, processed[x], prefillTarget[x]) BY <2>1 DEF Wants, W
  <2> QED BY <2>3, <2>4, <2>5
<1>19. LastOK(left, V)
  <2> SUFFICES ASSUME left # <<>> PROVE Total(V, Range(left) \ {Last(left)}) < MaxBatchTokens BY DEF LastOK
  <2> DEFINE R == Range(running) \ {Last(running)}
             T == Range(left) \ {Last(left)}
  <2>1. T \subseteq R
    <3>1. Rising(running) BY <1>2 DEF LineOK
    <3> QED BY <3>1, <1>1, <1>4, LastKept
  <2>2. running # <<>>
    <3>1. 1 \in DOMAIN left BY <1>15
    <3>2. left[1] \in Range(running) BY <3>1, <1>15 DEF Range
    <3> QED BY <3>2 DEF Range
  <2>3. Total(W, R) < MaxBatchTokens BY <2>2, <1>2 DEF LastOK
  <2>4. R \in SUBSET Requests /\ T \in SUBSET R /\ \A x \in T : V[x] <= W[x] BY <2>1, <1>6, <1>18
  <2> HIDE DEF R, T
  <2>5. Total(V, T) < MaxBatchTokens BY <2>3, <2>4, <1>2, <1>17, FewerFit
  <2> QED BY <2>5 DEF T
<1>20. IterationInv'
  <2>1. DOMAIN Idle = Locals /\ Idle.phase = "idle" /\ Idle.preempted = FALSE BY DEF Idle, Locals
  <2> DEFINE still == Ready'
  <2>2. IterationIs(Idle, p, left, resumed, after, V, still) BY <2>1 DEF IterationIs
  <2> QED BY <2>2, <1>4 DEF IterationInv, p, left, after, V
<1>21. TypeInv'
  <2>1. TypeInv BY DEF EngineInv
  <2> QED BY <2>1, <1>3, <1>4 DEF TypeInv, after
<1>22. PlaneInv'
  <2>1. {r \in admitted : ~Complete(r)}' = {r \in admitted : ~Complete(r)'} BY <1>4
  <2>2. Live(p) = {r \in admitted : ~Complete(r)'} BY <1>2, <1>7, <1>11
  <2>3. SlicesOK(p, <<>>) BY NoSlices
  <2>4. Idle.slices = <<>> BY DEF Idle
  <2> QED BY <2>1, <2>2, <2>3, <2>4, <1>4, <1>11 DEF PlaneInv, p
<1>23. LineInv' BY <1>4, <1>14, <1>16, <1>19 DEF LineInv, p, V, left
<1> QED BY <1>20, <1>21, <1>22, <1>23 DEF EngineInv

(* RunBatch preserves the invariant.                                       *)
LEMMA RunBatchOK == ASSUME EngineInv, RunBatch PROVE EngineInv'
<1>1. iteration.phase = "admit" /\ iteration.todo = <<>> BY DEF RunBatch
<1>2. (\E error : Raise(error)) \/ Ran BY RunIs
<1>3. CASE \E error : Raise(error)
  <2>1. PICK error : Raise(error) BY <1>3
  <2> QED BY <2>1, RaiseOK
<1> QED BY <1>1, <1>2, <1>3, RanOK

----------------------------------------------------------------------------
(* The invariant and the properties it gives.                              *)

(* The empty engine: nothing is running and the plane is empty.            *)
LEMMA EngineInit == Init => EngineInv
<1> SUFFICES ASSUME Init PROVE EngineInv OBVIOUS
<1>1. /\ kv = EmptyPlane /\ processed = [r \in Requests |-> 0] /\ emitted = [r \in Requests |-> 0]
      /\ prefillTarget = Prompt /\ admitted = {} /\ running = <<>> /\ resumed = <<>>
      /\ arrived = 0 /\ iteration = Idle
  BY DEF Init
<1>2. TypeInv
  <2>1. prefillTarget \in [Requests -> Nat] BY <1>1, RequestsAssumption, RequestsFinite
  <2>2. processed \in [Requests -> Nat] /\ emitted \in [Requests -> Nat] BY <1>1
  <2>3. arrived \in 0 .. NRequests BY <1>1, RequestsFinite
  <2> QED BY <1>1, <2>1, <2>2, <2>3 DEF TypeInv
<1>3. PlaneOK(kv) /\ Live(kv) = {} BY <1>1, EmptyPlaneOK
<1>4. PlaneInv
  <2>1. iteration.slices = <<>> BY <1>1 DEF Idle
  <2> QED BY <1>1, <1>3, <2>1, NoSlices DEF PlaneInv
<1>5. Range(running) = {} /\ Range(resumed) = {} BY <1>1 DEF Range
<1>6. LineInv
  <2>1. Rising(running) /\ Rising(resumed) BY <1>1 DEF Rising
  <2>2. SameModel({}) BY DEF SameModel
  <2>3. NoneOvertaken({}, Unfinished) BY DEF NoneOvertaken
  <2>4. running \in Seq(Requests) /\ resumed \in Seq(Requests) BY <1>1
  <2>5. Len(running) <= MaxBatchRequests
    <3>1. Len(running) = 0 BY <1>1
    <3> QED BY <3>1, PolicyAssumption
  <2>6. LineOK(running, resumed, Live(kv), Ready, Unfinished)
    BY <1>3, <1>5, <2>1, <2>2, <2>3, <2>4, <2>5 DEF LineOK
  <2>7. HotOK(kv, running) BY <1>1 DEF HotOK
  <2>8. LastOK(running, Wants(processed, prefillTarget)) BY <1>1 DEF LastOK
  <2> QED BY <2>6, <2>7, <2>8 DEF LineInv
<1>7. IterationInv
  <2>1. DOMAIN Idle = Locals /\ Idle.phase = "idle" /\ Idle.preempted = FALSE BY DEF Idle, Locals
  <2>2. IterationIs(Idle, kv, running, resumed, processed, Wants(processed, prefillTarget), Ready)
    BY <2>1 DEF IterationIs
  <2> QED BY <1>1, <2>2 DEF IterationInv
<1> QED BY <1>2, <1>4, <1>6, <1>7 DEF EngineInv

(* Every step of the engine preserves the invariant.                       *)
LEMMA EngineStep == ASSUME EngineInv, [Next]_vars PROVE EngineInv'
<1>1. CASE StartIteration BY <1>1, StartOK
<1>2. CASE SkipRunning BY <1>2, SkipRunningOK
<1>3. CASE OfferRunning BY <1>3, OfferRunningOK
<1>4. CASE SelectRunning BY <1>4, SelectRunningOK
<1>5. CASE PreemptYoungest BY <1>5, PreemptYoungestOK
<1>6. CASE ReserveRunning BY <1>6, ReserveRunningOK
<1>7. CASE SkipWaiting BY <1>7, SkipWaitingOK
<1>8. CASE StopAdmitting BY <1>8, StopAdmittingOK
<1>9. CASE ConsiderWaiting BY <1>9, ConsiderWaitingOK
<1>10. CASE EmptyIteration BY <1>10, EmptyIterationOK
<1>11. CASE RunBatch BY <1>11, RunBatchOK
<1>12. CASE Terminated BY <1>12, StutterOK DEF Terminated
<1>13. CASE UNCHANGED vars BY <1>13, StutterOK
<1> QED BY <1>1, <1>2, <1>3, <1>4, <1>5, <1>6, <1>7, <1>8, <1>9, <1>10, <1>11, <1>12, <1>13 DEF Next, Step

(* The inductive invariant of the engine.                                  *)
THEOREM EngineInvariant == Spec => []EngineInv
<1>1. EngineInv /\ [Next]_vars => EngineInv' BY EngineStep
<1> QED BY EngineInit, <1>1, PTL DEF Spec

(* Block counts are exact and nothing is left when all requests are done.  *)
THEOREM NothingLeaksAlways == Spec => []NothingLeaks
<1>1. EngineInv => NothingLeaks
  <2> SUFFICES ASSUME EngineInv PROVE NothingLeaks OBVIOUS
  <2>1. CountsAreHolders(kv) BY ProgressIs, CountsOK
  <2>2. Live(kv) \subseteq Ready BY ProgressIs DEF LineOK
  <2>3. Live(kv) \subseteq Runnable BY <2>2, ReadyIs
  <2> QED BY <2>1, <2>3 DEF NothingLeaks
<1> QED BY <1>1, EngineInvariant, PTL

(* A running request keeps its blocks in HBM until it is preempted.        *)
THEOREM RunningStaysHotAlways == Spec => []RunningStaysHot
<1>1. EngineInv => RunningStaysHot BY ProgressIs DEF HotOK, RunningStaysHot
<1> QED BY <1>1, EngineInvariant, PTL

(* The last running request is the youngest, and the preempted come back   *)
(* before anything younger.                                                *)
THEOREM PreemptedInAgeOrderAlways == Spec => []PreemptedInAgeOrder
<1>1. EngineInv => PreemptedInAgeOrder
  <2> SUFFICES ASSUME EngineInv PROVE PreemptedInAgeOrder OBVIOUS
  <2> DEFINE line == running \o resumed
             m == Len(running)
             n == Len(resumed)
  <2>1. LineOK(running, resumed, Live(kv), Ready, Unfinished) BY ProgressIs
  <2>2. /\ running \in Seq(Requests) /\ resumed \in Seq(Requests) /\ Rising(running) /\ Rising(resumed)
        /\ \A x \in Range(running), y \in Range(resumed) : x < y
        /\ Range(running) \cup Range(resumed) = Live(kv) /\ SameModel(Live(kv))
    BY <2>1 DEF LineOK
  <2>3. Joined(line, running, resumed) BY DEF Joined
  <2> HIDE DEF line
  <2>4. /\ line \in Seq(Requests) /\ Len(line) = m + n
        /\ \A i \in 1 .. m + n : line[i] = IF i <= m THEN running[i] ELSE resumed[i - m]
    BY <2>2, <2>3, ConcatIs
  <2>5. m \in Nat /\ n \in Nat /\ DOMAIN running = 1 .. m /\ DOMAIN resumed = 1 .. n BY <2>2
  <2>6. DOMAIN line = 1 .. m + n BY <2>4, <2>5
  <2> HIDE DEF m, n
  <2>7. ASSUME NEW i \in 1 .. m + n
        PROVE  \/ i \in 1 .. m /\ line[i] = running[i] /\ line[i] \in Range(running)
               \/ i - m \in 1 .. n /\ i > m /\ line[i] = resumed[i - m] /\ line[i] \in Range(resumed)
    <3>1. CASE i <= m
      <4>1. i \in 1 .. m BY <3>1, <2>5
      <4> QED BY <4>1, <3>1, <2>4, <2>5 DEF Range
    <3>2. CASE ~(i <= m)
      <4>1. i - m \in 1 .. n /\ i > m BY <3>2, <2>5
      <4> QED BY <4>1, <3>2, <2>4, <2>5 DEF Range
    <3> QED BY <3>1, <3>2
  <2>8. ASSUME NEW i \in 1 .. m + n, NEW j \in 1 .. m + n, i < j
        PROVE  line[i] < line[j] /\ Model[line[i]] = Model[line[j]]
    <3>1. line[i] \in Live(kv) /\ line[j] \in Live(kv) BY <2>7, <2>2
    <3>2. line[i] < line[j]
      <4>1. CASE i \in 1 .. m /\ line[i] = running[i] /\ j \in 1 .. m /\ line[j] = running[j]
        BY <4>1, <2>2, <2>5, <2>8 DEF Rising
      <4>2. CASE line[i] \in Range(running) /\ line[j] \in Range(resumed) BY <4>2, <2>2
      <4>3. CASE i > m /\ j \in 1 .. m BY <4>3, <2>5, <2>8
      <4>4. CASE i - m \in 1 .. n /\ line[i] = resumed[i - m] /\ j - m \in 1 .. n /\ line[j] = resumed[j - m]
        <5>1. i - m < j - m BY <2>5, <2>8
        <5> QED BY <4>4, <5>1, <2>2, <2>5 DEF Rising
      <4> QED BY <2>7, <4>1, <4>2, <4>3, <4>4
    <3> QED BY <3>1, <3>2, <2>2 DEF SameModel
  <2> QED BY <2>6, <2>8 DEF PreemptedInAgeOrder, line
<1> QED BY <1>1, EngineInvariant, PTL

(* A batch that is ready serves every running request within both budgets. *)
THEOREM BatchServesAllRunningAlways == Spec => []BatchServesAllRunning
<1>1. EngineInv => BatchServesAllRunning
  <2> SUFFICES ASSUME EngineInv, iteration.phase = "admit"
               PROVE  /\ \A i \in DOMAIN running : running[i] \in InBatch(iteration.slices)
                      /\ Len(running) <= MaxBatchRequests
                      /\ SumFunction(Counts(iteration.slices)) + iteration.budget = MaxBatchTokens
      BY DEF BatchServesAllRunning, Counts
  <2>1. /\ AdmitPhaseOK(iteration, kv, running, resumed, Ready)
        /\ IterationOK(iteration, running, Live(kv), processed, Wants(processed, prefillTarget))
        /\ running \in Seq(Requests) /\ iteration.slices \in Seq(Range(iteration.slices))
    BY AdmitFacts
  <2>2. InBatch(iteration.slices) = Range(running)
    BY <2>1, ServedAre DEF IterationOK, AdmitPhaseOK
  <2>3. Len(running) <= MaxBatchRequests BY ProgressIs DEF LineOK
  <2> QED BY <2>1, <2>2, <2>3 DEF IterationOK, Spends, Range
<1> QED BY <1>1, EngineInvariant, PTL

----------------------------------------------------------------------------
(* The data through an iteration.                                          *)

(* A batch is to be reserved, all of it at once, of requests that have     *)
(* their tokens: nothing is due before, and what was full is full at the   *)
(* end of the slices.                                                      *)
LEMMA OpenRight ==
    ASSUME NEW v, PlaneOK(v), NEW done \in [Requests -> Nat], DataRight(v, <<>>, done),
           NEW slices, SlicesOK(v, slices), Begins(slices, done)
    PROVE  DataRight(v, slices, done)
<1> DEFINE g == Progress(<<>>, done)
           h == Progress(slices, done)
<1>1. DataOK(v, g) /\ PendingDue(v, g) BY DEF DataRight
<1>2. /\ g.batch = {} /\ g.todo = {} /\ g.done = done /\ \A r \in Requests : g.reach[r] = done[r]
  BY DEF Progress, InBatch
<1>3. Live(v) \subseteq Requests BY RestIs
<1>4. ProgressOK(h) /\ h.done = done BY <1>3, ReachIs
<1> HIDE DEF g, h
<1>5. \A b : ~DueBlock(v, g, b) BY <1>2 DEF DueBlock, Due
<1>6. ASSUME NEW r \in Live(v), NEW i \in DOMAIN v.req[r].table, Full(i, g.reach[r])
      PROVE  Full(i, h.reach[r])
  <2>1. r \in Requests /\ g.reach[r] = done[r] BY <1>2, <1>3
  <2>2. done[r] \in Nat /\ h.reach[r] \in Nat /\ done[r] <= h.reach[r] BY <2>1, <1>4 DEF ProgressOK
  <2>3. i \in Nat
    <3> DEFINE T == v.req[r].table
               F == IF IsHot(v, r) THEN HotRows ELSE ColdRows
    <3>1. T \in Seq(F) BY PlaneParts DEF RequestsOK
    <3> HIDE DEF F
    <3>2. DOMAIN T = 1 .. Len(T) /\ Len(T) \in Nat BY <3>1
    <3> QED BY <3>2
  <2>4. Full(i, done[r]) BY <1>6, <2>1
  <2> QED BY <2>2, <2>3, <2>4, FullIs
<1>7. TablesRight(v, h)
  <2>1. TablesRight(v, g) BY <1>1 DEF DataOK
  <2> QED BY <2>1, <1>2, <1>4, <1>5 DEF TablesRight, TableRight, Reading
<1>8. SharesRight(v, h)
  <2>1. SharesRight(v, g) BY <1>1 DEF DataOK
  <2> QED BY <2>1, <1>2, <1>4, <1>6 DEF SharesRight, SharedRight
<1>9. CacheRight(v, h)
  <2>1. CacheRight(v, g) BY <1>1 DEF DataOK
  <2> QED BY <2>1, <1>5, <1>6 DEF CacheRight, CachedRight, EntryRight
<1>10. PendingDue(v, h) BY <1>1, <1>2 DEF PendingDue
<1> QED BY <1>7, <1>8, <1>9, <1>10 DEF DataRight, DataOK, h

(* The slices whose blocks the plane has reserved, and the invariant with  *)
(* the data: every request finds its tokens where it reads, or the batch   *)
(* that is reserved will write them.                                       *)
Reserved == IF iteration.phase = "admit" THEN iteration.slices ELSE <<>>
EngineDataInv == EngineInv /\ DataRight(kv, Reserved, processed)

(* The releases of finished requests keep the data right.                  *)
ReleasedRight(p, q, S, done) == ReleasedOf(p, q, S) /\ DataRight(q, <<>>, done)

(* One request more is released: the data stays right, and the other       *)
(* requests stay.                                                          *)
LEMMA ReleaseOneRight ==
    ASSUME NEW p, NEW a, NEW S, NEW done \in [Requests -> Nat], ReleasedRight(p, a, S, done),
           NEW r \in Live(p) \ S, NEW b, b = ReleaseRequest(a, r)
    PROVE  ReleasedRight(p, b, S \cup {r}, done)
<1>1. PlaneOK(a) /\ Live(a) = Live(p) \ S /\ r \in Live(a) /\ DataRight(a, <<>>, done)
  BY DEF ReleasedRight, ReleasedOf
<1>2. PlaneOK(b) /\ Live(b) = Live(a) \ {r} /\ OthersKept(a, b, r) BY <1>1, ReleaseOK
<1>3. \A s \in Live(p) \ (S \cup {r}) : b.req[s] = p.req[s]
  <2> SUFFICES ASSUME NEW s \in Live(p) \ (S \cup {r}) PROVE b.req[s] = p.req[s] OBVIOUS
  <2>1. s \in Live(a) \ {r} /\ s \in Live(p) \ S BY <1>1
  <2>2. b.req[s] = a.req[s] BY <2>1, <1>2 DEF OthersKept
  <2>3. a.req[s] = p.req[s] BY <2>1 DEF ReleasedRight, ReleasedOf
  <2> QED BY <2>2, <2>3
<1>4. ReleasedOf(p, b, S \cup {r}) BY <1>1, <1>2, <1>3 DEF ReleasedOf
<1>5. DataRight(b, <<>>, done)
  <2>1. r \in Requests BY <1>1, RestIs
  <2>2. done[r] \in Nat /\ done = [done EXCEPT ![r] = done[r]] BY <2>1
  <2>3. SlicesOK(a, <<>>) /\ r \notin InBatch(<<>>) BY NoSlices DEF InBatch
  <2>4. DataRight(b, <<>>, [done EXCEPT ![r] = done[r]]) BY <1>1, <2>2, <2>3, LeaveRight
  <2> QED BY <2>2, <2>4
<1> QED BY <1>4, <1>5 DEF ReleasedRight

(* All the finished requests are released, one after the other, and the    *)
(* data stays right.                                                       *)
LEMMA ReleaseAllRight ==
    ASSUME NEW p, PlaneOK(p), NEW slices, SlicesOK(p, slices),
           NEW done \in [Requests -> Nat], DataRight(p, <<>>, done)
    PROVE  DataRight(ReleaseAll(p, slices), <<>>, done)
<1> DEFINE n == Len(slices)
           f(k) == Releases!Partial({}, {}, p, slices, k)
           G == {k \in 0 .. n : ReleasedRight(p, f(k), Until(slices, k), done)}
<1>0. slices \in Seq(Range(slices)) /\ DOMAIN slices = 1 .. n /\ n \in Nat BY DEF SlicesOK
<1>ind. Releases!Inductive BY Induction DEF Releases!Inductive
<1>1. f(0) = p /\ f(n) = Releases!Fold({}, {}, p, slices) BY <1>0, Releases!FoldEnds, <1>ind
<1>2. ASSUME NEW k \in 0 .. n - 1
      PROVE  f(k + 1) = ReleaseRequest(f(k), slices[k + 1].req) /\ k + 1 \in DOMAIN slices
  <2>1. f(k + 1) = ReleaseStep({}, {}, f(k), slices[k + 1]) BY <1>0, Releases!FoldStep, <1>ind
  <2> QED BY <2>1, <1>0 DEF ReleaseStep
<1> HIDE DEF f
<1>3. 0 \in G
  <2>1. Until(slices, 0) = {} BY DEF Until
  <2>2. ReleasedOf(p, p, {}) BY DEF ReleasedOf
  <2>3. ReleasedRight(p, p, {}, done) BY <2>2 DEF ReleasedRight
  <2>4. ReleasedRight(p, f(0), Until(slices, 0), done) BY <2>1, <2>3, <1>1
  <2> QED BY <2>4, <1>0
<1>4. ASSUME NEW k \in G, k \in 0 .. n - 1 PROVE k + 1 \in G
  <2> DEFINE a == f(k)
             b == f(k + 1)
             r == slices[k + 1].req
             S == Until(slices, k)
  <2>1. ReleasedRight(p, a, S, done) BY <1>4
  <2>2. b = ReleaseRequest(a, r) /\ k + 1 \in DOMAIN slices BY <1>2, <1>4
  <2>3. Until(slices, k + 1) = S \cup {r}
    <3>1. \A i \in 1 .. k + 1 : i \in 1 .. k \/ i = k + 1 BY <1>4, <1>0
    <3>2. k + 1 \in 1 .. k + 1 /\ \A i \in 1 .. k : i \in 1 .. k + 1 BY <1>4, <1>0
    <3> QED BY <3>1, <3>2 DEF Until
  <2>4. r \in Live(p) \ S
    <3>1. r \in Live(p) BY <2>2 DEF SlicesOK
    <3>2. ASSUME NEW i \in 1 .. k, slices[i].req = r PROVE FALSE
      <4>1. i \in DOMAIN slices /\ i # k + 1 BY <1>0, <1>4
      <4> QED BY <4>1, <3>2, <2>2 DEF SlicesOK
    <3> QED BY <3>1, <3>2 DEF Until
  <2> HIDE DEF a, b, r, S
  <2>5. ReleasedRight(p, b, Until(slices, k + 1), done) BY <2>1, <2>2, <2>3, <2>4, ReleaseOneRight
  <2> QED BY <2>5, <1>0, <1>4 DEF b
<1>5. n \in G
  <2> HIDE DEF G
  <2>1. \A k \in 0 .. n : k \in G BY <1>0, <1>3, <1>4, Sums!PrefixInduction
  <2> QED BY <2>1, <1>0
<1>6. DataRight(f(n), <<>>, done) BY <1>5 DEF ReleasedRight
<1> QED BY <1>1, <1>6, ReleasesIsFold

----------------------------------------------------------------------------
(* A step that reserves nothing, moves nothing and writes nothing.         *)
Untouched == kv' = kv /\ processed' = processed /\ Reserved' = Reserved

(* An error leaves the plane, the progress and the reserved slices.        *)
LEMMA RaiseTouchesNothing == ASSUME NEW error, Raise(error) PROVE Untouched
BY DEF Raise, Untouched, Reserved, progress

(* A step that changes other locals of the iteration leaves them too.      *)
LEMMA LocalsTouchNothing ==
    ASSUME kv' = kv, UNCHANGED progress, iteration'.phase = iteration.phase, iteration'.slices = iteration.slices
    PROVE  Untouched
BY DEF Untouched, Reserved, progress

(* An iteration that opens has reserved nothing.                           *)
LEMMA OpeningTouchesNothing ==
    ASSUME kv' = kv, UNCHANGED progress, Reserved = <<>>, NEW S, iteration' = Opened(S)
    PROVE  Untouched
<1>1. iteration'.phase = "running" BY DEF Opened, Idle
<1> QED BY <1>1 DEF Untouched, Reserved, progress

(* The loop over the running requests reserves nothing yet.                *)
LEMMA RunningTouchesNothing ==
    ASSUME EngineInv, SkipRunning \/ OfferRunning \/ SelectRunning
    PROVE  Untouched
<1>1. iteration.phase = "running" BY DEF SkipRunning, OfferRunning, SelectRunning, InRunningLoop
<1>2. DOMAIN iteration = Locals BY <1>1, LoopFacts
<1>3. (\E error : Raise(error)) \/ (PlanOnly /\ iteration'.phase = "running")
  <2>1. CASE SkipRunning BY <1>1, <1>2, <2>1 DEF SkipRunning, Locals
  <2>2. CASE OfferRunning BY <1>1, <1>2, <2>2 DEF OfferRunning, Locals
  <2>3. CASE SelectRunning BY <1>1, <1>2, <2>3 DEF SelectRunning, Locals
  <2> QED BY <2>1, <2>2, <2>3
<1>4. CASE \E error : Raise(error) BY <1>4, RaiseTouchesNothing
<1>5. CASE PlanOnly /\ iteration'.phase = "running"
  BY <1>1, <1>5 DEF PlanOnly, Untouched, Reserved, progress
<1> QED BY <1>3, <1>4, <1>5

(* A waiting request that is passed over changes nothing of the data.      *)
LEMMA WaitingTouchesNothing ==
    ASSUME EngineInv, SkipWaiting \/ StopAdmitting
    PROVE  Untouched
<1>1. iteration.phase = "admit" BY DEF SkipWaiting, StopAdmitting, InAdmitLoop
<1>2. DOMAIN iteration = Locals BY <1>1, AdmitFacts
<1>3. PlanOnly /\ iteration'.phase = iteration.phase /\ iteration'.slices = iteration.slices
  BY <1>2 DEF SkipWaiting, StopAdmitting, Locals
<1> QED BY <1>3, LocalsTouchNothing DEF PlanOnly

(* Nor does an iteration without a slice.                                  *)
LEMMA EmptyTouchesNothing == ASSUME EngineInv, EmptyIteration PROVE Untouched
<1>1. Reserved = <<>> BY DEF EmptyIteration, Reserved
<1>2. \/ \E error : Raise(error)
      \/ PlanOnly /\ iteration' = Opened({r \in Runnable : r <= arrived})
  BY DEF EmptyIteration
<1>3. CASE \E error : Raise(error) BY <1>3, RaiseTouchesNothing
<1>4. CASE PlanOnly /\ iteration' = Opened({r \in Runnable : r <= arrived})
  BY <1>1, <1>4, OpeningTouchesNothing DEF PlanOnly
<1> QED BY <1>2, <1>3, <1>4

(* Nor does the start of an iteration.                                     *)
LEMMA StartTouchesNothing == ASSUME StartIteration PROVE Untouched
<1>1. Reserved = <<>> BY DEF StartIteration, Reserved
<1>2. kv' = kv /\ UNCHANGED progress BY DEF StartIteration
<1>3. PICK n \in arrived .. NRequests : iteration' = Opened({r \in Runnable : r <= n}) BY DEF StartIteration
<1> QED BY <1>1, <1>2, <1>3, OpeningTouchesNothing

----------------------------------------------------------------------------
(* A preemption moves the blocks of the victim, or drops them with its     *)
(* progress.                                                               *)
LEMMA PreemptKeepsData == ASSUME EngineDataInv, PreemptYoungest PROVE DataRight(kv', Reserved', processed')
<1> DEFINE v == Victim
           p == Preempt(kv, v)
<1>0. EngineInv /\ DataRight(kv, Reserved, processed) BY DEF EngineDataInv
<1>1. iteration.phase = "running" /\ Reserved = <<>>
  BY DEF PreemptYoungest, InRunningLoop, Reserved
<1>2. DOMAIN iteration = Locals BY <1>0, <1>1, LoopFacts
<1>3. CASE \E error : Raise(error)
  <2>1. Untouched BY <1>3, RaiseTouchesNothing
  <2> QED BY <2>1, <1>0 DEF Untouched
<1>4. CASE ~\E error : Raise(error)
  <2>1. /\ CanPreempt(kv, v) /\ kv' = Settled(p)
        /\ processed' = [processed EXCEPT ![v] = IF PreemptMode(kv, v) = "recompute" THEN 0 ELSE @]
    BY <1>4 DEF PreemptYoungest
  <2>2. iteration'.phase = "running"
    BY <1>1, <1>2, <1>4 DEF PreemptYoungest, Locals
  <2>3. Reserved' = <<>> BY <2>2 DEF Reserved
  <2>4. PlaneOK(kv) /\ processed \in [Requests -> Nat] BY <1>0, ProgressIs
  <2>5. IsHot(kv, v) /\ v \in Live(kv)
    <3>1. iteration.todo # <<>> /\ iteration.offer # <<>> BY DEF PreemptYoungest, InRunningLoop
    <3>2. Head(iteration.todo) \in Range(running) BY <1>0, <1>1, <3>1, OfferIs
    <3>3. running \in Seq(Requests) /\ Range(running) \subseteq Live(kv) BY <1>0, <1>1, LoopFacts
    <3>4. running # <<>> BY <3>2 DEF Range
    <3>5. Len(running) \in DOMAIN running BY <3>3, <3>4
    <3>6. v = running[Len(running)] BY DEF Victim, Last
    <3>7. v \in Range(running) BY <3>5, <3>6 DEF Range
    <3>8. v \in Live(kv) BY <3>3, <3>7
    <3> QED BY <2>1, <3>8 DEF CanPreempt
  <2>6. processed' \in [Requests -> Nat]
    <3>1. EngineInv' BY <1>0, PreemptYoungestOK
    <3> QED BY <3>1 DEF EngineInv, TypeInv
  <2> DEFINE later == processed'
  <2>7. DataRight(kv, <<>>, processed) BY <1>0, <1>1
  <2>8. later = [processed EXCEPT ![v] = IF PreemptMode(kv, v) = "recompute" THEN 0 ELSE @] BY <2>1
  <2>9. SlicesOK(kv, <<>>) /\ SlicesOK(p, <<>>) /\ v \notin InBatch(<<>>) BY NoSlices DEF InBatch
  <2>10. p = Preempt(kv, v) OBVIOUS
  <2>11. PlaneOK(p) BY <2>4, <2>5, PreemptOK
  <2> HIDE DEF later, v, p
  <2>12. DataRight(p, <<>>, later) BY <2>4, <2>5, <2>7, <2>8, <2>9, <2>10, PreemptRight
  <2>13. later \in [Requests -> Nat] BY <2>6 DEF later
  <2>14. DataRight(Settled(p), <<>>, later) BY <2>9, <2>11, <2>12, <2>13, SettledRight
  <2> QED BY <2>1, <2>3, <2>14 DEF later
<1> QED BY <1>3, <1>4

(* The slices of the running requests are reserved.                        *)
LEMMA ReserveRunningKeepsData == ASSUME EngineDataInv, ReserveRunning PROVE DataRight(kv', Reserved', processed')
<1> DEFINE slices == iteration.slices
           p == Reserve(kv, slices)
<1>0. EngineInv /\ DataRight(kv, Reserved, processed) BY DEF EngineDataInv
<1>1. iteration.phase = "running" /\ Reserved = <<>> BY DEF ReserveRunning, Reserved
<1>2. /\ DOMAIN iteration = Locals /\ SlicesOK(kv, slices) /\ PlaneOK(kv)
      /\ IterationOK(iteration, running, Live(kv), processed, Wants(processed, prefillTarget))
  BY <1>0, <1>1, LoopFacts
<1>3. CASE \E error : Raise(error)
  <2>1. Untouched BY <1>3, RaiseTouchesNothing
  <2> QED BY <2>1, <1>0 DEF Untouched
<1>4. CASE ~\E error : Raise(error)
  <2>1. /\ slices # <<>> => CanReserve(kv, slices)
        /\ kv' = (IF slices = <<>> THEN kv ELSE Settled(p))
        /\ processed' = processed
        /\ iteration'.phase = "admit" /\ iteration'.slices = slices
    BY <1>2, <1>4 DEF ReserveRunning, Locals, progress
  <2>2. Reserved' = slices BY <2>1 DEF Reserved
  <2>3. processed \in [Requests -> Nat] BY <1>0, ProgressIs
  <2>4. ServesFirst(slices, running, processed) BY <1>2 DEF IterationOK
  <2> HIDE DEF slices
  <2>5. Begins(slices, processed) BY <2>4 DEF ServesFirst, Begins
  <2>6. DataRight(kv, slices, processed)
    <3>1. DataRight(kv, <<>>, processed) BY <1>0, <1>1
    <3> QED BY <1>2, <2>3, <2>5, <3>1, OpenRight
  <2>7. CASE slices = <<>> BY <2>1, <2>2, <2>6, <2>7
  <2>8. CASE slices # <<>>
    <3>1. DataRight(p, slices, processed) BY <1>2, <2>1, <2>3, <2>6, <2>8, ReserveRight
    <3>2. PlaneOK(p) /\ Live(p) = Live(kv) BY <1>2, <2>1, <2>8, ReserveOK
    <3> HIDE DEF p
    <3>3. SlicesOK(p, slices) BY <1>2, <3>2 DEF SlicesOK
    <3>4. DataRight(Settled(p), slices, processed) BY <2>3, <3>1, <3>2, <3>3, SettledRight
    <3> QED BY <2>1, <2>2, <2>8, <3>4
  <2> QED BY <2>7, <2>8
<1> QED BY <1>3, <1>4

(* A waiting request joins the batch that is reserved.                     *)
LEMMA TakenKeepsData ==
    ASSUME EngineDataInv, iteration.phase = "admit", iteration.todo # <<>>, NEW r, r = Head(iteration.todo),
           iteration.budget > 0, Taken(r, PlaneWith(r), StartOf(r)), processed' \in [Requests -> Nat]
    PROVE  DataRight(kv', Reserved', processed')
<1> DEFINE slices == iteration.slices
           m == PlaneWith(r)
           from == StartOf(r)
           s == SliceFor(r, from, iteration.budget)
           more == Append(slices, s)
           later == processed'
           p == Reserve(m, more)
<1>0. EngineInv /\ DataRight(kv, slices, processed) BY DEF EngineDataInv, Reserved
<1>1. /\ r \in Ready /\ r \in Requests /\ r \notin Range(running)
      /\ InBatch(slices) = Range(running) /\ Range(running) \subseteq Live(kv)
  BY <1>0, ConsideredIs
<1>2. /\ PlaneOK(m) /\ Live(m) = Live(kv) \cup {r} /\ OthersKept(kv, m, r) /\ from \in Nat
      /\ r \in admitted <=> r \in Live(kv)
  BY <1>0, <1>1, PlaneWithIs
<1>3. /\ SlicesOK(kv, slices) /\ DOMAIN iteration = Locals /\ PlaneOK(kv)
      /\ IterationOK(iteration, running, Live(kv), processed, Wants(processed, prefillTarget))
  BY <1>0, AdmitFacts
<1>4. /\ CanReserve(m, more) /\ kv' = Settled(p) /\ later = [processed EXCEPT ![r] = from]
      /\ iteration' = [iteration EXCEPT !.slices = more, !.budget = @ - s.count, !.todo = Tail(@)]
  BY DEF Taken
<1>5. Reserved' = more
  <2>1. iteration'.phase = "admit" /\ iteration'.slices = more BY <1>3, <1>4 DEF Locals
  <2> QED BY <2>1 DEF Reserved
<1>6. processed \in [Requests -> Nat] /\ prefillTarget \in [Requests -> Nat] BY <1>0, ProgressIs
<1>7. s.req = r /\ s.begin = from /\ s.count \in Nat
  <2>1. iteration.budget \in Nat \ {0} BY <1>3 DEF IterationOK, Spends
  <2>2. prefillTarget[r] \in Nat BY <1>1, <1>6
  <2>3. SliceIs(s, r, from, Want(r, from, prefillTarget[r]), iteration.budget)
    BY <1>1, <1>2, <2>1, <2>2, SliceForIs
  <2> QED BY <2>3 DEF SliceIs
<1>8. m = (IF r \notin admitted THEN Admit(kv, r, kv.clock, kv.clock) ELSE kv)
      /\ from = (IF r \notin admitted THEN AdmitHit(kv, r, kv.clock) * BlockTokens ELSE processed[r])
  BY DEF PlaneWith, StartOf
<1>9. more = Append(slices, s) /\ p = Reserve(m, more) OBVIOUS
<1>10. later \in [Requests -> Nat] OBVIOUS
<1> HIDE DEF slices, m, from, s, more, later, p
<1>11. r \notin InBatch(slices)
  BY <1>1
<1>12. SlicesOK(m, more)
  <2>1. Live(kv) \ {r} \subseteq Live(m) BY <1>2
  <2>2. SlicesOK(m, slices) BY <2>1, <1>2, <1>3, <1>11, BatchUntouched
  <2>3. s.req \in Live(m) \ InBatch(slices) /\ s.begin \in Nat /\ s.count \in Nat
    BY <1>2, <1>7, <1>11
  <2>4. OneMoreThan(more, slices, s) BY <1>9 DEF OneMoreThan
  <2> QED BY <2>2, <2>3, <2>4, OneMore
<1>13. DataRight(m, more, later)
  <2>1. CASE r \notin admitted
    <3>1. m = Admit(kv, r, kv.clock, kv.clock) /\ from = AdmitHit(kv, r, kv.clock) * BlockTokens
      BY <1>8, <2>1
    <3>2. kv.clock \in Nat BY <1>3, RestIs DEF FieldsOK
    <3>3. PlaneOK(kv) /\ SlicesOK(kv, slices) /\ processed \in [Requests -> Nat]
          /\ DataRight(kv, slices, processed) /\ r \in Requests /\ r \notin Live(kv)
          /\ kv.clock \in Int /\ kv.clock \in Nat /\ SlicesOK(m, more)
          /\ s.req = r /\ s.begin = from /\ more = Append(slices, s)
      BY <1>0, <1>1, <1>2, <1>3, <1>6, <1>7, <1>9, <1>12, <2>1, <3>2
    <3>4. DataRight(m, more, [processed EXCEPT ![r] = from]) BY ONLY <3>1, <3>3, JoinRight
    <3> QED BY <1>4, <3>4
  <2>2. CASE r \in admitted
    <3>1. m = kv /\ from = processed[r] /\ r \in Live(kv) BY <1>2, <1>8, <2>2
    <3>2. later = processed BY <1>4, <1>6, <3>1
    <3>3. PlaneOK(kv) /\ SlicesOK(kv, slices) /\ processed \in [Requests -> Nat]
          /\ DataRight(kv, slices, processed) /\ r \notin InBatch(slices) /\ SlicesOK(kv, more)
          /\ s.req = r /\ s.begin = processed[r] /\ more = Append(slices, s)
      BY <1>0, <1>3, <1>6, <1>7, <1>9, <1>11, <1>12, <3>1
    <3>4. DataRight(kv, more, processed) BY ONLY <3>1, <3>3, MoreRight
    <3> QED BY <3>1, <3>2, <3>4
  <2> QED BY <2>1, <2>2
<1>14. DataRight(p, more, later) BY <1>2, <1>4, <1>9, <1>10, <1>12, <1>13, ReserveRight
<1>15. PlaneOK(p) /\ Live(p) = Live(m) BY <1>2, <1>4, <1>9, <1>12, ReserveOK
<1>16. SlicesOK(p, more) BY <1>12, <1>15 DEF SlicesOK
<1>17. DataRight(Settled(p), more, later) BY <1>10, <1>14, <1>15, <1>16, SettledRight
<1> QED BY <1>4, <1>5, <1>17 DEF later

(* A waiting request is refused, and given back if it is new.              *)
LEMMA RefusedKeepsData ==
    ASSUME EngineDataInv, iteration.phase = "admit", iteration.todo # <<>>, NEW r, r = Head(iteration.todo),
           Refused(r, PlaneWith(r))
    PROVE  DataRight(kv', Reserved', processed')
<1> DEFINE slices == iteration.slices
           m == PlaneWith(r)
           q == ReleaseRequest(m, r)
<1>0. EngineInv /\ DataRight(kv, slices, processed) BY DEF EngineDataInv, Reserved
<1>1. /\ r \in Ready /\ r \in Requests /\ r \notin Range(running) BY <1>0, ConsideredIs
<1>2. /\ PlaneOK(m) /\ Live(m) = Live(kv) \cup {r} /\ (r \in admitted <=> r \in Live(kv))
  BY <1>0, <1>1, PlaneWithIs
<1>3. SlicesOK(kv, slices) /\ DOMAIN iteration = Locals /\ PlaneOK(kv) BY <1>0, AdmitFacts
<1>4. /\ kv' = (IF r \notin admitted THEN Settled(q) ELSE kv) /\ processed' = processed
      /\ iteration' = [iteration EXCEPT !.todo = <<>>]
  BY DEF Refused, progress
<1>5. Reserved' = slices
  <2>1. iteration'.phase = "admit" /\ iteration'.slices = slices BY <1>3, <1>4 DEF Locals
  <2> QED BY <2>1 DEF Reserved
<1>6. processed \in [Requests -> Nat] BY <1>0, ProgressIs
<1>7. CASE r \in admitted BY <1>0, <1>4, <1>5, <1>7
<1>8. CASE r \notin admitted
  <2>1. m = Admit(kv, r, kv.clock, kv.clock) BY <1>8 DEF PlaneWith
  <2>2. kv.clock \in Nat BY <1>3, RestIs DEF FieldsOK
  <2>3. kv.clock \in Int /\ r \notin Live(kv) BY <1>2, <1>8, <2>2
  <2>4. q = ReleaseRequest(m, r) OBVIOUS
  <2> HIDE DEF slices, m, q
  <2>5. DataRight(q, slices, processed)
    <3>1. DataRight(ReleaseRequest(m, r), slices, processed)
      BY <1>0, <1>1, <1>3, <1>6, <2>1, <2>2, <2>3, RefuseRight
    <3> QED BY <3>1, <2>4
  <2>6. r \in Live(m) BY <1>2
  <2>7. PlaneOK(q) /\ Live(q) = Live(m) \ {r} BY <1>2, <2>4, <2>6, ReleaseOK
  <2>8. Live(q) = Live(kv) BY <1>2, <2>3, <2>7
  <2>9. SlicesOK(q, slices) BY <1>3, <2>8 DEF SlicesOK
  <2>10. DataRight(Settled(q), slices, processed) BY <1>6, <2>5, <2>7, <2>9, SettledRight
  <2> QED BY <1>4, <1>5, <1>8, <2>10
<1> QED BY <1>7, <1>8

(* The batch that is reserved runs, and the finished requests leave.       *)
LEMMA RanKeepsData ==
    ASSUME EngineDataInv, iteration.phase = "admit", Ran, processed' \in [Requests -> Nat]
    PROVE  DataRight(kv', Reserved', processed')
<1> DEFINE slices == iteration.slices
           e == Execute(kv, slices)
           p == ReleaseAll(e, Finished)
           later == processed'
<1>0. EngineInv /\ DataRight(kv, slices, processed) BY DEF EngineDataInv, Reserved
<1>1. SlicesOK(kv, slices) /\ PlaneOK(kv) BY <1>0, AdmitFacts
<1>2. Mappable(kv, slices) /\ kv' = Settled(p) /\ later = Advanced /\ iteration' = Idle BY DEF Ran
<1>3. Reserved' = <<>> BY <1>2 DEF Reserved, Idle
<1>4. processed \in [Requests -> Nat] BY <1>0, ProgressIs
<1>5. later = Progress(slices, processed).reach BY <1>2 DEF Advanced, SliceOf, Progress
<1>6. later \in [Requests -> Nat] OBVIOUS
<1>7. SlicesOK(kv, Finished) BY <1>0, BatchProgress
<1>8. e = Execute(kv, slices) /\ p = ReleaseAll(e, Finished) OBVIOUS
<1> HIDE DEF slices, e, p, later
<1>9. PlaneOK(e) /\ Live(e) = Live(kv) BY <1>1, <1>2, <1>8, ExecuteOK
<1>10. DataRight(e, <<>>, later)
  <2>1. DataRight(e, <<>>, Progress(slices, processed).reach) BY <1>0, <1>1, <1>2, <1>4, <1>8, ExecuteRight
  <2> QED BY <2>1, <1>5
<1>11. SlicesOK(e, Finished) BY <1>7, <1>9 DEF SlicesOK
<1>12. DataRight(p, <<>>, later)
  <2>1. DataRight(ReleaseAll(e, Finished), <<>>, later) BY <1>6, <1>9, <1>10, <1>11, ReleaseAllRight
  <2> QED BY <2>1, <1>8
<1>13. PlaneOK(p)
  <2>1. ReleasedOf(e, ReleaseAll(e, Finished), InBatch(Finished)) BY <1>9, <1>11, ReleaseAllOK
  <2> QED BY <2>1, <1>8 DEF ReleasedOf
<1>14. SlicesOK(p, <<>>) BY NoSlices
<1>15. DataRight(Settled(p), <<>>, later) BY <1>6, <1>12, <1>13, <1>14, SettledRight
<1> QED BY <1>2, <1>3, <1>15 DEF later

(* Every step of the engine keeps the data right.                          *)
LEMMA EngineDataStep == ASSUME EngineDataInv, [Next]_vars PROVE EngineDataInv'
<1>0. EngineInv /\ DataRight(kv, Reserved, processed) BY DEF EngineDataInv
<1>1. EngineInv' BY <1>0, EngineStep
<1>2. processed' \in [Requests -> Nat] BY <1>1 DEF EngineInv, TypeInv
<1> SUFFICES DataRight(kv', Reserved', processed')
  BY <1>1 DEF EngineDataInv, DataRight, Begins, DataOK, TablesRight, SharesRight, CacheRight, PendingDue, Progress
<1>3. CASE Untouched BY <1>0, <1>3 DEF Untouched
<1>4. CASE StartIteration BY <1>3, <1>4, StartTouchesNothing
<1>5. CASE SkipRunning \/ OfferRunning \/ SelectRunning BY <1>0, <1>3, <1>5, RunningTouchesNothing
<1>6. CASE PreemptYoungest BY <1>6, PreemptKeepsData
<1>7. CASE ReserveRunning BY <1>7, ReserveRunningKeepsData
<1>8. CASE SkipWaiting \/ StopAdmitting BY <1>0, <1>3, <1>8, WaitingTouchesNothing
<1>9. CASE ConsiderWaiting
  <2> DEFINE r == Head(iteration.todo)
  <2>1. /\ iteration.phase = "admit" /\ iteration.todo # <<>> /\ iteration.budget > 0
        /\ \/ \E error : Raise(error)
           \/ Taken(r, PlaneWith(r), StartOf(r))
           \/ Refused(r, PlaneWith(r))
    BY <1>9, ConsiderIs
  <2>2. r = Head(iteration.todo) OBVIOUS
  <2> HIDE DEF r
  <2>3. CASE \E error : Raise(error) BY <1>3, <2>3, RaiseTouchesNothing
  <2>4. CASE Taken(r, PlaneWith(r), StartOf(r)) BY <1>2, <2>1, <2>2, <2>4, TakenKeepsData
  <2>5. CASE Refused(r, PlaneWith(r)) BY <2>1, <2>2, <2>5, RefusedKeepsData
  <2> QED BY <2>1, <2>3, <2>4, <2>5
<1>10. CASE EmptyIteration BY <1>0, <1>3, <1>10, EmptyTouchesNothing
<1>11. CASE RunBatch
  <2>1. iteration.phase = "admit" /\ ((\E error : Raise(error)) \/ Ran) BY <1>11, RunIs
  <2>2. CASE \E error : Raise(error) BY <1>3, <2>2, RaiseTouchesNothing
  <2>3. CASE Ran BY <1>2, <2>1, <2>3, RanKeepsData
  <2> QED BY <2>1, <2>2, <2>3
<1>12. CASE UNCHANGED vars
  <2>1. Untouched BY <1>12 DEF vars, progress, Untouched, Reserved
  <2> QED BY <1>3, <2>1
<1>13. CASE Terminated BY <1>12, <1>13 DEF Terminated
<1> QED
  BY <1>4, <1>5, <1>6, <1>7, <1>8, <1>9, <1>10, <1>11, <1>12, <1>13 DEF Next, Step

(* The inductive invariant with the data.                                  *)
THEOREM EngineDataInvariant == Spec => []EngineDataInv
<1>1. Init => EngineDataInv
  <2> SUFFICES ASSUME Init PROVE EngineDataInv OBVIOUS
  <2>1. EngineInv BY EngineInit
  <2>2. kv = EmptyPlane /\ Reserved = <<>> BY DEF Init, Idle, Reserved
  <2>3. DataRight(EmptyPlane, <<>>, processed)
    <3>1. Live(EmptyPlane) = {} /\ Cached(EmptyPlane) = {} /\ PendingKeys(EmptyPlane) = {}
      BY DEF Live, EmptyPlane, Cached, PendingKeys, Range
    <3> QED BY <3>1 DEF DataRight, Begins, DataOK, TablesRight, SharesRight, CacheRight, PendingDue
  <2> QED BY <2>1, <2>2, <2>3 DEF EngineDataInv
<1>2. EngineDataInv /\ [Next]_vars => EngineDataInv' BY EngineDataStep
<1> QED BY <1>1, <1>2, PTL DEF Spec

(* Between iterations the plane knows exactly the admitted unfinished      *)
(* requests, and each finds the KV of all its processed tokens.            *)
THEOREM ContextIntactAlways == Spec => []ContextIntact
<1>1. EngineDataInv => ContextIntact
  <2> SUFFICES ASSUME EngineDataInv, iteration.phase = "idle"
               PROVE  /\ Live(kv) = {r \in admitted : ~Complete(r)}
                      /\ \A r \in Live(kv) : Holds(kv, r, processed[r])
      BY DEF ContextIntact
  <2>1. DataRight(kv, <<>>, processed) BY DEF EngineDataInv, Reserved
  <2>2. Live(kv) = {r \in admitted : ~Complete(r)} BY ProgressIs DEF EngineDataInv
  <2> QED BY <2>1, <2>2, RightIs
<1> QED BY <1>1, EngineDataInvariant, PTL
============================================================================
