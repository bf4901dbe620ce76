-------------------------- MODULE KvClientsProofs --------------------------
(***************************************************************************)
(* The plane under clients that call its operations in any order.          *)
(***************************************************************************)
EXTENDS KvClients, KvPlaneProofs

----------------------------------------------------------------------------
(* The invariant of the plane.                                             *)

(* Under the plane invariant the cache keeps to its block budget.          *)
LEMMA BudgetOK ==
    ASSUME NEW v, PlaneOK(v)
    PROVE  CacheWithinBudget(v)
<1> DEFINE I == 1 .. Len(v.cache)
           K == CacheKeys(v)
           f == [i \in I |-> v.cache[i].key]
<1>1. FieldsOK(v) /\ CacheOK(v) /\ CacheFits(v) BY PlaneParts
<1>2. v.cache \in Seq(Entries) BY <1>1 DEF FieldsOK
<1>3. DOMAIN v.cache = I /\ Len(v.cache) \in Nat BY <1>2
<1>4. f \in [I -> K] /\ (\A k \in K : \E i \in I : f[i] = k) BY <1>3 DEF CacheKeys
<1>5. \A i, j \in I : f[i] = f[j] => i = j BY <1>1, <1>3 DEF CacheOK, DistinctKeys
<1>6. IsFiniteSet(I) /\ Cardinality(I) = Len(v.cache)
  <2> DEFINE n == Len(v.cache)
  <2>1. n \in Nat BY <1>3
  <2> HIDE DEF n
  <2>2. IsFiniteSet(1 .. n) /\ Cardinality(1 .. n) = n BY <2>1, FS_Interval
  <2> QED BY <2>2 DEF n
<1>7. f \in Surjection(I, K) /\ f \in Injection(I, K) BY <1>4, <1>5 DEF Surjection, Injection, IsInjective
<1> HIDE DEF f, I, K
<1>8. Cardinality(K) = Len(v.cache) BY <1>6, <1>7, FS_Surjection
<1>9. Len(v.cache) * Layers <= CacheBlocks
  <2> DEFINE q == CacheBlocks \div Layers
  <2>1. Layers \in Nat \ {0} /\ CacheBlocks \in Nat BY SizesAssumption
  <2>2. q \in Nat /\ q * Layers <= CacheBlocks BY <2>1, DivisionIs
  <2>3. Len(v.cache) <= q BY <1>1 DEF CacheFits
  <2> HIDE DEF q
  <2>4. Len(v.cache) * Layers <= q * Layers BY <1>3, <2>1, <2>2, <2>3, ProductGrows
  <2>5. Len(v.cache) * Layers \in Nat /\ q * Layers \in Nat BY <1>3, <2>1, <2>2
  <2> QED BY <2>1, <2>2, <2>4, <2>5
<1> QED BY <1>8, <1>9 DEF CacheWithinBudget, K

(* The inductive invariant.                                                *)
ClientInv ==
    /\ PlaneOK(kv) /\ SlicesOK(kv, batch)
    /\ processed \in [Requests -> Nat]
    /\ batch # <<>> => Mappable(kv, batch) /\ kv.pending = TRUE

(* A slice of a request that is not in the batch.                          *)
LEMMA OneMoreSlice ==
    ASSUME NEW p, NEW slices, SlicesOK(p, slices), NEW r \in Live(p) \ InBatch(slices),
           NEW from \in Nat, NEW n \in Nat,
           NEW more, more = Append(slices, [req |-> r, begin |-> from, count |-> n])
    PROVE  SlicesOK(p, more) /\ more # <<>>
<1> DEFINE s == [req |-> r, begin |-> from, count |-> n]
           S == Range(slices) \cup {s}
           k == Len(slices)
<1>0. slices \in Seq(Range(slices)) BY DEF SlicesOK
<1>1. slices \in Seq(S) /\ s \in S /\ k \in Nat /\ DOMAIN slices = 1 .. k BY <1>0
<1>2. s.req = r /\ s.begin \in Nat /\ s.count \in Nat OBVIOUS
<1>3. more = Append(slices, s) OBVIOUS
<1> HIDE DEF s, S
<1>4. more \in Seq(S) /\ Len(more) = k + 1 BY <1>1, <1>3
<1>5. /\ DOMAIN more = 1 .. k + 1 /\ more[k + 1] = s
      /\ \A i \in 1 .. k : more[i] = slices[i]
  BY <1>1, <1>3, <1>4
<1>6. more \in Seq(Range(more))
  <2>1. \A i \in 1 .. k + 1 : more[i] \in Range(more) BY <1>5 DEF Range
  <2> QED BY <2>1, <1>1, <1>4, <1>5
<1>7. \A i \in 1 .. k : slices[i].req # r BY <1>1 DEF InBatch
<1> HIDE DEF k
<1>8. \A i \in 1 .. k + 1 : i \in 1 .. k \/ i = k + 1 BY <1>1
<1>9. \A i \in 1 .. k + 1 : more[i].req \in Live(p) /\ more[i].begin \in Nat /\ more[i].count \in Nat
  BY <1>1, <1>2, <1>5, <1>8 DEF SlicesOK
<1>10. \A i, j \in 1 .. k + 1 : more[i].req = more[j].req => i = j
  BY <1>1, <1>2, <1>5, <1>7, <1>8 DEF SlicesOK
<1>11. SlicesOK(p, more) BY <1>5, <1>6, <1>9, <1>10 DEF SlicesOK
<1>12. k + 1 \in DOMAIN more BY <1>1, <1>5
<1> QED BY <1>11, <1>12

(* Every step of the clients preserves the invariant.                      *)
LEMMA ClientStep ==
    ASSUME ClientInv, Next
    PROVE  ClientInv'
<1>0. /\ PlaneOK(kv) /\ SlicesOK(kv, batch) /\ processed \in [Requests -> Nat]
      /\ batch # <<>> => Mappable(kv, batch) /\ kv.pending = TRUE
  BY DEF ClientInv
<1>1. kv.clock \in Nat /\ Live(kv) \subseteq Requests BY <1>0, RestIs DEF FieldsOK
<1>2. ASSUME NEW r \in Requests, AdmitRequest(r) PROVE ClientInv'
  <2>1. PICK arrival \in 0 .. kv.clock :
          /\ kv' = Settled(Admit(kv, r, kv.clock, arrival))
          /\ processed' = [processed EXCEPT ![r] = AdmitHit(kv, r, kv.clock) * BlockTokens]
    BY <1>2 DEF AdmitRequest
  <2>2. r \notin Live(kv) /\ batch = <<>> /\ batch' = <<>> /\ arrival \in Nat
    BY <1>1, <1>2 DEF AdmitRequest
  <2> DEFINE p == Admit(kv, r, kv.clock, arrival)
  <2>3. PlaneOK(p) BY <1>0, <1>1, <2>2, AdmitOK
  <2> HIDE DEF p
  <2>4. PlaneOK(kv') BY <2>1, <2>3, SettledReadsTheSame DEF p
  <2> DEFINE hit == AdmitHit(kv, r, kv.clock) * BlockTokens
  <2>8. kv.clock \in Int BY <1>1
  <2>5. hit \in Nat BY <1>0, <2>8, <2>2, AdmitHitIs
  <2> HIDE DEF hit
  <2>6. processed' = [processed EXCEPT ![r] = hit] BY <2>1 DEF hit
  <2>7. processed' \in [Requests -> Nat] BY <1>0, <2>5, <2>6
  <2> QED BY <2>2, <2>4, <2>7, NoSlices DEF ClientInv
<1>3. ASSUME NEW r \in Requests, PreemptRequest(r) PROVE ClientInv'
  <2>1. /\ r \in Live(kv) /\ IsHot(kv, r) /\ kv' = Settled(Preempt(kv, r)) /\ batch = <<>> /\ batch' = <<>>
        /\ processed' = [processed EXCEPT ![r] = IF PreemptMode(kv, r) = "recompute" THEN 0 ELSE @]
    BY <1>3 DEF PreemptRequest, CanPreempt
  <2>2. PlaneOK(Preempt(kv, r)) BY <1>0, <2>1, PreemptOK
  <2>3. PlaneOK(kv') BY <2>1, <2>2, SettledReadsTheSame
  <2>4. processed' \in [Requests -> Nat] BY <1>0, <2>1
  <2> QED BY <2>1, <2>3, <2>4, NoSlices DEF ClientInv
<1>4. ASSUME NEW r \in Requests, Leave(r) PROVE ClientInv'
  <2>1. /\ r \in Live(kv) /\ r \notin InBatch(batch) /\ kv' = Settled(ReleaseRequest(kv, r)) /\ batch' = batch
        /\ processed' = [processed EXCEPT ![r] = 0]
    BY <1>4 DEF Leave
  <2> DEFINE p == ReleaseRequest(kv, r)
  <2>2. PlaneOK(p) /\ ClocksKept(kv, p) /\ Live(p) = Live(kv) \ {r} /\ OthersKept(kv, p, r)
    BY <1>0, <2>1, ReleaseOK
  <2> HIDE DEF p
  <2>3. SlicesOK(p, batch) /\ (Mappable(kv, batch) => Mappable(p, batch)) /\ p.pending = kv.pending
    BY <1>0, <2>1, <2>2, BatchUntouched DEF ClocksKept
  <2>4. kv' = Settled(p) BY <2>1 DEF p
  <2>5. /\ PlaneOK(kv') /\ SlicesOK(kv', batch) /\ (Mappable(kv, batch) => Mappable(kv', batch))
        /\ kv'.pending = kv.pending
    BY <2>2, <2>3, <2>4, SettledReadsTheSame
  <2>6. processed' \in [Requests -> Nat] BY <1>0, <2>1
  <2> QED BY <1>0, <2>1, <2>5, <2>6 DEF ClientInv
<1>5. ASSUME NEW r \in Requests, NEW n \in SliceSizes, ReserveSlice(r, n) PROVE ClientInv'
  <2> DEFINE slices == Append(batch, [req |-> r, begin |-> processed[r], count |-> n])
  <2>1. /\ r \in Live(kv) \ InBatch(batch) /\ CanReserve(kv, slices)
        /\ kv' = Settled(Reserve(kv, slices)) /\ batch' = slices /\ processed' = processed
    BY <1>5 DEF ReserveSlice
  <2>2. n \in Nat /\ processed[r] \in Nat BY <1>0, SliceSizesAssumption
  <2>3. SlicesOK(kv, slices) BY <1>0, <2>1, <2>2, OneMoreSlice
  <2> HIDE DEF slices
  <2>4. PlaneOK(kv') /\ SlicesOK(kv', slices) /\ Mappable(kv', slices) /\ kv'.pending = TRUE
    BY <1>0, <2>1, <2>3, ReservedBatch
  <2> QED BY <1>0, <2>1, <2>4 DEF ClientInv
<1>6. ASSUME NEW r \in Requests, NEW n \in SliceSizes, AdmitToBatch(r, n) PROVE ClientInv'
  <2> DEFINE plane == Admit(kv, r, kv.clock, kv.clock)
             hit == AdmitHit(kv, r, kv.clock) * BlockTokens
             slices == Append(batch, [req |-> r, begin |-> hit, count |-> n])
  <2>1. /\ batch # <<>> /\ r \notin Live(kv)
        /\ IF CanReserve(plane, slices)
           THEN /\ kv' = Settled(Reserve(plane, slices))
                /\ batch' = slices
                /\ processed' = [processed EXCEPT ![r] = hit]
           ELSE /\ kv' = Settled(ReleaseRequest(plane, r))
                /\ batch' = batch /\ processed' = processed
    BY <1>6 DEF AdmitToBatch
  <2>2. n \in Nat /\ hit \in Nat
    <3>1. kv.clock \in Int BY <1>1
    <3>2. hit \in Nat BY <1>0, <2>1, <3>1, AdmitHitIs
    <3> QED BY <3>2, SliceSizesAssumption
  <2>3. /\ PlaneOK(plane) /\ Live(plane) = Live(kv) \cup {r} /\ OthersKept(kv, plane, r)
        /\ plane.pending = kv.pending
    BY <1>0, <1>1, <2>1, AdmitOK
  <2>4. r \notin InBatch(batch) BY <1>0, <2>1 DEF SlicesOK, InBatch
  <2> HIDE DEF plane, hit
  <2>5. SlicesOK(plane, batch) /\ Mappable(plane, batch) /\ plane.pending = TRUE
    BY <1>0, <2>1, <2>3, <2>4, BatchUntouched
  <2>6. CASE CanReserve(plane, slices)
    <3>1. SlicesOK(plane, slices) BY <2>2, <2>3, <2>4, <2>5, OneMoreSlice
    <3> HIDE DEF slices
    <3>2. PlaneOK(kv') /\ SlicesOK(kv', slices) /\ Mappable(kv', slices) /\ kv'.pending = TRUE
      BY <2>1, <2>3, <2>6, <3>1, ReservedBatch
    <3>3. processed' \in [Requests -> Nat] BY <1>0, <2>1, <2>2, <2>6
    <3> QED BY <2>1, <2>6, <3>2, <3>3 DEF ClientInv
  <2>7. CASE ~CanReserve(plane, slices)
    <3> DEFINE p == ReleaseRequest(plane, r)
    <3>1. PlaneOK(p) /\ ClocksKept(plane, p) /\ Live(p) = Live(plane) \ {r} /\ OthersKept(plane, p, r)
      BY <2>3, ReleaseOK
    <3> HIDE DEF p
    <3>2. SlicesOK(p, batch) /\ Mappable(p, batch) /\ p.pending = TRUE
      BY <2>4, <2>5, <3>1, BatchUntouched DEF ClocksKept
    <3>3. kv' = Settled(p) /\ batch' = batch /\ processed' = processed BY <2>1, <2>7 DEF p
    <3>4. PlaneOK(kv') /\ SlicesOK(kv', batch) /\ Mappable(kv', batch) /\ kv'.pending = TRUE
      BY <3>1, <3>2, <3>3, SettledReadsTheSame
    <3> QED BY <1>0, <3>3, <3>4 DEF ClientInv
  <2> QED BY <2>6, <2>7
<1>7. ASSUME RunBatch PROVE ClientInv'
  <2>1. Mappable(kv, batch) /\ kv' = Settled(Execute(kv, batch)) /\ batch' = <<>> BY <1>7 DEF RunBatch
  <2>2. PlaneOK(Execute(kv, batch)) BY <1>0, <2>1, ExecuteOK
  <2>3. PlaneOK(kv') BY <2>1, <2>2, SettledReadsTheSame
  <2>4. ASSUME NEW r \in Requests
        PROVE  (IF r \in InBatch(batch) THEN Tokens(batch[CHOOSE i \in DOMAIN batch : batch[i].req = r])
                ELSE processed[r]) \in Nat
    <3>1. CASE r \in InBatch(batch)
      <4>1. PICK i \in DOMAIN batch : batch[i].req = r BY <3>1 DEF InBatch
      <4> DEFINE j == CHOOSE j \in DOMAIN batch : batch[j].req = r
      <4>2. j \in DOMAIN batch BY <4>1
      <4> HIDE DEF j
      <4>3. Tokens(batch[j]) \in Nat BY <1>0, <4>2 DEF SlicesOK, Tokens
      <4> QED BY <3>1, <4>3 DEF j
    <3>2. CASE r \notin InBatch(batch) BY <1>0, <3>2
    <3> QED BY <3>1, <3>2
  <2>5. processed' \in [Requests -> Nat] BY <1>7, <2>4 DEF RunBatch
  <2> QED BY <2>1, <2>3, <2>5, NoSlices DEF ClientInv
<1> QED BY <1>2, <1>3, <1>4, <1>5, <1>6, <1>7 DEF Next

(* The plane invariant holds of every plane the clients can reach, the     *)
(* batch is of live requests and can be mapped once it is reserved.        *)
THEOREM ClientInvariant == Spec => []ClientInv
<1>1. Init => ClientInv
  <2> SUFFICES ASSUME Init PROVE ClientInv OBVIOUS
  <2>1. kv = EmptyPlane /\ batch = <<>> /\ processed = [r \in Requests |-> 0] BY DEF Init
  <2>2. PlaneOK(kv) BY <2>1, EmptyPlaneOK
  <2>3. processed \in [Requests -> Nat] BY <2>1
  <2> QED BY <2>1, <2>2, <2>3, NoSlices DEF ClientInv
<1>2. ClientInv /\ [Next]_vars => ClientInv'
  <2> SUFFICES ASSUME ClientInv, [Next]_vars PROVE ClientInv' OBVIOUS
  <2>1. CASE Next BY <2>1, ClientStep
  <2>2. CASE UNCHANGED vars BY <2>2 DEF ClientInv, vars, PlaneOK, IsPlane, IsRecord
  <2> QED BY <2>1, <2>2
<1> QED BY <1>1, <1>2, PTL DEF Spec

(* Every reference count is the number of holders of the block.            *)
THEOREM ReferencesExactAlways == Spec => []ReferencesExact
<1>1. ClientInv => ReferencesExact BY CountsOK DEF ClientInv, ReferencesExact
<1> QED BY <1>1, ClientInvariant, PTL

(* What is reserved for a batch stays reserved until the batch runs.       *)
THEOREM ReservedStaysMappableAlways == Spec => []ReservedStaysMappable
<1>1. ClientInv => ReservedStaysMappable BY DEF ClientInv, ReservedStaysMappable
<1> QED BY <1>1, ClientInvariant, PTL

(* The cache keeps to its budget and holds each prefix once.               *)
THEOREM CacheWithinBudgetAlways == Spec => []CacheWithinBudget(kv)
<1>1. ClientInv => CacheWithinBudget(kv) BY BudgetOK DEF ClientInv
<1> QED BY <1>1, ClientInvariant, PTL

----------------------------------------------------------------------------
(* The data of the plane.                                                  *)

(* A request is admitted while no batch is being built.                    *)
LEMMA AdmitRight ==
    ASSUME NEW v, PlaneOK(v), NEW done \in [Requests -> Nat], DataRight(v, <<>>, done),
           NEW r \in Requests, r \notin Live(v), NEW now \in Int, NEW arrival \in Nat,
           NEW p, p = Admit(v, r, now, arrival)
    PROVE  DataRight(p, <<>>, [done EXCEPT ![r] = AdmitHit(v, r, now) * BlockTokens])
<1> DEFINE t == AdmitHit(v, r, now) * BlockTokens
           later == [done EXCEPT ![r] = t]
           g == Progress(<<>>, done)
           h == Progress(<<>>, later)
<1>1. Begins(<<>>, done) /\ DataOK(v, g) /\ PendingDue(v, g) BY DEF DataRight
<1>2. Live(v) \subseteq Requests /\ SlicesOK(v, <<>>) BY RestIs, NoSlices
<1>3. t \in Nat BY AdmitHitIs
<1>4. InBatch(<<>>) = {} BY DEF InBatch
<1>5. g.todo = {} BY <1>4 DEF Progress
<1> HIDE DEF g, h
<1>6. t = AdmitHit(v, r, now) * BlockTokens OBVIOUS
<1> HIDE DEF t
<1>13. GoesApart(<<>>, later, g, h, r, t) BY <1>1, <1>2, <1>3, <1>4, ProgressApart DEF g, h
<1>7. /\ Begins(<<>>, later) /\ ProgressOK(g) /\ ProgressOK(h) /\ SameProgress(g, h, {r})
      /\ h.done[r] = t /\ h.reach[r] = t /\ g.batch = h.batch /\ \A w \in g.batch : h.reach[w] = g.reach[w]
  BY <1>4, <1>13 DEF GoesApart
<1> HIDE DEF later
<1>8. DataOK(p, h) BY <1>1, <1>5, <1>6, <1>7, AdmitData
<1>9. Range(p.cache) \subseteq Range(v.cache) BY AdmitShares
<1>10. PendingKeys(p) \subseteq PendingKeys(v) BY <1>9, FewerOffered
<1>11. PendingDue(p, h)
  <2>1. /\ PendingDue(v, g) /\ PendingKeys(p) \subseteq PendingKeys(v)
        /\ g.batch \subseteq h.batch /\ \A w \in g.batch : h.reach[w] = g.reach[w]
    BY <1>1, <1>7, <1>10
  <2> QED BY ONLY <2>1, PendingStaysDue
<1>12. DataRight(p, <<>>, later) BY <1>7, <1>8, <1>11 DEF DataRight, h
<1> QED BY <1>12 DEF later, t

(* The inductive invariant with the data: every table, every shared block  *)
(* and every cached block holds what it should, or will when the batch has *)
(* run.                                                                    *)
DataInv == ClientInv /\ DataRight(kv, batch, processed)

(* Every step of the clients keeps the data right.                         *)
LEMMA DataStep ==
    ASSUME DataInv, Next
    PROVE  DataRight(kv, batch, processed)'
<1>0. /\ ClientInv /\ PlaneOK(kv) /\ SlicesOK(kv, batch) /\ processed \in [Requests -> Nat]
      /\ batch # <<>> => Mappable(kv, batch) /\ kv.pending = TRUE
      /\ DataRight(kv, batch, processed)
  BY DEF DataInv, ClientInv
<1>1. kv.clock \in Nat /\ kv.clock \in Int /\ Live(kv) \subseteq Requests BY <1>0, RestIs DEF FieldsOK
<1>9. PlaneOK(kv') /\ SlicesOK(kv', batch') /\ processed' \in [Requests -> Nat]
  BY <1>0, ClientStep DEF ClientInv
<1>2. ASSUME NEW r \in Requests, AdmitRequest(r) PROVE DataRight(kv', batch', processed')
  <2>1. PICK arrival \in 0 .. kv.clock :
          /\ kv' = Settled(Admit(kv, r, kv.clock, arrival))
          /\ processed' = [processed EXCEPT ![r] = AdmitHit(kv, r, kv.clock) * BlockTokens]
    BY <1>2 DEF AdmitRequest
  <2>2. r \notin Live(kv) /\ batch = <<>> /\ batch' = <<>> /\ arrival \in Nat
    BY <1>1, <1>2 DEF AdmitRequest
  <2> DEFINE p == Admit(kv, r, kv.clock, arrival)
             later == [processed EXCEPT ![r] = AdmitHit(kv, r, kv.clock) * BlockTokens]
  <2>3. PlaneOK(p) BY <1>0, <1>1, <2>2, AdmitOK
  <2>4. DataRight(p, <<>>, later) BY <1>0, <1>1, <2>2, AdmitRight
  <2>5. kv' = Settled(p) /\ processed' = later BY <2>1
  <2> HIDE DEF p, later
  <2>6. DataRight(Settled(p), <<>>, later) BY <1>9, <2>3, <2>4, <2>5, NoSlices, SettledRight
  <2> QED BY <2>2, <2>5, <2>6
<1>3. ASSUME NEW r \in Requests, PreemptRequest(r) PROVE DataRight(kv', batch', processed')
  <2> DEFINE p == Preempt(kv, r)
  <2>1. /\ r \in Live(kv) /\ IsHot(kv, r) /\ kv' = Settled(p) /\ batch = <<>> /\ batch' = <<>>
        /\ processed' = [processed EXCEPT ![r] = IF PreemptMode(kv, r) = "recompute" THEN 0 ELSE @]
    BY <1>3 DEF PreemptRequest, CanPreempt
  <2>2. PlaneOK(p) BY <1>0, <2>1, PreemptOK
  <2>3. r \notin InBatch(batch) BY <2>1 DEF InBatch
  <2>4. DataRight(p, batch, processed') BY <1>0, <2>1, <2>3, PreemptRight
  <2> HIDE DEF p
  <2>5. DataRight(Settled(p), <<>>, processed') BY <1>9, <2>1, <2>2, <2>4, NoSlices, SettledRight
  <2> QED BY <2>1, <2>5
<1>4. ASSUME NEW r \in Requests, Leave(r) PROVE DataRight(kv', batch', processed')
  <2> DEFINE p == ReleaseRequest(kv, r)
             later == [processed EXCEPT ![r] = 0]
  <2>1. /\ r \in Live(kv) /\ r \notin InBatch(batch) /\ kv' = Settled(p) /\ batch' = batch
        /\ processed' = later
    BY <1>4 DEF Leave
  <2>2. PlaneOK(p) /\ Live(p) = Live(kv) \ {r} /\ OthersKept(kv, p, r) BY <1>0, <2>1, ReleaseOK
  <2>3. 0 \in Nat OBVIOUS
  <2>4. DataRight(p, batch, later) BY <1>0, <2>1, <2>3, LeaveRight
  <2> HIDE DEF p, later
  <2>5. SlicesOK(p, batch) BY <1>0, <2>1, <2>2, BatchUntouched
  <2>6. DataRight(Settled(p), batch, later) BY <1>9, <2>1, <2>2, <2>4, <2>5, SettledRight
  <2> QED BY <2>1, <2>6
<1>5. ASSUME NEW r \in Requests, NEW n \in SliceSizes, ReserveSlice(r, n) PROVE DataRight(kv', batch', processed')
  <2> DEFINE slices == Append(batch, [req |-> r, begin |-> processed[r], count |-> n])
             p == Reserve(kv, slices)
  <2>1. /\ r \in Live(kv) /\ r \notin InBatch(batch) /\ CanReserve(kv, slices)
        /\ kv' = Settled(p) /\ batch' = slices /\ processed' = processed
    BY <1>5 DEF ReserveSlice
  <2>2. n \in Nat /\ processed[r] \in Nat BY <1>0, SliceSizesAssumption
  <2>3. SlicesOK(kv, slices) BY <1>0, <2>1, <2>2, OneMoreSlice
  <2>4. DataRight(kv, slices, processed)
    <3> DEFINE s == [req |-> r, begin |-> processed[r], count |-> n]
    <3>1. s.req = r /\ s.begin = processed[r] /\ slices = Append(batch, s) OBVIOUS
    <3> HIDE DEF s, slices
    <3> QED BY <1>0, <2>1, <2>3, <3>1, MoreRight
  <2> HIDE DEF slices
  <2>5. DataRight(p, slices, processed) BY <1>0, <2>1, <2>3, <2>4, ReserveRight
  <2>6. PlaneOK(p) /\ Live(p) = Live(kv) BY <1>0, <2>1, <2>3, ReserveOK
  <2> HIDE DEF p
  <2>7. SlicesOK(p, slices) BY <2>3, <2>6 DEF SlicesOK
  <2>8. DataRight(Settled(p), slices, processed) BY <1>0, <2>5, <2>6, <2>7, SettledRight
  <2> QED BY <2>1, <2>8
<1>6. ASSUME NEW r \in Requests, NEW n \in SliceSizes, AdmitToBatch(r, n) PROVE DataRight(kv', batch', processed')
  <2> DEFINE plane == Admit(kv, r, kv.clock, kv.clock)
             hit == AdmitHit(kv, r, kv.clock) * BlockTokens
             slices == Append(batch, [req |-> r, begin |-> hit, count |-> n])
             later == [processed EXCEPT ![r] = hit]
  <2>1. /\ batch # <<>> /\ r \notin Live(kv)
        /\ IF CanReserve(plane, slices)
           THEN kv' = Settled(Reserve(plane, slices)) /\ batch' = slices /\ processed' = later
           ELSE kv' = Settled(ReleaseRequest(plane, r)) /\ batch' = batch /\ processed' = processed
    BY <1>6 DEF AdmitToBatch
  <2>2. n \in Nat /\ hit \in Nat
    <3>2. hit \in Nat BY <1>0, <1>1, <2>1, AdmitHitIs
    <3> QED BY <3>2, SliceSizesAssumption
  <2>3. PlaneOK(plane) /\ Live(plane) = Live(kv) \cup {r} /\ OthersKept(kv, plane, r)
    BY <1>0, <1>1, <2>1, AdmitOK
  <2>4. r \notin InBatch(batch) BY <1>0, <2>1 DEF SlicesOK, InBatch
  <2>5. SlicesOK(plane, batch) BY <1>0, <2>3, <2>4, BatchUntouched
  <2>6. SlicesOK(plane, slices)
    <3> HIDE DEF plane, hit
    <3>1. r \in Live(plane) \ InBatch(batch) BY <2>3, <2>4
    <3> QED BY <2>2, <2>5, <3>1, OneMoreSlice
  <2>7. DataRight(plane, slices, later)
    <3>1. hit = AdmitHit(kv, r, kv.clock) * BlockTokens /\ plane = Admit(kv, r, kv.clock, kv.clock) OBVIOUS
    <3> DEFINE s == [req |-> r, begin |-> hit, count |-> n]
    <3>2. slices = Append(batch, s) /\ s.req = r /\ s.begin = hit OBVIOUS
    <3>3. later = [processed EXCEPT ![r] = hit] OBVIOUS
    <3> HIDE DEF plane, hit, s, slices, later
    <3>4. PlaneOK(kv) /\ SlicesOK(kv, batch) /\ processed \in [Requests -> Nat]
          /\ DataRight(kv, batch, processed) /\ r \in Requests /\ r \notin Live(kv)
          /\ kv.clock \in Int /\ kv.clock \in Nat /\ SlicesOK(plane, slices)
      BY <1>0, <1>1, <2>1, <2>6
    <3>5. DataRight(plane, slices, [processed EXCEPT ![r] = hit]) BY ONLY <3>1, <3>2, <3>4, JoinRight
    <3> QED BY <3>3, <3>5
  <2>8. DataRight(ReleaseRequest(plane, r), batch, processed) BY <1>0, <1>1, <2>1, RefuseRight
  <2>9. later \in [Requests -> Nat]
    <3> HIDE DEF hit
    <3> QED BY <1>0, <2>2
  <2> HIDE DEF plane, hit, slices, later
  <2>10. CASE CanReserve(plane, slices)
    <3> DEFINE p == Reserve(plane, slices)
    <3>1. DataRight(p, slices, later) BY <2>3, <2>6, <2>7, <2>9, <2>10, ReserveRight
    <3>2. PlaneOK(p) /\ Live(p) = Live(plane) BY <2>3, <2>6, <2>10, ReserveOK
    <3>3. kv' = Settled(p) /\ batch' = slices /\ processed' = later BY <2>1, <2>10
    <3> HIDE DEF p
    <3>4. SlicesOK(p, slices) BY <2>6, <3>2 DEF SlicesOK
    <3>5. DataRight(Settled(p), slices, later) BY <2>9, <3>1, <3>2, <3>4, SettledRight
    <3> QED BY <3>3, <3>5
  <2>11. CASE ~CanReserve(plane, slices)
    <3> DEFINE p == ReleaseRequest(plane, r)
    <3>1. PlaneOK(p) /\ Live(p) = Live(plane) \ {r} /\ OthersKept(plane, p, r) BY <2>3, ReleaseOK
    <3>2. DataRight(p, batch, processed) BY <2>8
    <3>3. kv' = Settled(p) /\ batch' = batch /\ processed' = processed BY <2>1, <2>11
    <3> HIDE DEF p
    <3>4. SlicesOK(p, batch) BY <2>4, <2>5, <3>1, BatchUntouched
    <3>5. DataRight(Settled(p), batch, processed) BY <1>0, <3>1, <3>2, <3>4, SettledRight
    <3> QED BY <3>3, <3>5
  <2> QED BY <2>10, <2>11
<1>7. ASSUME RunBatch PROVE DataRight(kv', batch', processed')
  <2> DEFINE p == Execute(kv, batch)
             later == Progress(batch, processed).reach
  <2>1. Mappable(kv, batch) /\ kv' = Settled(p) /\ batch' = <<>> BY <1>7 DEF RunBatch
  <2>2. processed' = later BY <1>7 DEF RunBatch, Progress
  <2>3. PlaneOK(p) BY <1>0, <2>1, ExecuteOK
  <2>4. DataRight(p, <<>>, later) BY <1>0, <2>1, ExecuteRight
  <2> HIDE DEF p, later
  <2>5. DataRight(Settled(p), <<>>, later) BY <1>9, <2>2, <2>3, <2>4, NoSlices, SettledRight
  <2> QED BY <2>1, <2>2, <2>5
<1>8. DataRight(kv', batch', processed') BY <1>2, <1>3, <1>4, <1>5, <1>6, <1>7 DEF Next
<1> QED BY <1>8 DEF DataRight, Begins, DataOK, TablesRight, SharesRight, CacheRight, PendingDue, Progress

(* Whatever the clients call, and however often the cache shares, moves    *)
(* and drops blocks, every request finds its own tokens where it reads, or *)
(* its batch is about to write them, and so for every entry of the cache.  *)
THEOREM DataInvariant == Spec => []DataInv
<1>1. Init => DataInv
  <2> SUFFICES ASSUME Init PROVE DataRight(kv, batch, processed) /\ ClientInv BY DEF DataInv
  <2>1. kv = EmptyPlane /\ batch = <<>> /\ processed = [r \in Requests |-> 0] BY DEF Init
  <2>2. PlaneOK(kv) BY <2>1, EmptyPlaneOK
  <2>3. processed \in [Requests -> Nat] BY <2>1
  <2>4. ClientInv BY <2>1, <2>2, <2>3, NoSlices DEF ClientInv
  <2>5. DataRight(EmptyPlane, <<>>, processed)
    <3>1. Live(EmptyPlane) = {} /\ Cached(EmptyPlane) = {} /\ PendingKeys(EmptyPlane) = {}
      BY DEF Live, EmptyPlane, Cached, PendingKeys, Range
    <3> QED BY <3>1 DEF DataRight, Begins, DataOK, TablesRight, SharesRight, CacheRight, PendingDue
  <2> QED BY <2>1, <2>4, <2>5
<1>2. DataInv /\ [Next]_vars => DataInv'
  <2> SUFFICES ASSUME DataInv, [Next]_vars PROVE DataInv' OBVIOUS
  <2>1. CASE Next
    <3>1. ClientInv' BY <2>1, ClientStep DEF DataInv
    <3>2. DataRight(kv, batch, processed)' BY <2>1, DataStep
    <3> QED BY <3>1, <3>2 DEF DataInv
  <2>2. CASE UNCHANGED vars
    <3>1. kv' = kv /\ batch' = batch /\ processed' = processed BY <2>2 DEF vars
    <3> QED BY <3>1 DEF DataInv, ClientInv, PlaneOK, IsPlane, IsRecord, DataRight
  <2> QED BY <2>1, <2>2
<1> QED BY <1>1, <1>2, PTL DEF Spec

(* Between batches every live request finds its own tokens.                *)
THEOREM ContextIntactAlways == Spec => []ContextIntact
<1>1. DataInv => ContextIntact
  <2> SUFFICES ASSUME DataInv, batch = <<>> PROVE \A r \in Live(kv) : Holds(kv, r, processed[r])
    BY DEF ContextIntact
  <2>1. DataRight(kv, <<>>, processed) BY DEF DataInv
  <2> QED BY <2>1, RightIs
<1> QED BY <1>1, DataInvariant, PTL

(* Every cached block holds what its key stands for, none is left pending, *)
(* and the cache is within its budget.                                     *)
THEOREM CacheCoherentAlways == Spec => []CacheCoherent
<1>1. DataInv => CacheCoherent
  <2> SUFFICES ASSUME DataInv PROVE CacheCoherent OBVIOUS
  <2>1. CacheWithinBudget(kv) BY BudgetOK DEF DataInv, ClientInv
  <2>2. ASSUME batch = <<>>
        PROVE  \A i \in DOMAIN kv.cache : EntryHolds(kv, kv.cache[i]) /\ ~kv.cache[i].pending
    <3>1. DataRight(kv, <<>>, processed) BY <2>2 DEF DataInv
    <3> QED BY <3>1, RightIs
  <2> QED BY <2>1, <2>2 DEF CacheCoherent
<1> QED BY <1>1, DataInvariant, PTL
============================================================================
