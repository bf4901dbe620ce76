----------------------------- MODULE KvClients -----------------------------
(***************************************************************************)
(* A client of the KV plane that is as free as the plane allows: it admits *)
(* and releases requests, builds the iterations of a batch by reserving    *)
(* one more slice after the other, preempts between batches and then runs  *)
(* the batch.  Requests that are left out of a batch wait with their       *)
(* blocks in HBM, from where another request's reservation may move them   *)
(* to the cold tier (the tests of placement.py use it this way).  One rule *)
(* of the engine is kept: a request admitted while a batch is being built  *)
(* joins that batch or is released at once, because the prefix blocks it   *)
(* was admitted with may still be unwritten.                               *)
(***************************************************************************)
EXTENDS KvPlacement

CONSTANTS
    SliceSizes,     \* tokens one slice may have
    MaxBatches,     \* bound: batches in a behaviour
    MaxAdmissions   \* bound: admissions in a behaviour

ASSUME SliceSizesAssumption == SliceSizes \subseteq Nat

VARIABLES
    kv,          \* the placement plane
    batch,       \* slices reserved for the batch under construction
    processed    \* tokens of each request whose KV has been written or was a hit

vars == <<kv, batch, processed>>

Init ==
    /\ kv = EmptyPlane
    /\ batch = <<>>
    /\ processed = [r \in Requests |-> 0]

(* A request arrives at some time up to now; now only matters for the TTL. *)
AdmitRequest(r) ==
    /\ batch = <<>>
    /\ r \notin Live(kv) /\ kv.nextOrder < MaxAdmissions
    /\ \E arrival \in 0 .. kv.clock :
        /\ kv' = Settled(Admit(kv, r, kv.clock, arrival))
        /\ processed' = [processed EXCEPT ![r] = AdmitHit(kv, r, kv.clock) * BlockTokens]
    /\ UNCHANGED batch

ReserveSlice(r, n) ==
    LET slices == Append(batch, [req |-> r, begin |-> processed[r], count |-> n])
    IN  /\ kv.batchId < MaxBatches
        /\ r \in Live(kv) \ InBatch(batch)
        /\ processed[r] + n <= Lifetime[r]
        /\ CanReserve(kv, slices)
        /\ kv' = Settled(Reserve(kv, slices))
        /\ batch' = slices
        /\ UNCHANGED processed

AdmitToBatch(r, n) ==
    LET plane == Admit(kv, r, kv.clock, kv.clock)
        hit == AdmitHit(kv, r, kv.clock) * BlockTokens
        slices == Append(batch, [req |-> r, begin |-> hit, count |-> n])
    IN  /\ batch # <<>>
        /\ r \notin Live(kv) /\ kv.nextOrder < MaxAdmissions
        /\ hit + n <= Lifetime[r]
        /\ IF CanReserve(plane, slices)
           THEN /\ kv' = Settled(Reserve(plane, slices))
                /\ batch' = slices
                /\ processed' = [processed EXCEPT ![r] = hit]
           ELSE /\ kv' = Settled(ReleaseRequest(plane, r))
                /\ UNCHANGED <<batch, processed>>

PreemptRequest(r) ==
    /\ batch = <<>>
    /\ r \in Live(kv) /\ CanPreempt(kv, r)
    /\ kv' = Settled(Preempt(kv, r))
    /\ processed' = [processed EXCEPT ![r] =
                        IF PreemptMode(kv, r) = "recompute" THEN 0 ELSE @]
    /\ UNCHANGED batch

Leave(r) ==
    /\ r \in Live(kv) \ InBatch(batch)
    /\ kv' = Settled(ReleaseRequest(kv, r))
    /\ processed' = [processed EXCEPT ![r] = 0]
    /\ UNCHANGED batch

RunBatch ==
    /\ batch # <<>>
    /\ Mappable(kv, batch)
    /\ kv' = Settled(Execute(kv, batch))
    /\ processed' = [r \in Requests |->
         IF r \in InBatch(batch)
         THEN Tokens(batch[CHOOSE i \in DOMAIN batch : batch[i].req = r])
         ELSE processed[r]]
    /\ batch' = <<>>

Next ==
    \/ \E r \in Requests : AdmitRequest(r) \/ PreemptRequest(r) \/ Leave(r)
    \/ \E r \in Requests, n \in SliceSizes : ReserveSlice(r, n) \/ AdmitToBatch(r, n)
    \/ RunBatch

Spec == Init /\ [][Next]_vars

----------------------------------------------------------------------------
(* Every reference count is the number of tables and entries that hold the *)
(* block: nothing leaks and nothing is freed while in use, through every   *)
(* mix of sharing, eviction, migration and preemption.                     *)
ReferencesExact == CountsAreHolders(kv)

(* Between batches every live request finds its own tokens in every block  *)
(* its table names, whether it computed them, shares them with the request *)
(* that did, or had them moved between the tiers.                          *)
ContextIntact ==
    batch = <<>> => \A r \in Live(kv) : Holds(kv, r, processed[r])

(* Between batches every cached block holds exactly the tokens its key     *)
(* stands for, none is still marked pending, and the cache is within its   *)
(* budget: "full-block content-addressed" sharing never serves stale KV.   *)
CacheCoherent ==
    /\ CacheWithinBudget(kv)
    /\ batch = <<>> => \A i \in DOMAIN kv.cache :
                          EntryHolds(kv, kv.cache[i]) /\ ~kv.cache[i].pending

(* Reserving another slice, with the evictions and migrations that takes,  *)
(* never takes blocks from a slice reserved before for the same batch:     *)
(* map_batch accepts every batch built this way.                           *)
ReservedStaysMappable == batch # <<>> => Mappable(kv, batch) /\ kv.pending

(* A slice is refused only when what other requests need or read leaves no *)
(* room for it: "Pressure can evict cached ownership before migrating      *)
(* waiting requests or preempting work."                                   *)
CacheYieldsToRequests ==
    batch = <<>> => \A r \in Live(kv) : \A t \in 1 .. Lifetime[r] :
        RefusedOnlyWhenTooLarge(kv, r, t)
=============================================================================
