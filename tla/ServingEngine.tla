--------------------------- MODULE ServingEngine ---------------------------
(***************************************************************************)
(* HBServeEngine (hbserve/engine.py): continuous batching over the KV      *)
(* plane of KvPlacement, one synchronous batch after the other.  An        *)
(* iteration first offers every running request its next slice, preempting *)
(* the youngest running request while the slices do not fit the HBM pool,  *)
(* then admits waiting requests while budgets and the pool have room, runs *)
(* the batch and applies its completion.  The steps of an iteration are    *)
(* actions, so that every decision in it can be looked at.                 *)
(*                                                                         *)
(* Requests are numbered in the order (arrival_ns, order) they are sorted  *)
(* by.  Time is abstracted to which of them have arrived: any number may   *)
(* arrive while a batch runs.  `failure` is the error that stops the run.  *)
(***************************************************************************)
EXTENDS KvPlacement

CONSTANTS
    Model,               \* model_id of each request
    Group,               \* the request_groups partition; constant without groups
    MaxBatchRequests, MaxBatchTokens, PrefillChunk   \* SchedulerPolicy

ASSUME PolicyAssumption ==
    {MaxBatchRequests, MaxBatchTokens, PrefillChunk} \subseteq Nat \ {0}
ASSUME GroupsAssumption ==
    /\ DOMAIN Model = Requests /\ Group \in [Requests -> Nat]
    /\ \A r, s \in Requests : r <= s => Group[r] <= Group[s]

VARIABLES
    kv,              \* the executor's KV plane
    processed,       \* tokens whose KV is in the plane
    emitted,         \* output tokens emitted
    prefillTarget,   \* tokens the prefill in progress has to reach
    admitted,        \* requests known to the executor
    running,         \* _running, in admission order
    resumed,         \* _resumed, the preempted requests
    arrived,         \* the requests 1 .. arrived have arrived
    iteration,       \* locals of _next_schedule
    failure          \* the HBServeError that ended the run, or "none"

progress == <<processed, emitted, prefillTarget>>
vars == <<kv, progress, admitted, running, resumed, arrived, iteration, failure>>

Output(r) == Lifetime[r] - Prompt[r] + 1
Complete(r) == emitted[r] = Output(r)

(* _runnable_states: the unfinished requests of the first group with any.  *)
Runnable ==
    LET Unfinished == {r \in Requests : ~Complete(r)}
    IN  {r \in Unfinished : \A s \in Unfinished : Group[r] <= Group[s]}

----------------------------------------------------------------------------
(* _slice_for.                                                             *)
(* Mutant: a request whose prefill has just ended is still in prefill. *)
InDecodeLate(r, from) == from > prefillTarget[r]

InDecode(r, from) == from >= prefillTarget[r]
FrontierBroken(r, from) == InDecode(r, from) /\ from # Prompt[r] + emitted[r] - 1

(* Mutant: a prefill chunk that ignores what is left of the budget. *)
SliceOverBudget(r, from, budget) ==
    LET count == IF InDecode(r, from) THEN 1 ELSE AtMost(prefillTarget[r] - from, PrefillChunk)
    IN  [req |-> r, begin |-> from, count |-> count,
         emits |-> from + count >= prefillTarget[r],
         phase |-> IF InDecode(r, from) THEN "decode" ELSE "prefill"]

SliceFor(r, from, budget) ==
    LET count == IF InDecode(r, from) THEN 1
                 ELSE AtMost(AtMost(prefillTarget[r] - from, PrefillChunk), budget)
        end == from + count
    IN  [req |-> r, begin |-> from, count |-> count,
         emits |-> InDecode(r, from) \/ (end = prefillTarget[r] /\ end >= Prompt[r]),
         phase |-> IF InDecode(r, from) THEN "decode" ELSE "prefill"]

Idle == [phase |-> "idle", todo |-> <<>>, waiting |-> <<>>, model |-> 0, offer |-> <<>>,
         slices |-> <<>>, budget |-> 0, preempted |-> FALSE]

(* Preempted requests wait before the others, which wait by arrival.       *)
Waiting(Arrived) ==
    Keep(resumed, Arrived) \o Ascending(Arrived \ (Range(running) \cup Range(resumed)))

(* The first lines of _next_schedule, for the requests that have arrived;  *)
(* the oldest running request, or else the first waiting, sets the model.  *)
Opened(Arrived) ==
    LET run == Keep(running, Arrived)
    IN  [Idle EXCEPT !.phase = "running", !.todo = run, !.waiting = Waiting(Arrived),
                     !.model = Model[Head(run \o Waiting(Arrived))],
                     !.budget = MaxBatchTokens]

Init ==
    /\ kv = EmptyPlane
    /\ processed = [r \in Requests |-> 0]
    /\ emitted = [r \in Requests |-> 0]
    /\ prefillTarget = Prompt
    /\ admitted = {}
    /\ running = <<>> /\ resumed = <<>>
    /\ arrived = 0
    /\ iteration = Idle
    /\ failure = "none"

(* A step that only changes the locals of _next_schedule.                  *)
PlanOnly == UNCHANGED <<kv, progress, admitted, running, resumed, arrived, failure>>

Raise(error) ==
    /\ failure' = error
    /\ UNCHANGED <<kv, progress, admitted, running, resumed, arrived, iteration>>

----------------------------------------------------------------------------
(* An engine that finds nothing arrived waits for the next arrival.        *)
StartIteration ==
    /\ iteration.phase = "idle"
    /\ \E n \in arrived .. NRequests :
        LET Arrived == {r \in Runnable : r <= n}
        IN  /\ n \in Runnable \/ (n = arrived /\ Arrived # {})
            /\ arrived' = n
            /\ iteration' = Opened(Arrived)
    /\ UNCHANGED <<kv, progress, admitted, running, resumed, failure>>

(* The loop over the running requests of the iteration.                    *)
InRunningLoop == iteration.phase = "running" /\ iteration.todo # <<>>
Current == Head(iteration.todo)

SkipRunning ==
    /\ InRunningLoop /\ iteration.offer = <<>>
    /\ Current \notin Range(running) \/ Model[Current] # iteration.model
    /\ iteration' = [iteration EXCEPT !.todo = Tail(@)]
    /\ PlanOnly

OfferRunning ==
    /\ InRunningLoop /\ iteration.offer = <<>>
    /\ Current \in Range(running) /\ Model[Current] = iteration.model
    /\ IF iteration.budget = 0
       THEN /\ iteration' = [iteration EXCEPT !.todo = <<>>]
            /\ PlanOnly
       ELSE IF FrontierBroken(Current, processed[Current])
       THEN Raise("decode frontier is inconsistent")
       ELSE /\ iteration' = [iteration EXCEPT !.offer =
                    <<SliceFor(Current, processed[Current], iteration.budget)>>]
            /\ PlanOnly

Fits == CanReserve(kv, iteration.slices \o iteration.offer)

SelectRunning ==
    /\ InRunningLoop /\ iteration.offer # <<>> /\ Fits
    /\ iteration' = [iteration EXCEPT
            !.slices = @ \o iteration.offer, !.budget = @ - iteration.offer[1].count,
            !.todo = Tail(@), !.offer = <<>>]
    /\ PlanOnly

(* Mutant: the token that is to be produced next is not counted. *)
DiscardedShort(r) ==
    IF processed[r] < Prompt[r] THEN Prompt[r] ELSE processed[r]

(* _preempt: what becomes of the progress of a request that must recompute.*)
Discarded(r) ==
    IF processed[r] < Prompt[r] THEN Prompt[r] ELSE processed[r] + 1

(* Mutants: the oldest one goes; the victim stays in _running. *)
OldestRunning == Head(running)
StillListed(r) == running

Victim == Last(running)
SlicesOf(slices, S) == Keep(slices, {s \in Range(slices) : s.req \in S})
Without(r) == Keep(running, Requests \ {r})

PreemptYoungest ==
    LET victim == Victim
        chosen == SlicesOf(iteration.slices, {victim})
        again == PreemptMode(kv, victim) = "recompute"
        gone == victim = Current
    IN  /\ InRunningLoop /\ iteration.offer # <<>> /\ ~Fits
        /\ IF ~CanPreempt(kv, victim)
           THEN Raise("no hot KV blocks to preempt")
           ELSE /\ kv' = Settled(Preempt(kv, victim))
                /\ processed' = [processed EXCEPT ![victim] = IF again THEN 0 ELSE @]
                /\ prefillTarget' = [prefillTarget EXCEPT ![victim] =
                                        IF again THEN Discarded(victim) ELSE @]
                /\ running' = Without(victim)
                /\ resumed' = <<victim>> \o Keep(resumed, Requests \ {victim})
                /\ iteration' = [iteration EXCEPT
                        !.preempted = TRUE,
                        !.slices = SlicesOf(@, Requests \ {victim}),
                        !.budget = @ + IF chosen = <<>> THEN 0 ELSE chosen[1].count,
                        !.todo = IF gone THEN Tail(@) ELSE @,
                        !.offer = IF gone THEN <<>> ELSE @]
                /\ UNCHANGED <<emitted, admitted, arrived, failure>>

(* The running requests' blocks are reserved before anything is admitted,  *)
(* and nothing is in an iteration that had to preempt.                     *)
ReserveRunning ==
    /\ iteration.phase = "running" /\ iteration.todo = <<>>
    /\ IF iteration.slices # <<>> /\ ~CanReserve(kv, iteration.slices)
       THEN Raise("HBM KV pool cannot hold the iteration")
       ELSE /\ kv' = IF iteration.slices = <<>> THEN kv
                     ELSE Settled(Reserve(kv, iteration.slices))
            /\ iteration' = [iteration EXCEPT
                    !.phase = "admit", !.waiting = <<>>,
                    !.todo = IF iteration.preempted THEN <<>> ELSE iteration.waiting]
            /\ UNCHANGED <<progress, admitted, running, resumed, arrived, failure>>

----------------------------------------------------------------------------
(* The loop over the waiting requests.                                     *)
InAdmitLoop == iteration.phase = "admit" /\ iteration.todo # <<>>
(* Mutants: only the token budget counts; a whole chunk has to fit it. *)
HasTokenBudget == iteration.budget > 0
HasChunkBudget == iteration.budget >= PrefillChunk /\ Len(running) < MaxBatchRequests

HasBudget == iteration.budget > 0 /\ Len(running) < MaxBatchRequests

SkipWaiting ==
    /\ InAdmitLoop /\ Model[Current] # iteration.model
    /\ iteration' = [iteration EXCEPT !.todo = Tail(@)]
    /\ PlanOnly

StopAdmitting ==
    /\ InAdmitLoop /\ Model[Current] = iteration.model /\ ~HasBudget
    /\ iteration' = [iteration EXCEPT !.todo = <<>>]
    /\ PlanOnly

(* A request the executor does not know is admitted first, and given back  *)
(* if its first slice does not fit.                                        *)
ConsiderWaiting ==
    LET r == Current
        fresh == r \notin admitted
        plane == IF fresh THEN Admit(kv, r, kv.clock, kv.clock) ELSE kv
        from == IF fresh THEN AdmitHit(kv, r, kv.clock) * BlockTokens ELSE processed[r]
        slice == SliceFor(r, from, iteration.budget)
        slices == Append(iteration.slices, slice)
    IN  /\ InAdmitLoop /\ Model[r] = iteration.model /\ HasBudget
        /\ IF from >= Prompt[r] /\ fresh
           THEN Raise("executor returned an invalid cached prefix length")
           ELSE IF FrontierBroken(r, from)
           THEN Raise("decode frontier is inconsistent")
           ELSE IF CanReserve(plane, slices)
           THEN /\ kv' = Settled(Reserve(plane, slices))
                /\ processed' = [processed EXCEPT ![r] = from]
                /\ admitted' = admitted \cup {r}
                /\ running' = Append(running, r)
                /\ resumed' = Keep(resumed, Requests \ {r})
                /\ iteration' = [iteration EXCEPT
                        !.slices = slices, !.budget = @ - slice.count, !.todo = Tail(@)]
                /\ UNCHANGED <<emitted, prefillTarget, arrived, failure>>
           ELSE /\ kv' = IF fresh THEN Settled(ReleaseRequest(plane, r)) ELSE kv
                /\ iteration' = [iteration EXCEPT !.todo = <<>>]
                /\ UNCHANGED <<progress, admitted, running, resumed, arrived, failure>>

----------------------------------------------------------------------------
(* An iteration without a slice: the preempted ones are tried alone, and   *)
(* without a preemption there is no way on.                                *)
EmptyIteration ==
    /\ iteration.phase = "admit" /\ iteration.todo = <<>> /\ iteration.slices = <<>>
    /\ IF iteration.preempted
       THEN /\ iteration' = Opened({r \in Runnable : r <= arrived})
            /\ PlanOnly
       ELSE Raise("KV pool cannot hold one schedulable chunk")

(* _validate_schedule, as far as the engine's slices could violate it.     *)
Compiles(slices) ==
    \A i \in DOMAIN slices : LET s == slices[i] IN
        /\ Tokens(s) <= Lifetime[s.req] /\ Model[s.req] = iteration.model
        /\ s.phase = "decode" => s.begin >= Prompt[s.req]

SliceOf(r) ==
    iteration.slices[CHOOSE i \in DOMAIN iteration.slices : iteration.slices[i].req = r]

(* compile, execute and _apply_completion of the batch.                    *)
RunBatch ==
    LET slices == iteration.slices
        Served == InBatch(slices)
        advanced == [r \in Requests |-> IF r \in Served THEN Tokens(SliceOf(r)) ELSE processed[r]]
        count == [r \in Requests |->
                    IF r \in Served /\ SliceOf(r).emits THEN emitted[r] + 1 ELSE emitted[r]]
        finished == Keep(slices, {s \in Range(slices) : s.emits /\ count[s.req] = Output(s.req)})
        Finished == InBatch(finished)
    IN  /\ iteration.phase = "admit" /\ iteration.todo = <<>> /\ slices # <<>>
        /\ IF ~Compiles(slices) THEN Raise("slice exceeds its request")
           ELSE IF ~Mappable(kv, slices) THEN Raise("no reserved hot KV blocks")
           ELSE IF \E r \in Served : count[r] > Output(r)
           THEN Raise("request emitted more tokens than requested")
           ELSE IF \E r \in Finished : advanced[r] # Lifetime[r]
           THEN Raise("request completed without processing its lifetime")
           ELSE /\ kv' = Settled(FoldLeft(LAMBDA p, s : ReleaseRequest(p, s.req),
                                          Execute(kv, slices), finished))
                /\ processed' = advanced
                /\ emitted' = count
                /\ running' = Keep(running, Requests \ Finished)
                /\ iteration' = Idle
                /\ UNCHANGED <<prefillTarget, admitted, resumed, arrived, failure>>

(* run() has returned.                                                     *)
Terminated == Runnable = {} /\ iteration.phase = "idle" /\ UNCHANGED vars

Step ==
    /\ failure = "none"
    /\ \/ StartIteration \/ SkipRunning \/ OfferRunning \/ SelectRunning
       \/ PreemptYoungest \/ ReserveRunning
       \/ SkipWaiting \/ StopAdmitting \/ ConsiderWaiting
       \/ EmptyIteration \/ RunBatch

Next == Step \/ Terminated

Spec == Init /\ [][Next]_vars
(* run() is one loop on one thread: it makes its next step until it has    *)
(* returned or raised.  This is WF_vars(Step) with ENABLED written out.    *)
Stopped == failure # "none" \/ (Runnable = {} /\ iteration.phase = "idle")
FairSpec == Spec /\ ([]<>Stopped \/ []<><<Step>>_vars)
----------------------------------------------------------------------------
TypeOK ==
    /\ processed \in [Requests -> Nat] /\ emitted \in [Requests -> Nat]
    /\ prefillTarget \in [Requests -> Nat]
    /\ admitted \subseteq Requests /\ arrived \in 0 .. NRequests
    /\ running \in Seq(Requests) /\ resumed \in Seq(Requests)
    /\ iteration.phase \in {"idle", "running", "admit"}
    /\ iteration.budget \in 0 .. MaxBatchTokens /\ iteration.preempted \in BOOLEAN

(* None of the consistency errors of the engine, the compiler and the      *)
(* placement is ever raised: the token frontier is exact through chunked   *)
(* prefill, prefix hits, preemption, swap and recompute, and a batch that  *)
(* was reserved can be mapped.                                             *)
NeverRaises == failure = "none"

(* Between iterations the plane knows exactly the admitted unfinished      *)
(* requests and every one finds the KV of all its processed tokens where   *)
(* its block table says: what the next token is computed from.             *)
ContextIntact ==
    iteration.phase = "idle" =>
        /\ Live(kv) = {r \in admitted : ~Complete(r)}
        /\ \A r \in Live(kv) : Holds(kv, r, processed[r])

(* Block counts are exact at every step of an iteration, and when all the  *)
(* requests are done only the prefix cache holds blocks.                   *)
NothingLeaks ==
    /\ CountsAreHolders(kv)
    /\ Runnable = {} => Live(kv) = {}

(* "it must not evict an already runnable request merely to fill this      *)
(* iteration's token budget": a running request keeps its blocks in HBM    *)
(* until it is itself preempted; no reservation migrates it.               *)
RunningStaysHot == \A i \in DOMAIN running : CanPreempt(kv, running[i])

(* "the youngest request in the iteration is preempted": the running and,  *)
(* after them, the preempted requests are in order of arrival and all of   *)
(* one model, so the last running request is the youngest one and the      *)
(* preempted ones come back before anything younger is admitted.           *)
PreemptedInAgeOrder ==
    LET line == running \o resumed
    IN  \A i, j \in DOMAIN line :
            i < j => line[i] < line[j] /\ Model[line[i]] = Model[line[j]]

(* "Every iteration admits all runnable decode requests": a batch that is  *)
(* ready serves every running request, within both budgets.                *)
BatchServesAllRunning ==
    iteration.phase = "admit" =>
        /\ \A i \in DOMAIN running : running[i] \in InBatch(iteration.slices)
        /\ Len(running) <= MaxBatchRequests
        /\ SumFunction([i \in DOMAIN iteration.slices |-> iteration.slices[i].count])
             + iteration.budget = MaxBatchTokens

(* "KV pool cannot hold one schedulable chunk of the oldest waiting        *)
(* request": this error is only raised when that chunk exceeds the whole   *)
(* pool, after every other request has left HBM.                           *)
CapacityErrorIsGenuine ==
    failure = "KV pool cannot hold one schedulable chunk" =>
        LET oldest == Head(Waiting({r \in Runnable : r <= arrived}))
            from == IF oldest \in admitted THEN processed[oldest]
                    ELSE AdmitHit(kv, oldest, kv.clock) * BlockTokens
        IN  /\ running = <<>>
            /\ \A r \in Live(kv) : ~CanPreempt(kv, r)
            /\ BlocksFor(Tokens(SliceFor(oldest, from, MaxBatchTokens))) * Layers > HotCapacity

(* "The discarded context (prompt or prompt + generated so far) is re-fed  *)
(* as one prefill": a request that has emitted tokens and is being         *)
(* prefilled again is prefilled up to its last emitted token.              *)
DiscardedContextIsRefed ==
    \A r \in Requests :
        emitted[r] > 0 /\ processed[r] < prefillTarget[r]
            => prefillTarget[r] = Prompt[r] + emitted[r]

(* "Blocks become visible only after the physical batch has completed      *)
(* their writes": the prefix blocks a request was admitted with hold       *)
(* their tokens.                                                           *)
HitsAreWritten ==
    \A r \in Live(kv) : Holds(kv, r, kv.req[r].hit * BlockTokens)

(* Every offered request completes.                                        *)
EveryRequestCompletes == <>(Runnable = {})
=============================================================================
