----------------------------- MODULE BatchGraph -----------------------------
(***************************************************************************)
(* The transactions of a batch: what map_batch (hbserve/placement.py)      *)
(* emits for the pending migrations and for the operations that            *)
(* HBServeCompiler.compile (hbserve/compiler.py) gave the batch, and the   *)
(* memory they run on.  A transaction may run as soon as those it depends  *)
(* on have run; nothing else orders them.  The next batch is planned when  *)
(* the last transaction of this one has run, but writes to the cold tier   *)
(* may then still be under way.                                            *)
(*                                                                         *)
(* The client of the plane is KvClients.  KvPlacement moves data in its    *)
(* ghost variables when a migration is planned or a batch is run; here the *)
(* same data moves when the transactions run, in any allowed order.        *)
(*                                                                         *)
(* The barrier every batch starts with, weight, embedding and head reads,  *)
(* model activation and links only lengthen the paths of the graph and are *)
(* left out; a transaction runs in one step.                               *)
(***************************************************************************)
EXTENDS KvPlacement

CONSTANTS
    SliceSizes, MaxBatches, MaxAdmissions,   \* see KvClients
    PrefetchDepth                            \* prefetch_depth of the compiler

ASSUME PrefetchAssumption == PrefetchDepth \in Nat

VARIABLES
    kv, batch, processed,   \* see KvClients
    migrations,   \* _pending_migrations
    fences,       \* _cold_block_fences: last transaction on a cold block, or None
    inFlight,     \* submitted transactions that have not run
    hotMemory,    \* contents of the HBM blocks
    coldMemory    \* contents of the cold blocks

Client == INSTANCE KvClients

vars == <<kv, batch, processed, migrations, fences, inFlight, hotMemory, coldMemory>>

None == <<>>
Ids(transactions) == {t.id : t \in transactions}
Executing == \E t \in inFlight : t.role = "complete"
Ready(t) == t.deps \cap Ids(inFlight) = {}

----------------------------------------------------------------------------
(* The migrations that reserve and preempt_request append.                 *)
Moved(p, r, Move(_, _), kind) ==
    LET after == Move(p.kv, r)
    IN  [kv |-> after, log |-> Append(p.log,
            [kind |-> kind, from |-> p.kv.req[r].table, to |-> after.req[r].table])]

MovesOfReserve(plane, slices) ==
    LET plan == Plan(plane, slices)
        cold == SelectSeq(slices, LAMBDA s : ~IsHot(plane, s.req))
        out == FoldLeft(LAMBDA p, r : Moved(p, r, SwapOut, "swap_out"),
                        [kv |-> FoldLeft(Evict, plane, plan.evict), log |-> <<>>], plan.victims)
    IN  FoldLeft(LAMBDA p, s : Moved(p, s.req, SwapIn, "swap_in"), out, cold).log

MovesOfPreempt(plane, r) ==
    IF PreemptMode(plane, r) = "swap_out"
    THEN Moved([kv |-> plane, log |-> <<>>], r, SwapOut, "swap_out").log
    ELSE <<>>

(* _block_runs: consecutive pairs with consecutive blocks on both sides.   *)
Runs(pairs) ==
    FoldLeft(LAMBDA runs, p :
        IF runs # <<>> /\ Last(runs).from + Last(runs).count = p[1]
                       /\ Last(runs).to + Last(runs).count = p[2]
        THEN [runs EXCEPT ![Len(runs)].count = @ + 1]
        ELSE Append(runs, [from |-> p[1], to |-> p[2], count |-> 1]), <<>>, pairs)

Sequence(first, count) == [n \in 1 .. count |-> first + n - 1]

----------------------------------------------------------------------------
(* The graph under construction.  source is the read whose data a copy     *)
(* writes; req, layer, begin and end belong to accesses of a slice.        *)
Emit(g, fields) ==
    [g EXCEPT !.last = @ + 1,
              !.txs = Append(@, fields @@
                 [id |-> <<g.batch, g.last + 1>>, role |-> "barrier", tier |-> "hot",
                  blocks |-> <<>>, deps |-> {}, source |-> None, data |-> <<>>,
                  req |-> 0, layer |-> 0, begin |-> 0, end |-> 0])]
LastId(g) == <<g.batch, g.last>>

(* Mutant: a swap-in does not wait for the reads of earlier swap-outs. *)
NoOutReads(g) == {}

(* Mutants: the last access to a cold block is not waited for; a fetch is  *)
(* fenced by itself.                                                       *)
NoFence(g, blocks) == {}
OwnFence(g, blocks) == {<<g.batch, g.last + 1>>}

FencesOf(g, blocks) == {g.fences[b] : b \in Range(blocks)} \ {None}
OutReads(g) == g.outReads

Fenced(g, blocks) ==
    [g EXCEPT !.fences = [b \in ColdBlocks |-> IF b \in Range(blocks) THEN LastId(g) ELSE @[b]]]

EmitSwapOut(g, run) ==
    LET to == Sequence(run.to, run.count)
        read == Emit(g, [role |-> "fetch", blocks |-> Sequence(run.from, run.count)])
        write == Emit(read, [role |-> "store", tier |-> "cold", blocks |-> to,
                             source |-> LastId(read),
                             deps |-> {LastId(read)} \cup FencesOf(g, to)])
    IN  [Fenced(write, to) EXCEPT !.outReads = @ \cup {LastId(read)}]

(* Mutant: a fetch does not become the fence of the blocks it reads. *)
EmitSwapInUnfenced(g, run) ==
    LET from == Sequence(run.from, run.count)
        read == Emit(g, [role |-> "fetch", tier |-> "cold", blocks |-> from,
                         deps |-> OutReads(g) \cup FencesOf(g, from)])
        write == Emit(read, [role |-> "store", blocks |-> Sequence(run.to, run.count),
                             source |-> LastId(read), deps |-> {LastId(read)}])
    IN  [write EXCEPT !.inWrites = @ \cup {LastId(write)}]

EmitSwapIn(g, run) ==
    LET from == Sequence(run.from, run.count)
        read == Emit(g, [role |-> "fetch", tier |-> "cold", blocks |-> from,
                         deps |-> OutReads(g) \cup FencesOf(g, from)])
        write == Emit(Fenced(read, from),
                      [role |-> "store", blocks |-> Sequence(run.to, run.count),
                       source |-> LastId(read), deps |-> {LastId(read)}])
    IN  [write EXCEPT !.inWrites = @ \cup {LastId(write)}]

EmitMigration(g, move) ==
    FoldLeft(LAMBDA h, run : IF move.kind = "swap_out"
                             THEN EmitSwapOut(h, run) ELSE EmitSwapIn(h, run),
             g, FlattenSeq([l \in 1 .. Layers |->
                    Runs([i \in DOMAIN move.from |-> <<move.from[i][l], move.to[i][l]>>])]))

(* One layer of compile: appends of every slice, then reads of the context *)
(* of the slices that have one, then the layer's computation.              *)
Touched(table, layer, begin, end) ==
    [n \in 1 .. BlocksFor(end) - begin \div BlockTokens |->
        table[begin \div BlockTokens + n][layer]]

(* Mutant: context reads do not wait for the layer's appends. *)
ReadsUnordered(g, layer) == {}

ReadsAfter(g, layer) == g.writes[layer]

EmitLayer(g, plane, slices, layer) ==
    LET previous == g.computes[Len(g.computes)]
        root == IF layer - 1 - PrefetchDepth >= 1
                THEN g.computes[layer - PrefetchDepth] ELSE g.computes[1]
        append == FoldLeft(LAMBDA h, s :
            LET e == Emit(h, [role |-> "append", req |-> s.req, layer |-> layer,
                              begin |-> s.begin, end |-> Tokens(s), deps |-> {previous},
                              blocks |-> Touched(plane.req[s.req].table, layer,
                                                 s.begin, Tokens(s))])
            IN  [e EXCEPT !.writes[layer] = @ \cup {LastId(e)}], g, slices)
        read == FoldLeft(LAMBDA h, s :
            LET e == Emit(h, [role |-> "attend", req |-> s.req, layer |-> layer,
                              begin |-> s.begin, end |-> Tokens(s),
                              deps |-> {root} \cup ReadsAfter(append, layer),
                              blocks |-> Touched(plane.req[s.req].table, layer, 0, s.begin)])
            IN  [e EXCEPT !.reads = @ \cup {LastId(e)}],
            [append EXCEPT !.reads = {}], SelectSeq(slices, LAMBDA s : s.begin > 0))
        compute == Emit(read, [deps |-> read.reads \cup {root, previous}])
    IN  [compute EXCEPT !.computes = Append(@, LastId(compute))]

(* computes[1] stands for the embedding barrier, on which the first layer  *)
(* depends; it waits for the migrations.                                   *)
Graph(plane, slices) ==
    LET empty == [batch |-> plane.batchId, last |-> 0, txs |-> <<>>, fences |-> fences,
                  outReads |-> {}, inWrites |-> {}, computes |-> <<>>,
                  writes |-> [l \in 1 .. Layers |-> {}], reads |-> {}]
        moved == FoldLeft(EmitMigration, empty, migrations)
        start == Emit(moved, [deps |-> moved.outReads \cup moved.inWrites])
        layers == FoldLeft(LAMBDA h, l : EmitLayer(h, plane, slices, l),
                           [start EXCEPT !.computes = <<LastId(start)>>],
                           [l \in 1 .. Layers |-> l])
    IN  Emit(layers, [role |-> "complete",
                      deps |-> {Last(layers.computes)} \cup UNION Range(layers.writes)])

----------------------------------------------------------------------------
Init ==
    /\ Client!Init
    /\ migrations = <<>>
    /\ fences = [b \in ColdBlocks |-> None]
    /\ inFlight = {}
    /\ hotMemory = [b \in HotBlocks |-> Junk]
    /\ coldMemory = [b \in ColdBlocks |-> Junk]

Memories == <<hotMemory, coldMemory>>

AdmitRequest(r) ==
    /\ ~Executing
    /\ Client!AdmitRequest(r)
    /\ UNCHANGED <<migrations, fences, inFlight, Memories>>

ReserveSlice(r, n) ==
    /\ ~Executing
    /\ Client!ReserveSlice(r, n)
    /\ migrations' = migrations \o MovesOfReserve(kv, batch')
    /\ UNCHANGED <<fences, inFlight, Memories>>

AdmitToBatch(r, n) ==
    /\ ~Executing
    /\ Client!AdmitToBatch(r, n)
    /\ migrations' = IF batch' = batch THEN migrations
                     ELSE migrations \o MovesOfReserve(Admit(kv, r, kv.clock, kv.clock), batch')
    /\ UNCHANGED <<fences, inFlight, Memories>>

PreemptRequest(r) ==
    /\ ~Executing
    /\ Client!PreemptRequest(r)
    /\ migrations' = migrations \o MovesOfPreempt(kv, r)
    /\ UNCHANGED <<fences, inFlight, Memories>>

Leave(r) ==
    /\ ~Executing
    /\ Client!Leave(r)
    /\ UNCHANGED <<migrations, fences, inFlight, Memories>>

(* Completion (complete_batch) is part of this step: nobody looks at the   *)
(* plane while the batch is executing.                                     *)
SubmitBatch ==
    /\ ~Executing
    /\ Client!RunBatch
    /\ LET g == Graph(kv, batch)
       IN  /\ inFlight' = inFlight \cup Range(g.txs)
           /\ fences' = g.fences
    /\ migrations' = <<>>
    /\ UNCHANGED Memories

(* The tokens begin .. end - 1 arrive in a block that has those before.    *)
Appended(old, t, b) ==
    LET i == CHOOSE i \in 1 .. HotCapacity :
                 i > t.begin \div BlockTokens /\ t.blocks[i - t.begin \div BlockTokens] = b
    IN  IF (i - 1) * BlockTokens < t.begin /\ old # Stored(t.req, i, t.layer, t.begin)
        THEN Junk
        ELSE Stored(t.req, i, t.layer, t.end)

Holding(memory, t) ==
    [b \in DOMAIN memory |->
        IF b \notin Range(t.blocks) THEN memory[b]
        ELSE IF t.role = "append" THEN Appended(memory[b], t, b)
        ELSE t.data[CHOOSE n \in DOMAIN t.blocks : t.blocks[n] = b]]

Writes(t) == t.role \in {"store", "append"}

Transact(t) ==
    LET memory == IF t.tier = "hot" THEN hotMemory ELSE coldMemory
        fetched == [n \in DOMAIN t.blocks |-> memory[t.blocks[n]]]
    IN  /\ Ready(t)
        /\ inFlight' = {IF t.role = "fetch" /\ u.source = t.id
                        THEN [u EXCEPT !.data = fetched] ELSE u : u \in inFlight \ {t}}
        /\ hotMemory' = IF Writes(t) /\ t.tier = "hot" THEN Holding(hotMemory, t) ELSE hotMemory
        /\ coldMemory' = IF Writes(t) /\ t.tier = "cold" THEN Holding(coldMemory, t) ELSE coldMemory
        /\ UNCHANGED <<kv, batch, processed, migrations, fences>>

TransactSome == \E t \in inFlight : Transact(t)

Next ==
    \/ \E r \in Requests : AdmitRequest(r) \/ PreemptRequest(r) \/ Leave(r)
    \/ \E r \in Requests, n \in SliceSizes : ReserveSlice(r, n) \/ AdmitToBatch(r, n)
    \/ SubmitBatch
    \/ TransactSome

Spec == Init /\ [][Next]_vars

(* The engine behind the session runs what it was given.                   *)
FairSpec == Spec /\ WF_vars(TransactSome)

----------------------------------------------------------------------------
(* Two accesses to one block of which one writes are ordered: no two       *)
(* transactions that may run now conflict.  Barriers, fences and the reads *)
(* that swap-ins wait for are what orders them.                            *)
NoRace ==
    \A t, u \in inFlight :
        t.id # u.id /\ Ready(t) /\ Ready(u) /\ t.tier = u.tier /\ Writes(t)
            => Range(t.blocks) \cap Range(u.blocks) = {}

(* A read of a request's context finds the tokens of that request, whoever *)
(* computed them and wherever they have been in the meantime.              *)
ContextIsRead ==
    \A t \in inFlight : t.role = "attend" /\ Ready(t) =>
        \A i \in 1 .. BlocksFor(t.begin) :
            LET found == hotMemory[t.blocks[i]]
                asked == Stored(t.req, i, t.layer, t.begin)
            IN  /\ found.identity = asked.identity /\ found.layer = asked.layer
                /\ found.fill >= asked.fill

(* When a batch is done the HBM holds what the plane believes it holds,    *)
(* except where it has planned migrations since, and so does the cold tier *)
(* where no write is under way: this is why KvPlacement may copy when it   *)
(* plans.                                                                  *)
MemoryFollowsPlane ==
    ~Executing /\ migrations = <<>> =>
        /\ \A b \in HotBlocks : kv.hotData[b] # Junk => hotMemory[b] = kv.hotData[b]
        /\ \A b \in ColdBlocks : kv.coldData[b] # Junk /\ fences[b] \notin Ids(inFlight)
               => coldMemory[b] = kv.coldData[b]

(* The graph has no cycle and waits for nothing that was never submitted:  *)
(* every batch is done at some time.                                       *)
BatchDone == Executing ~> ~Executing
=============================================================================
