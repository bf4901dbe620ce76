# HBServe in TLA+

HBServe drives a memory simulator (HBFSim) with the traffic of a language-model
server: an engine builds batches by continuous batching, a placement plane keeps
the KV cache of the requests in HBM blocks, shares prompt prefixes, migrates
waiting requests to a cold tier, and maps every batch to memory transactions. A
session sends them to the simulator's process; recovery publishes checkpoints of
the KV and restores them after a power loss; remappers put a memory hierarchy
under traces of a fixed window or of an external serving system.
This directory holds a TLA+ model of these parts, the TLC configurations that
check it on small instances, and proofs checked by TLAPS. Paths below are
relative to the repository; `placement.py`, `prefix.py`, `engine.py` and so on
are in `hbserve/`.

## 1. The system

| component | state | operations | talks to |
|---|---|---|---|
| KV block pool (`placement.py` `_BlockPool`, `block_references.py`) | reference counts, free ranges as two inverse dictionaries, heap of range starts with stale entries, frontier of untouched blocks | `allocate`, `retain`, `release` | owned by the placement plane: one pool in HBM, one in the cold tier |
| prefix cache (`prefix.py`) | LRU dictionary from block key to one block per layer, pending mark, expiry time, bytes | `lookup`, `publish`, `expire`, `evict`, `release_order` | retains and releases blocks of the HBM pool |
| KV placement plane (`placement.py` `HBServePlacement`) | block tables of the live requests and their tier, pending migrations and reservation | `admit_request`, `can_reserve`, `reserve`, `preempt_request`, `map_batch`, `complete_batch`, `release_request` | pools, cache; called by the engine through the executor |
| serving engine (`engine.py`) | per request: processed and emitted tokens, prefill target; `_running`, `_resumed`, request group | `_next_schedule`, `_slice_for`, `_preempt`, `_apply_completion`, `run` | executor (a protocol), compiler |
| compiler (`compiler.py`) | none | `_validate_schedule`, `compile` | called between scheduling and execution |
| executor (`hbfsim.py`) | session, placement | `execute`: map, submit, complete | simulation session |
| batch transaction graph (`placement.py` `map_batch`) | fences of cold blocks | emits migrations, clears, operations with dependencies | transactions of the session |
| model weight cache (`placement.py` `_ExtentAllocator`, `_activate_model`) | LRU of whole models, free extents | activate, evict, install, read | `map_batch` |
| simulation session (`hbfsim_client/simulation_session.py`, `transaction_protocol.py`) | subprocess, sequence number, completed and issued frontiers, ids used | `submit`, `run`, `checkpoint`, `hbf_wear_snapshot`, `invalidate_hbf_pages`, `crash`, `close` | the HBFSim process, over pipes |
| recovery (`recovery.py`) | epochs, published record, append-only arena, progress and schedules of the live requests | publish, restore, recompute | session checkpoints and crashes, files |
| SGLang backend (`sglang/backend.py`) | sector write-back cache, transactions in flight per slot and page, live slots | `run_batch`, `release`, `finalize` | session; an external serving system |
| SGLang layout (`sglang/layout.py`) | none: a fixed placement | `Placement` | the backend |
| window remappers (`windows/remap.py`, `peer.py`) | cached units, staging ring, read-ahead credits; KV units and their homes | `remap`, `finalize` | session |
| window layout (`windows/memory_trace.py`, `population.py`, `placement.py`) | none: a fixed layout | `MemoryLayout.build`, `build_explicit_fixed_population`, `placement_order` | the remappers |
| trace generators, metrics, contracts, command line | none that outlives a call | | |

The program runs on one thread. What is hard in the serving part is therefore
not concurrency of threads but long sequences of calls on shared, counted state:
the same block in several tables and in the cache, decisions planned from counts
that the same plan then changes, preemption in the middle of anything, and
bounded budgets. Concurrency proper is elsewhere: in the transactions of a batch,
which the simulator runs in any order their dependencies allow and which may
outlive the batch; in the session's dialogue with a process that may be slow,
wrong or dead; and in the points where power can be lost during a checkpoint.

What makes each component correct:

* pool: the index describes exactly the free blocks; the lowest ones are given
  out; stale entries stay bounded; an allocation that was accepted is answered.
* cache and plane: a block's count is the number of its holders; a request finds
  its own tokens in every block its table names; a key names what its block
  holds; a batch that was reserved can be mapped; cached blocks never cost a
  request its place.
* engine: no consistency error is ever raised; the youngest request is the one
  preempted; a batch serves every running request; every request completes; the
  run is given up only when it has to be.
* batch graph: accesses that conflict are ordered; a read of a request's context
  finds its tokens; once a batch is done, memory holds what the plane believes.
* session: the caller is told of what was executed, in order and with the
  contents it was executed with; the frontiers never go back; no call waits for
  ever and no process is left behind; a run reported complete is complete.
* recovery: whatever is lost, what was published can be restored, and every
  request continues from tokens it had; a root never names what is not there.
* remappers, backend, model cache: every read is served from the newest data,
  whatever order the dependencies allow; no dependency names a transaction the
  simulator has forgotten; what was written outlives the cache; every byte has
  one home.

## 2. Modules

| module | models | extends |
|---|---|---|
| `KvPoolSpec` | what a pool promises: lowest free blocks, counts. No index. | |
| `BlockPool` | `_BlockPool` with its index; each iteration of the loop in `allocate` is an action | refers to `KvPoolSpec` as `Abstract` |
| `BlockPoolProofs` | theorems about `BlockPool` for every capacity | `BlockPool`, `TLAPS` |
| `KvPlacement` | KV plane and prefix cache as operators on a record of the plane's state | |
| `FoldTheorems`, `FoldSetTheorems` | what a fold over a sequence, or over a finite set, computes | `TLAPS` |
| `KvPlaneProofs` | theorems about each operation of `KvPlacement` | `KvPlacement`, `TLAPS` |
| `KvClients` | any client of the plane: calls in every order the class accepts | `KvPlacement` |
| `KvClientsProofs` | theorems about `KvClients` for any requests and pools | `KvClients`, `KvPlaneProofs` |
| `ServingEngine` | the engine, decision by decision, on the plane | `KvPlacement` |
| `ServingProofs` | theorems about `ServingEngine` for any workload, pools and policy | `ServingEngine`, `KvPlaneProofs` |
| `BatchGraph` | the transactions of a batch and their dependencies, executed in every allowed order on both memories | `KvPlacement`; `KvClients` as its client |
| `SessionLog` | what a session promises: a log of executed commands, reported in order | |
| `SimulationSession` | the session, its process and the two pipes between them | refers to `SessionLog` as `Log` |
| `SessionProofs` | theorems about `SimulationSession` for any number of calls and faults | `SimulationSession`, `TLAPS` |
| `Recovery` | publication, restore and recomputation, with power loss at every step | |
| `RecoveryProofs` | theorems about the epochs and the data of `Recovery` | `Recovery`, `TLAPS` |
| `CausalTraffic` | the transactions of a trace, their dependencies, and what each location holds | |
| `BackingCache` | `HbmFrontedBackingRemapper` | `CausalTraffic` |
| `PeerHomes` | `PeerKvMigrationRemapper` | `CausalTraffic` |
| `NativeCache` | `HardwareSession` of the SGLang backend | `CausalTraffic` |
| `ModelCache` | weights in `HBServePlacement` | `CausalTraffic` |
| `HbfGeometry` | stacks, mapping pages and link bytes of HBF | |
| `WindowLayout` | address layout, population and placement order of a window | |
| `DirectHomes` | `DirectAttachedRemapper` | `CausalTraffic`, `HbfGeometry`, `WindowLayout` |
| `SlotLayout` | `Placement` of a native SGLang run | `WindowLayout` |
| `MCBlockPool`, `MCKvClients`, `MCBatchGraph`, `MCServing`, `MCSession`, `MCRecovery`, `MCMemorySystems` | instances and workloads for TLC | |

**BlockPool.** `references`, `nextUnused`, `freeRanges`, `freeEnds` and
`freeStarts` are the attributes of the class (absent dictionary keys are
`Absent`, the heap is a bag: only its least element is ever read). `busy`,
`asked`, `count` and `blocks` are the locals of a running `allocate`. `retain`
and `release` take lists and treat one block after the other, so a list is that
many steps; a call that raises changes nothing and is no step. Rebuilding a
dictionary to give back memory changes no value and is not a step either. The
pool is `busy` during an allocation because the code is sequential; the loop is
split so that what it relies on (a heap that is never empty while a range is
left) can be stated.

**KvPlacement.** The state of the plane is a record: counts of both pools, block
tables by ordinal and layer, the cache as a sequence from oldest to newest,
`nextOrder`, the pending reservation, and a clock for the TTL. Each method is an
operator from a state to the state it leaves, whole: `Reserve` evicts, swaps
out, swaps in, grows and publishes in the order of the code. Pools give out the
lowest free blocks, which is what `BlockPool` is proved to do. A request's tokens
are abstracted to the identity of each full prompt block (`Content`); the hash
chain of `block_keys` is the sequence of identities up to a block. Every model
has the same number of layers, so budgets are counted in blocks.
*Ghost data*: `hotData` and `coldData` remember what was last stored in each
block (whose tokens, which ordinal and layer, how many), so that "finds its own
tokens" can be said. They are written where the code emits writes: migrations
copy when planned, the appends of a batch when it is executed. `Settled` forgets
the data of free blocks, which nothing may read.

**KvClients.** `AdmitRequest`, `ReserveSlice` (a batch grows slice by slice, as
the engine's admission loop does it), `PreemptRequest`, `Leave`, `RunBatch`, in
any order, and `AdmitToBatch`: a request admitted while a batch is being built
joins that batch or is released at once. This one rule of the engine is kept
because the prefix blocks such a request is admitted with may be unwritten; a
client that kept the request waiting could have those blocks swapped out before
the batch writes them. Requests not in a batch stay in HBM, from where a reservation for
others may migrate them. This is the caller for which `_plan`'s choice of
victims matters; the engine only leaves a request waiting after preempting it.

**BatchGraph.** `KvPlacement` moves the ghost data when it plans a migration and
writes a batch's appends in slice order. The code does neither: it emits
transactions, ordered only by what each depends on. Here they run one by one in
every allowed order on `hotMemory` and `coldMemory`, with the plane of
`KvClients` beside them as the statement of what those should hold.
`migrations` and `fences` are `_pending_migrations` and `_cold_block_fences`;
`Graph` emits, in the order of `map_batch`, a fetch and a store for each run of
each layer of each migration, the barrier after them, then for each layer the
operations of `compile`: appends, context reads, the computation. `SubmitBatch`
maps and submits; `Transact` runs a transaction whose dependencies have run. The
next batch is planned once the completion barrier has run (`execute` makes it the
frontier), while stores to the cold tier may still be under way. A block is the
grain of the memory: an append to a partly filled block keeps what it had.

**ServingEngine.** `kv` is the plane; `processed`, `emitted`, `prefillTarget`
are the fields of `_RequestState`; `iteration` holds the locals of
`_next_schedule` (the loop's remaining requests in `todo`, the selected slices,
the slice on offer, the budget). One action per decision: open an iteration
(`StartIteration`), skip, offer and select a running request (`SkipRunning`,
`OfferRunning`, `SelectRunning`), preempt (`PreemptYoungest`), reserve
(`ReserveRunning`), the admission loop (`SkipWaiting`, `StopAdmitting`,
`ConsiderWaiting`), an iteration without slices (`EmptyIteration`), and compile,
execute and completion (`RunBatch`). Each `HBServeError` that these can raise is
a value of `failure`. Time is abstracted to how many requests have arrived; any
number may arrive while a batch runs, and an idle engine waits for the next one.

**SimulationSession.** `session` holds the attributes of the object; `call` is
the call in progress and how far it is; `requests` and `answers` are the lines in
the two pipes; `engine` is the process, with the log of what it has executed.
`Submit`, `Run`, `Checkpoint`, `HbfWearSnapshot`, `InvalidateHbfPages` and
`CrashOrClose` write a command; the `...Received` actions are the checks of one
line in the order of the code, one action for each kind of call, and `Refused` is
any line they do not accept. The accounts a receipt carries (latency, traffic,
device, quiescence, ...) are abstracted to whether each adds up, contents and
digests to model values. `_force_close` is `Escalate` and `Reap`: end of input,
terminate, kill, wait. Faults are the process dying (`Die`), a line with a wrong
account or a wrong clock (`Corrupt`), and a wait that fails and leaves the answer
in the pipe for the next call (`WaitFails`). A process that hangs needs no action
of its own: no step of `engine` ever has to happen. Killing the process is taken to
end it. `SessionLog` is the same session without process, pipes and receipts:
`engine.batch` and `engine.checkpoint` are its log, `accepted` what the caller
was told.

Two things seen in it that are no disagreement with the documentation: an executed
invalidation whose receipt was lost does not count in the totals of the stop
receipt, and a later invalidation brings the frontiers back in step; without
`read_timeout_s` a process that hangs hangs its caller, so the run sets a timeout.

**Recovery.** `node` is the executor (absent when there is no power), `medium` and
`buffered` are the HBF and what has not reached it, `job` a
`publish_checkpoint` in progress, `files` the directory on the host. Copying the
KV, writing the log, draining, writing the root, taking the image, writing
`epoch-k.json` and replacing `published.json` are one action each; `Interrupt` is
power loss between any two, `Fail` a step that raises. Buffered writes reach the
medium in any order and at the latest with a drain: an interrupted medium is not
read again (the host restarts from an image of a record, `Boot`), so the order
matters to `RootAfterData`. `Restore` accepts what
`restore_checkpoint` accepts: the published epoch or a staged epoch right on top of
it, whose schedules replay to its progress; `Recompute` is one prefill of the
acknowledged context. A request has one page of KV per token.
Seen in it: a publication that fails after its data checkpoint cannot be retried
(the name of the checkpoint is used); an image without a record blocks every later
publication in its directory; a medium with two staged epochs on top of the
published one is refused; power lost between `epoch-k.json` and the replacement
leaves `published.json` at the epoch before. The payload of the root, torn writes
and several output directories are left out; `load_external_weights` is
chunked in the code and is no step of its own here; an admission without progress
is merged into the first slice of the request.

**CausalTraffic and the memory systems.** The remappers, the backend and the model
cache have one thing in common: decisions about slots, homes and credits are taken
in the order of the trace, long before any transaction runs, and only the
dependencies of the transactions keep an access from the wrong data. So
`CausalTraffic` has three variables: `trace`, the canonical accesses and barriers
of the batch; `traffic`, the transactions emitted with everything each comes
after, and `cells`, what each location holds in program order and the copies that
brought it there; `home`, the state of the remapper. `DemandsServed` says that
program order gives every read the newest data of its address, from wherever it is
served; `NoRace` that any order the dependencies allow gives the same: two writes of
a location are ordered, and a write and a read of it whose data is used.
`DependenciesKnown` says that what is waited for in a later batch was named in
the retain list of its own. A join barrier is the set of what it joins, and links
between media have no location and are left out.

* `BackingCache`: `resident` are the lines with their dirty pages, `slotRelease`,
  `streamRelease` and `backingRelease` what a slot, a staging slot and a unit of
  the backing store have to wait for, `credits` the read-ahead window, `pool`
  and `minFreq` the LFU buckets with the cached minimum, which a search raises to the
  bucket it finds (`Raised`). `Segment` is one unit of
  an access: `Hit`, `Stream` (not admitted), or `Promote` (`TakeSlot`, then
  `FillUnit` or, for a store of a whole unit, `Overwrite`). `CacheBatch` is the
  end of a batch, `CacheFinalize` the flush. `OverwritesWait` restricts the trace: a
  store of a whole unit follows a barrier after all that came before; finding 3 is
  what happens otherwise. `WindowHolds` is stated on the dependency order
  (among any chunks too many for the window one waits for the install of another)
  for chunks of full size: a short last chunk of the space gives back fewer bytes
  than a full one takes.
* `PeerHomes`: `units` with their slot or home, what was written of each, and the
  last transaction; `Demote` moves the unit issued least recently to HBF,
  `Preflight` is the walk over the whole trace before any of it is remapped.
* `NativeCache`: `pages` are the entries with valid and dirty sectors, `slotReady`,
  `staging` and `backing` the transactions a slot, buffer or page waits for.
  `RunBatch` frees, writes what is appended, reads the context, cleans in the
  background; `Submit` ends the batch when its foreground has completed while some
  of the rest goes on; `Release` lets slots and pages die, with the fence that an
  invalidation on HBF brings. One layer, no weights, KV outside HBM; the rows of a
  batch are merged; the gap between batches is a batch in which only what is in
  flight goes on.
* `ModelCache`: the layout of every object over the media, `_ExtentAllocator`
  (`AllocateExtent`, `ReleaseExtent`), `_activate_model`, the copy of a model into
  its extent (`Install`) and reads by pieces of stripes. The regions of workspaces
  and KV are only bounded. Seen in it: an extent whose length is no multiple of the
  stripe leaves the next one off the stripe; the pieces are exact all the same.
* `HbfGeometry`, `WindowLayout`, `DirectHomes` and `SlotLayout` are arithmetic:
  closed forms of the code against the same thing counted byte by byte. The hash
  that rotates stripes is any function. `DirectHomes` also runs accesses through
  its homes. The three ways `peer.py`, `recovery.py` and `backend.py` split a
  transfer over stacks are shown to agree. In `SlotLayout` only a cut through the KV
  pool is rounded to a whole number of pages: a pool that fits in HBM may end anywhere.
  `PageSlotsOf` looks its arena up as the bisection does.

Definitions named *Mutant* or *Variant with a bug* are the same code with one
plausible mistake, used to see that each property would notice it. No
specification refers to them.

## 3. Runs

| run | module / cfg | distinct states | shows |
|---|---|---|---|
| `BlockPool` | `MCBlockPool` | 135,344 | index exact, tombstones bounded, collected in order, allocation answered, refinement of `KvPoolSpec` |
| `KvClients` | `MCKvClients` | 338,017 | counts, contents, cache coherence and capacity under any order of calls |
| `BatchShared` | `MCBatchGraph`, `BatchShared.cfg` | 97,813 | two layers, a shared prefix: a hit on blocks the batch is about to write, a swap-out and swap-in of one request in one batch; contexts are read, batches finish |
| `BatchMoves` | `BatchMoves.cfg` | 399,419 | three requests over three batches: HBM and cold blocks reused in the batch that frees them, cold stores that outlive their batch; no race, memory follows the plane |
| `ServingCold` | `MCServing`, `ServingCold.cfg` | 7,324 | the engine with a small cold tier: swap-out and recompute; nothing raises or leaks, contexts survive, age order, every request completes |
| `ServingTooLarge` | `ServingTooLarge.cfg` | 4,262 | a request that outgrows the pools: given up only when it has to be |
| `Session` | `MCSession` | 693,265 | a session implements its log; stops are complete, frontiers advance, every call returns, no process is left |
| `Recovery` | `MCRecovery` | 1,804,347 | contexts survive, what is published can be restored, roots come after data, publications advance |
| `MemorySystems` | `MCMemorySystems`, `MemorySystems.cfg` | 464,445 | each memory system: reads served, no race, known dependencies, victims found, window, durability, homes and geometry |
| `ServingLostTarget` | `ServingLostTarget.cfg` | violation | finding 1 |
| `ServingPendingHits` | `ServingPendingHits.cfg` | violation | finding 2 |
| `CacheOverwrites` | `CacheOverwrites.cfg` | violation | finding 3 |

**One run for several systems.** The modules on `CausalTraffic` share its three
variables, so `MCMemorySystems` is the disjunction of their specifications: a
behaviour is that of one system, named in `home.system`, and a property of one
system is true of the others' behaviours for want of its system. The systems
without steps of their own (`HbfGeometry`, `WindowLayout`, `SlotLayout`, and
the homes of `DirectHomes`) are checked in their initial states, one for each input.
`Durable` and `HomesExact` are conjunctions of what each module says of itself.

**Bounds.** Five pool blocks let a released block touch free ranges on both
sides with something left elsewhere, counts up to 2 tell shared from last
release, and slack 2 instead of 64 lets the heap reach its limit and be rebuilt.
`KvClients` bounds admissions (3) and batches (2) of a behaviour; three requests
share two prefix blocks, the HBM pool of 8 holds less than all of them with two
layers, the cold pool of 4 one request or so, the cache budget of 4 two of the
five keys, and a TTL of one batch makes entries expire between lookup and
publication. It sets `CHECK_DEADLOCK FALSE` because these bounds end behaviours.
`CacheYieldsToRequests` says when a slice may be refused: an entry that another hot
request reads is never evicted (`_plan` skips it), not even when that reader is to be
swapped out and the block would be free after both. So the promise is capacity less
these entries; if the bound leaves them out, TLC finds a slice refused for which there
would be room.
`BatchShared` and `BatchMoves` split what one instance cannot hold: the first has
tables of two blocks (runs longer than one), two layers, prefetch depth 1 and
sharing in two batches; the second has requests of one block in pools of two, so
that every migration reuses a block, in three batches. They too set
`CHECK_DEADLOCK FALSE` because the bounds of the client end behaviours.
The serving workload has five requests of one group and two of a second, two
models, shared, partly shared and unshared prefixes; pool, cold tier, budgets and
chunk are chosen so that each of these happens: prefill in chunks, chunk cut by
the budget, preemption of a selected and of an unselected request and of the
request on offer itself, swap-out, recompute, resumption, hit in the cache, hit
on a pending entry, refused first slice of a new request, and both group
changes. `ServingCold` has a cold tier that keeps the two preemptions of finding 1
apart. `ServingTooLarge` sets `CHECK_DEADLOCK FALSE`
because `failure` ends the run there; in the other serving runs an engine that
is not done can always step.

`Session`: three calls, two faults and a clock up to 3, one content that callers of
`run` use and one that a caller of `submit` gives the number 0, which `run` gives its
first batch; two faults are a late answer and a death on top of it, or two answers
left in the pipe. The actions of the process go as far as the caller's calls let
them, `Closed` lets a closed session stutter, and deadlock is checked.
`Recovery`: two requests, one that emits with each of its two tokens and one that is
still prefilling with its only one; an arena of six pages is exhausted by the second
or the third epoch; three epochs, three starts and one step that raises give a staged epoch on a published
one, restored, published and lost again.
`MemorySystems`, cache: ten addresses in units of 4 (the last one short), chunks and
pages of 2, a window of 4, two slots for each of the four policies, two batches of
two accesses that cross units and pages; decay after four accesses, so that it falls
between an admission and an eviction. `CacheOverwrites` has six stores and reads of
whole units in one batch. Peers: one slot for three units, KV from 2 to 12 of 14
bytes, two homes on HBF or, with the static policy, none. Native: four slots of two
bytes, one of them reserved, on pages of three, so that a token crosses a page, one cached page, each mode and
tier, three batches. Model cache: two catalogs of four models, stripes of 4 or none,
a cache of 12 in which the extents of two models fragment the third's. Geometry: three
stacks, two entries on a mapping page, ranges over three groups. The layouts vary
tiers, capacities, reserves and granularities that do not divide each other.
`Recovery`, `MemorySystems` and `CacheOverwrites` set `CHECK_DEADLOCK FALSE` because
the bounds on epochs, starts, accesses and batches end behaviours.

**Fairness.** The engine is one loop on one thread, so it keeps taking steps
until it returns or raises. `FairSpec` of `ServingEngine` is weak fairness of
`Step`; it is written `[]<>Stopped \/ []<><<Step>>_vars`, which is the
definition of `WF_vars(Step)` with `ENABLED Step` replaced by `~Stopped` (an
engine that is neither done nor stopped by an error can step, which the deadlock
check of the same runs confirms). `BlockPool` assumes weak fairness of the steps of an allocation and
none of callers, and `BatchGraph` weak fairness of running a transaction: the
simulator runs whatever is ready. No fairness is assumed of arrivals: an idle engine takes the
next arrival as its own step, as the code does by moving its clock to it.
`SimulationSession` assumes weak fairness of `CallStep`, the steps of the caller's
own thread: it reads a line that is there, its deadline passes, it waits for a
process it has killed. Nothing is assumed of the process, which may hang at any
point. `Recovery` and the memory systems claim no liveness: when to publish and when
to submit is the caller's choice.

## 4. Findings

1. **Lost prefill target** (`engine.py:243`). A request preempted by recompute
   that is preempted by recompute again while its context is being re-fed gets
   `prefill_target = prompt_tokens`: what it had generated is forgotten, and the
   run later stops with a frontier error. The comment above promises that
   "prompt or prompt + generated so far" is re-fed.
   `DiscardedContextIsRefed` is violated in `ServingLostTarget`.
2. **Pending blocks are visible** (`placement.py:1040`, `prefix.py:55`). A
   request can be admitted with prefix blocks that are written only by the batch
   under construction, where `docs/prefix-caching.md:19` says blocks become
   visible only after the batch has written them. Within the synchronous batch
   appends precede reads, so no request reads wrong data (`ContextIntact`); the
   documented rule is what does not hold. `HitsAreWritten` is violated in
   `ServingPendingHits`.
3. **Unordered write-backs** (`windows/remap.py:1528`). A store of a whole unit
   that is not cached does not wait for the write-back of the unit that may still
   be under way (`_backing_release`), as a fill does (line 1546). When the unit is
   evicted again, its second write-back is not ordered after the first, and the
   backing store may keep the older data. The class says it preserves
   "explicit address-version, cache-slot, and architectural-demand dependencies"
   (line 684). `NoRace` is violated in `CacheOverwrites`; `MemorySystems` checks it
   for traces in which such a store comes after everything before it.

Not findings, but worth knowing: without a cold tier a request that outgrows
the whole HBM pool preempts itself, recomputes and preempts itself again without
end. `EveryRequestCompletes` is therefore checked for requests that fit the pool.
What was seen of sessions and recovery is in section 2.

## 5. Proofs

**BlockPoolProofs** proves, for every `Capacity`, `MaxReferences` and
`TombstoneSlack` in the assumptions of `BlockPool`:

* `TypeCorrect`: `Spec => []TypeOK`;
* `IndexCorrect`: `Spec => []IndexInv`, the index describes the free blocks;
* `CollectsAscending`: `Spec => CollectedAscending`;
* `TombstonesStayBounded`: `Spec => []TombstonesBounded`, the heap is bounded by the
  free ranges and the slack;
* `PoolRefinement`: `Spec => ImplementsPool`.

Neither of the first two is inductive alone. That `TakeUnused` stays inside the
pool needs the number of blocks in use: `AllocationInProgress` says that held
blocks and those still needed fit in the capacity, and `IndexExact` that with no
range left the held blocks are exactly those below the frontier. Conversely
`IndexExact` survives a release only because ranges are maximal
(`RangesMaximal`) and the dictionaries mirror each other (`EndsMirrorRanges`):
otherwise the entries deleted while merging could belong to other ranges. So
`TypeOK /\ IndexInv` is the inductive invariant. Its conjuncts are the named
parts of `IndexInv`; the proof has one lemma per action and one step per part.
The bound on the heap follows from it and from the rebuilding that ends a release;
that a heap has as many entries as its bag has in sum is a fact about a fold (below).
The refinement follows from the same invariant: only `AllocateReturn`, `Retain`,
`ReleaseShared` and `ReleaseLast` change the abstract state, and the blocks
collected are the lowest free ones since every iteration takes from the lowest
range.

**SessionProofs** proves, for every bound and any contents (assuming that the bounds
are naturals, `BoundsAssumption`, the options Booleans, `OptionsAssumption`, and
the identifiers given to `submit` at most `MaxCalls`, `SubmitAssumption`):

* `InvIsInvariant`: `Spec => []Inv`, the inductive invariant;
* `StopIsCompleteHolds`, `NoProcessLeftHolds`: two invariants of the run;
* `FrontiersAdvanceHolds`: `Spec => FrontiersAdvance`;
* `ImplementsLogHolds`: `Spec => ImplementsLog`, the refinement of `SessionLog`.

What the caller accepted has to be what was executed, although it only sees lines
that may be late, left over or corrupted. The invariant therefore speaks of every
line in the pipe: a batch's or checkpoint's line names its entry of the log by
number and carries what is in that entry, and a closing line the length of the log
at the end. With it, the caller's receipts are the beginning of the log (the
sequence number is their length), so a line that passes the comparison with
the sequence number can only be that of the next entry. What waits in the other
pipe can be logged (`RequestsLoggable`), a session ends once and has seen or brought
about the end of its process (`EndsOnce`), and the completed frontier is at most the
issued one. In the refinement the executions are steps `Execute`, the receipts of
batches and checkpoints `Accept`, the ends of a session `Close`, and every other step
stutters. None of these theorems rests on the accounts of a receipt, which are there
to find errors of the simulator.

**RecoveryProofs** proves, for any finite set of requests and any arena, epochs,
starts and failures:

* `EpochsInOrder`: `Spec => []Inv`: the epochs with an image are an initial segment
  of the numbers, every record and what is published are among them, and the next
  epoch of the executor follows one of them;
* `PublicationAdvancesHolds`: `Spec => PublicationAdvances`;
* `EpochsAreKept`: `Spec => []DataInv`, the invariant on the data, and from it
  `ContextSurvivesAlways`, `PublishedIsRestorableAlways` and `RootAfterDataAlways`.

That a number cannot be published twice is not a matter of the executor, which may
be started from any record, but of the directory: an epoch that has an image is not
begun again. The invariant carries this through a job in progress, whose number is
that of its executor. `DataInv` says where the data of an epoch is: the log and the KV
extents that a body names are on the medium of each image, root and node that names
the body (`FilesSound`, `NodeSound`, `MediumSound`), what a job copies lies behind
everything named (`FreshMedium`, `JobSound`), and the schedules logged replay to the
progress recorded. Replaying is a fold over schedules, the room of an extent a fold
over requests.

**KvPlaneProofs** proves what each operation of the plane does, for all requests,
contents, block sizes, layers, pools, budgets and TTLs that meet
`SizesAssumption` and `RequestsAssumption`. The invariant of the plane is `PlaneOK`:

* a block is once in a table (`TablesDistinct`), two requests share a block in HBM only
  at an ordinal and layer where both read the same key (`SharedByKey`) and never in the
  cold tier (`ColdApart`);
* entries of the cache have different keys and blocks, and a request has a block of an
  entry only where it reads the key of the entry (`CacheOK`): otherwise a hit
  could put a block in a table twice, and one release would take two counts off;
* a count in HBM is the number of tables that hold the block, plus one if an entry does
  (`HotCounted`), in the cold tier it is one or none (`ColdCounted`);
* the cache keeps its budget (`CacheFits`), and no two requests have the same age
  (`OrdersDiffer`): the order of the candidates would not be one otherwise.

There is one theorem for each operation: `AdmitOK`, `PublishOK`, `ReserveOK`,
`PreemptOK`, `ReleaseOK`, `ExecuteOK`. The longest is `ReserveOK`: the plan counts the
blocks that entries and victims will give back (`Reclaimed`) before it evicts and moves
anything, and counts a block once although several of them may hold it, so that it has
to be shown that the blocks are free after the evictions and swap-outs, that every victim
still fits the cold tier when its turn comes, and that the swap-ins and slices,
whose needs were summed up before, find their blocks one after the other while the
publications in between only ever free more. `CountsOK` derives `CountsAreHolders`, the
property of the runs, from `PlaneOK`.

What the blocks hold is a second invariant, `DataOK`, relative to the progress `g` of the batch
under construction (`ProgressOK`): `g.batch` has the requests of its slices, `g.todo` those whose
slices are not written yet, `g.done[r]` the tokens written for r and `g.reach[r]` those that will be when the
batch has run. A block is due (`DueBlock`) if a slice to come fills it.

* `TablesRight`: a request reads its own tokens in every block that holds any of them, or it is in
  the batch and the block is due: a request admitted behind another of the same
  batch may already share a block that the other one is about to write;
* `SharesRight`: a block that two requests share is full for both at the end of the batch, and for
  one of them it is full already, so that at most one slice writes it: without this an
  append of one request would change what the other reads;
* `CacheRight`: every block of an entry holds what the key stands for or is due, and a request
  has it only where it will be full;
* `PendingDue`: a key marked pending is completed by a slice of the batch, so that
  nothing stays pending after it.

`ReserveData` shows that a reservation keeps this through its four folds (evictions, departures,
arrivals, and growths with a publication behind each), where blocks change hands and data
moves between the tiers, and `ExecuteData` that a batch turns what is due into data: slice after slice
is written, then the completed keys are published, and nothing is due or pending in the end.
Admission, publication, release and preemption have a lemma each (`AdmitData`, `PublishData`,
`ReleaseData`, `PreemptData`).

**KvClientsProofs** proves `ClientInv` invariant (`ClientInvariant`): `PlaneOK`, each
slice of the batch is of another live request, and the batch can be mapped. From it:
`ReferencesExactAlways`, `ReservedStaysMappableAlways` and `CacheWithinBudgetAlways`. With the data
it is `DataInv` (`DataInvariant`): `ClientInv`, and `DataRight` for the slices reserved and the tokens
processed so far, each slice beginning where its request stands. From it `ContextIntactAlways`, that
every live request finds its own tokens between batches, and `CacheCoherentAlways`, that every
entry then holds what its key stands for, none is pending, and the budget is kept.

**ServingProofs** proves `EngineInv` invariant (`EngineInvariant`), for any number of
requests, groups, models, chunks and budgets (`PolicyAssumption`,
`GroupsAssumption`). It has four parts: the types; `PlaneOK` with the slices selected so
far; `LineInv`, the running and the resumed are in age order, the running before the
resumed, both before every unfinished request of the model that is still to come, all of
the running have hot blocks, and all but the last together want less than the budget;
and `IterationInv`, what holds at each decision of `_next_schedule`: the slices are those
of a front of the running in order, the budget is what they leave, and the loop has the
rest before it. From it:

* `NothingLeaksAlways`: the counts are exact at every decision, and when all is
  done only the cache holds blocks;
* `RunningStaysHotAlways`: what a reservation evicts and moves never belongs to a running request;
* `PreemptedInAgeOrderAlways`: a preemption takes the youngest, and the preempted come back
  before anything younger is admitted;
* `BatchServesAllRunningAlways`: a batch has a slice for each running request that the
  budget reaches. It needs the last part of `LineInv`: the running request at which the
  budget ends is the last one;
* `ContextIntactAlways`, from `EngineDataInv` (`EngineDataInvariant`): `EngineInv`, and `DataRight` for
  the slices that are reserved. A batch is only reserved when all its running requests have been
  selected, so nothing is due while the slices are collected and preemptions still happen
  (`OpenRight`); after that the admissions join it one at a time, each with the slice that its
  prefix hit leaves to be computed.

**Folds.** The loops of the code are folds over sequences and sets in the models. A fold
of the community modules is a function that chooses itself from an equation, so the
first thing to prove is that there is such a function. `FoldTheorems`
does it by induction over the length, stated with sets of numbers (`Inductive`), and
then proves that the fold over k + 1 elements is a step from the fold over k
(`FoldStep`); a proof about a loop then needs the set of lengths up to which its
invariant holds, and `PrefixInduction`. `Inductive` is the hypothesis of the lemmas in
`FoldTheorems` and proved in `FoldSetTheorems` (`InductionHolds`): a proof module takes one instance
of `FoldTheorems` for each loop, and every one of them would carry the library of
well-founded induction. `FoldOverRemove` says that in a sum any element may be the last.

In the model, `Keep` and `Ascending` stand for the filters and sorted lists of the code where the community
modules offer `SelectSeq` and `SortSeq`: these are `RECURSIVE`, and the provers get
nothing from a module that reaches such a declaration.

**Only model-checked**, and why:

* liveness (`AllocationAnswered`, `BatchDone`, `EveryRequestCompletes`,
  `EveryCallReturns`), which is out of the prover's reach;
* `CacheYieldsToRequests` and `CapacityErrorIsGenuine`: that the cache gives back enough needs
  a count of all blocks by holder;
* `NeverRaises`: it fails for the workload of finding 1, so that it is no theorem; it holds
  for workloads in which a prefill is not preempted twice by recompute;
* `BatchGraph` (its graph is built by folds over slices, layers and runs of blocks, and
  its properties quantify over paths in it) and the memory systems on
  `CausalTraffic` (one access is a fold over units, pages and chunks): the
  fold theorems would apply, the invariants are not worked out;
* the arithmetic of `HbfGeometry`, `SlotLayout` and the homes, closed forms with several
  divisions, beyond what the SMT solver decides.

## 6. Plan

Done: the pool with its specification and proofs; plane and cache with the theorems about every
operation and its data; clients and engine with their invariants; batch graph; model cache; session with its
specification and proofs; recovery with the proofs of its epochs and data; the native backend; the
three remappers; layouts and geometry.

Left, in this order:

1. Proofs: the blocks of the plane counted by holder (`CacheYieldsToRequests`,
   `CapacityErrorIsGenuine`), then `NoRace` of `BatchGraph`; `HomesExclusive` of `PeerHomes`
   and the disjoint extents of `ModelCache`.
2. Weights and KV of several layers in `NativeCache`.
3. `CausalTraffic` under the trace generators (below), instead of any trace.

Order: what a wrong result would hide longest comes first.

## 7. Not modelled

* Trace generators (`windows/*_trace.py`) and `experiment.py`: functions of a
  configuration, whose traces are within what the remappers are checked for, with one
  reservation: once the ring of `windowed_kv_trace` has wrapped, a phase may hold a
  read of history and the overwrite of it with no dependency between them, which is
  up to the trace and not to the remapper.
* Validation of configurations and traces, generation of workloads, contracts,
  timing models, metrics, reports, digests and provenance; command line and assembly
  of a run; the SGLang adapter: functions without state, or I/O.
* Of the operation ledger of the compiler only the dependencies of the KV accesses
  are modelled; embeddings, experts and links add dependencies and move no KV, the
  conservation of its bytes is left out. Weights are read in `ModelCache`.
* HBFSim itself is not in the repository. It appears as the executor that runs a batch
  (`Written`), runs its transactions in any order (`Transact`, and the order that
  `NoRace` quantifies over), answers a session, or buffers and drains writes.
