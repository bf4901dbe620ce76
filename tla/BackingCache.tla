---------------------------- MODULE BackingCache ----------------------------
(***************************************************************************)
(* HbmFrontedBackingRemapper (windows/remap.py): HBM as a write-back cache *)
(* of migration units in front of a backing store (HBF or external) that   *)
(* holds the whole address space.  Reads that miss are filled chunk by     *)
(* chunk ahead of their demand, within a window of credits; units that are *)
(* not worth a slot stream through a ring of staging slots; dirty pages go *)
(* back when their unit is evicted and, at the end, in a flush.            *)
(*                                                                         *)
(* home.cache is the state of the object.  Units are given slots in the    *)
(* order of the trace, long before the transactions run: what makes this   *)
(* work is which transactions each slot, unit and credit waits for.        *)
(***************************************************************************)
EXTENDS CausalTraffic

CONSTANTS
    SpaceBytes, Granularity, ChunkBytes, PageBytes, WindowBytes,
    HbmBytes,           \* HBM left after the reservation, for each policy
    Policies,
    KvUnits,            \* units of kv_priority_ranges
    DecayEvery,
    CacheAccesses,      \* <<address, bytes>> of the accesses of the trace
    OverwritesWait,     \* a write of a whole unit follows a barrier after all before it
    MaxAccesses, MaxBatches   \* bounds: accesses in a batch, batches

ASSUME GeometryAssumption ==
    /\ {SpaceBytes, Granularity, ChunkBytes, PageBytes, WindowBytes} \subseteq Nat \ {0}
    /\ SpaceBytes % PageBytes = 0 /\ ChunkBytes % PageBytes = 0
    /\ Granularity % ChunkBytes = 0 /\ WindowBytes % ChunkBytes = 0
    /\ WindowBytes >= Granularity
ASSUME PolicyAssumption ==
    Policies \subseteq {"address_only_lru", "decayed_lfu", "threshold_promotion", "class_aware"}

Units == 0 .. (SpaceBytes - 1) \div Granularity
Addresses == 0 .. SpaceBytes - 1
StagingBytes(policy) == IF policy = "address_only_lru" THEN 0 ELSE WindowBytes
CacheSlots(policy) == (HbmBytes[policy] - StagingBytes(policy)) \div Granularity

ASSUME CapacityAssumption ==
    \A p \in Policies : CacheSlots(p) > 0 /\ WindowBytes <= CacheSlots(p) * Granularity

Backing(address) == <<"backing", address>>
Hbm(slot, offset) == <<"hbm", slot, offset>>
Staging(slot, offset) == <<"staging", slot, offset>>

(* resident: lines from the least to the most recently used.               *)
(* pool: residents an LFU eviction may choose from, with their frequency,  *)
(* in the order they entered their bucket; minFreq: the cached minimum.    *)
(* ahead: ghost, the fills of read-ahead of the batch and their installs.  *)
CacheInit ==
    /\ \E policy \in Policies :
         home = [system |-> "cache", policy |-> policy, resident |-> <<>>, nextSlot |-> 0,
                 slotRelease |-> [s \in 0 .. CacheSlots(policy) - 1 |-> {}],
                 streamRelease |-> [s \in 0 .. (StagingBytes(policy) \div ChunkBytes) - 1 |-> {}],
                 nextStream |-> 0,
                 backingRelease |-> [u \in Units |-> {}],
                 credits |-> <<>>, creditBytes |-> 0,
                 touches |-> [u \in Units |-> 0], sinceDecay |-> 0,
                 pool |-> <<>>, minFreq |-> 0,
                 ahead |-> {}, batches |-> 0, finalized |-> FALSE]
    /\ traffic = NoTraffic(Preloaded(Addresses, Backing))
    /\ trace = <<>>

UnitBytes(unit) == Min({Granularity, SpaceBytes - unit * Granularity})

----------------------------------------------------------------------------
(* Frequencies.                                                            *)
Tracked(c, unit) ==
    \/ c.policy = "decayed_lfu"
    \/ c.policy = "class_aware" /\ unit \notin KvUnits

BucketRemove(c, unit) == [c EXCEPT !.pool = SelectSeq(@, LAMBDA e : e.unit # unit)]

BucketAdd(c, unit, freq) ==
    [c EXCEPT !.pool = Append(@, [unit |-> unit, freq |-> freq]),
              !.minFreq = IF c.pool = <<>> \/ freq < @ THEN freq ELSE @]

(* Mutant: the minimum is kept when counts are halved. *)
DecayKeepsMinimum(c) ==
    LET halved == [u \in Units |-> c.touches[u] \div 2]
    IN  FoldLeft(LAMBDA d, e : [d EXCEPT !.pool = Append(@, [e EXCEPT !.freq = Max({halved[e.unit], 1})])],
                 [c EXCEPT !.touches = halved, !.sinceDecay = 0, !.pool = <<>>], c.pool)

Decay(c) ==
    LET halved == [u \in Units |-> c.touches[u] \div 2]
    IN  FoldLeft(LAMBDA d, e : BucketAdd(d, e.unit, Max({halved[e.unit], 1})),
                 [c EXCEPT !.touches = halved, !.sinceDecay = 0,
                           !.pool = <<>>, !.minFreq = 0],
                 c.pool)

NoteAccess(c, unit) ==
    LET counted == [c EXCEPT !.touches[unit] = @ + 1, !.sinceDecay = @ + 1]
        moved == IF \E i \in DOMAIN c.pool : c.pool[i].unit = unit
                 THEN BucketAdd(BucketRemove(counted, unit), unit, counted.touches[unit])
                 ELSE counted
    IN  IF moved.sinceDecay >= DecayEvery THEN Decay(moved) ELSE moved

LeastFrequency(c) == Min({e.freq : e \in {f \in ToSet(c.pool) : f.freq >= c.minFreq}})

(* A search leaves the cached minimum at the bucket it found.              *)
Raised(c) == IF c.pool = <<>> THEN c ELSE [c EXCEPT !.minFreq = LeastFrequency(c)]

(* Only decayed_lfu looks at the frequencies, and only at capacity.        *)
Admits(c, unit, op) ==
    \/ op = "W"
    \/ c.policy = "address_only_lru"
    \/ /\ c.policy = "decayed_lfu"
       /\ \/ Len(c.resident) < CacheSlots(c.policy)
          \/ c.touches[unit] > LeastFrequency(c) + 1
    \/ c.policy \in {"threshold_promotion", "class_aware"} /\ c.touches[unit] >= 2

Judged(c, op) ==
    IF op = "R" /\ c.policy = "decayed_lfu" /\ Len(c.resident) = CacheSlots(c.policy)
    THEN Raised(c) ELSE c

VictimUnit(c) ==
    IF c.policy \in {"address_only_lru", "threshold_promotion"} \/ c.pool = <<>>
    THEN Head(c.resident).unit
    ELSE SelectSeq(c.pool, LAMBDA e : e.freq = LeastFrequency(c))[1].unit

----------------------------------------------------------------------------
(* Lines and their dirty pages.                                            *)
IsResident(c, unit) == \E i \in DOMAIN c.resident : c.resident[i].unit = unit
LineOf(c, unit) == SelectSeq(c.resident, LAMBDA line : line.unit = unit)[1]
WithoutLine(c, unit) == SelectSeq(c.resident, LAMBDA line : line.unit # unit)

(* Half-open byte range of the unit; the merged page ranges are a set.     *)
MarkDirty(line, first, past) ==
    [line EXCEPT !.dirty = @ \cup (first \div PageBytes .. (past - 1) \div PageBytes)]

PairsOf(slot, offsets, unit) == {<<Hbm(slot, o), Backing(unit * Granularity + o)>> : o \in offsets}
BytesOf(pages) == UNION {p * PageBytes .. (p + 1) * PageBytes - 1 : p \in pages}

(* Writes the dirty pages of a line back; the result's `done` are the      *)
(* writes of its chunks.                                                   *)
WriteBack(t, line, release) ==
    FoldLeft(LAMBDA r, pages :
                 LET copied == Copy(r.t, PairsOf(line.slot, BytesOf(pages), line.unit), release, {})
                 IN  [t |-> copied, done |-> r.done \cup Copied(copied)],
             [t |-> t, done |-> {}],
             SetToSeq(Chunks(line.dirty, ChunkBytes \div PageBytes)))

(* A slot for a unit that is admitted: a fresh one, or that of a victim,   *)
(* which is ready when the last user of the slot, or its write-back, is    *)
(* done.                                                                   *)
Evict(t, c, line) ==
    LET release == c.slotRelease[line.slot]
        evicted == [BucketRemove(c, line.unit) EXCEPT !.resident = WithoutLine(c, line.unit)]
        after(written) ==
            [t |-> written.t,
             c |-> [evicted EXCEPT !.backingRelease[line.unit] = written.done],
             slot |-> line.slot, ready |-> written.done]
    IN  IF line.dirty = {}
        THEN [t |-> t, c |-> evicted, slot |-> line.slot, ready |-> release]
        ELSE after(WriteBack(t, line, release))

TakeSlot(t, c) ==
    IF Len(c.resident) < CacheSlots(c.policy)
    THEN [t |-> t, c |-> [c EXCEPT !.nextSlot = @ + 1], slot |-> c.nextSlot, ready |-> {}]
    ELSE Evict(t, Raised(c), LineOf(c, VictimUnit(c)))

----------------------------------------------------------------------------
(* One unit's part [first, past) of an access a = [op, deps, early]: deps  *)
(* is what the access waits for, early what a transfer ahead of it waits   *)
(* for.  r carries the traffic, the cache and the completions so far.      *)
Offsets(unit, first, past) == {x - unit * Granularity : x \in first .. past - 1}
Served(slot, unit, first, past) ==
    {<<x, Hbm(slot, x - unit * Granularity)>> : x \in first .. past - 1}

Touched(line, a, first, past) ==
    LET base == line.unit * Granularity
    IN  IF a.op = "W" THEN MarkDirty(line, first - base, past - base) ELSE line

Hit(r, a, unit, first, past) ==
    LET line == LineOf(r.c, unit)
        user == {r.t.next}
    IN  [t |-> Demand(r.t, a.op, Served(line.slot, unit, first, past),
                      a.deps \cup r.c.slotRelease[line.slot]),
         c |-> [r.c EXCEPT
                   !.resident = Append(WithoutLine(r.c, unit), Touched(line, a, first, past)),
                   !.slotRelease[line.slot] = user],
         done |-> r.done \cup user]

ChunksOf(first, past) ==
    [k \in 1 .. (past - first + ChunkBytes - 1) \div ChunkBytes |->
        first + (k - 1) * ChunkBytes .. Min({first + k * ChunkBytes, past}) - 1]

(* A read that is not admitted, page by page through the staging ring; a   *)
(* slot is free again once its data was read.                              *)
StreamChunk(r, a, unit, first, past, chunk) ==
    LET slot == r.c.nextStream
        at(x) == Staging(slot, x - Min(chunk))
        filled == Copy(r.t, {<<Backing(x), at(x)>> : x \in chunk},
                       a.deps \cup r.c.backingRelease[unit] \cup r.c.streamRelease[slot],
                       a.early)
        user == {filled.next}
    IN  [t |-> Demand(filled, "R", {<<x, at(x)>> : x \in chunk \cap (first .. past - 1)},
                      Copied(filled)),
         c |-> [r.c EXCEPT !.nextStream = (@ + 1) % (StagingBytes(r.c.policy) \div ChunkBytes),
                           !.streamRelease[slot] = user],
         done |-> r.done \cup user]

Stream(r, a, unit, first, past) ==
    LET begin == (first \div PageBytes) * PageBytes
        end == ((past + PageBytes - 1) \div PageBytes) * PageBytes
    IN  FoldLeft(LAMBDA s, chunk : StreamChunk(s, a, unit, first, past, chunk),
                 r, ChunksOf(begin, end))

(* Read-ahead credits, first in, first out: a chunk that does not fit in   *)
(* the window waits for the installs whose credits it takes over.          *)
CreditSum(credits) == FoldLeft(LAMBDA n, credit : n + credit.bytes, 0, credits)
Popped(c, bytes) ==
    Min({k \in 0 .. Len(c.credits) :
            c.creditBytes - CreditSum(SubSeq(c.credits, 1, k)) + bytes <= WindowBytes})

(* Mutant: the chunk that takes a credit over does not wait for its        *)
(* release.                                                                *)
AcquireAtOnce(c, bytes) ==
    LET k == Popped(c, bytes)
    IN  [waits |-> {},
         c |-> [c EXCEPT !.credits = SubSeq(@, k + 1, Len(@)),
                         !.creditBytes = @ - CreditSum(SubSeq(c.credits, 1, k)) + bytes]]

AcquireCredit(c, bytes) ==
    LET k == Popped(c, bytes)
    IN  [waits |-> UNION {c.credits[i].release : i \in 1 .. k},
         c |-> [c EXCEPT !.credits = SubSeq(@, k + 1, Len(@)),
                         !.creditBytes = @ - CreditSum(SubSeq(c.credits, 1, k)) + bytes]]

FillChunk(r, a, unit, first, past, slot, ready, chunk) ==
    LET ahead == a.op = "R"
        credit == IF ahead THEN AcquireCredit(r.c, Cardinality(chunk))
                  ELSE [waits |-> a.deps, c |-> r.c]
        fill == r.t.next
        filled == Copy(r.t, {<<Backing(x), Hbm(slot, x - unit * Granularity)>> : x \in chunk},
                       credit.waits \cup r.c.backingRelease[unit], a.early \cup ready)
        wanted == chunk \cap (first .. past - 1)
        served == Demand(filled, a.op,
                         {<<x, Hbm(slot, x - unit * Granularity)>> : x \in wanted},
                         a.deps \cup Copied(filled))
    IN  [t |-> IF wanted = {} THEN filled ELSE served,
         c |-> [credit.c EXCEPT
                   !.ahead = IF ahead THEN @ \cup {[fill |-> fill, install |-> Copied(filled)]} ELSE @],
         users |-> IF wanted = {} THEN r.users ELSE r.users \cup {filled.next},
         installs |-> Append(r.installs, [release |-> Copied(filled), bytes |-> Cardinality(chunk)])]

(* The credits of a unit are given back, by its installs, after all its    *)
(* chunks have acquired theirs.                                            *)
FillUnit(r, a, unit, first, past, slot, ready) ==
    LET after(filled) ==
            [t |-> filled.t,
             c |-> [filled.c EXCEPT !.credits = IF a.op = "R" THEN @ \o filled.installs ELSE @],
             done |-> r.done \cup filled.users,
             release |-> filled.users
                 \cup UNION {filled.installs[i].release : i \in DOMAIN filled.installs}]
    IN  after(FoldLeft(
            LAMBDA s, chunk : FillChunk(s, a, unit, first, past, slot, ready, chunk),
            [t |-> r.t, c |-> r.c, users |-> {}, installs |-> <<>>],
            ChunksOf(unit * Granularity, unit * Granularity + UnitBytes(unit))))

(* A write of the whole unit needs nothing of the backing store.           *)
Overwrite(r, a, unit, slot, ready) ==
    LET user == {r.t.next}
    IN  [t |-> Demand(r.t, "W", Served(slot, unit, unit * Granularity,
                                       unit * Granularity + UnitBytes(unit)), a.deps \cup ready),
         c |-> r.c, done |-> r.done \cup user, release |-> user]

IsWhole(unit, first, past) == first = unit * Granularity /\ past - first = UnitBytes(unit)

Promote(r, a, unit, first, past) ==
    LET counted(c) == IF Tracked(c, unit) THEN BucketAdd(c, unit, Max({c.touches[unit], 1})) ELSE c
        installed(filled, slot) ==
            LET line == Touched([unit |-> unit, slot |-> slot, dirty |-> {}], a, first, past)
            IN  [t |-> filled.t, done |-> filled.done,
                 c |-> counted([filled.c EXCEPT !.resident = Append(@, line),
                                                !.slotRelease[slot] = filled.release])]
        into(taken) ==
            LET placed == [t |-> taken.t, c |-> taken.c, done |-> r.done]
            IN  installed(IF a.op = "W" /\ IsWhole(unit, first, past)
                          THEN Overwrite(placed, a, unit, taken.slot, taken.ready)
                          ELSE FillUnit(placed, a, unit, first, past, taken.slot, taken.ready),
                          taken.slot)
    IN  into(TakeSlot(r.t, r.c))

Segment(r, a, unit) ==
    LET first == Max({a.first, unit * Granularity})
        past == Min({a.past, unit * Granularity + UnitBytes(unit)})
        missed(judged) ==
            IF Admits(judged.c, unit, a.op) THEN Promote(judged, a, unit, first, past)
            ELSE Stream(judged, a, unit, first, past)
        served(noted) ==
            IF IsResident(noted.c, unit) THEN Hit(noted, a, unit, first, past)
            ELSE missed([noted EXCEPT !.c = Judged(@, a.op)])
    IN  served([r EXCEPT !.c = NoteAccess(@, unit)])

----------------------------------------------------------------------------
(* A transfer ahead of a read may overlap one timed barrier before it, but *)
(* not what that barrier comes after.                                      *)
JitFrontier(op, parents) ==
    UNION {IF op = "R" /\ trace[i].op = "barrier" /\ trace[i].timed
           THEN TerminalsOf(trace[i].parents) ELSE trace[i].terminal : i \in parents}

AccessesOfBatch == Cardinality({i \in DOMAIN trace : trace[i].op # "barrier"})

CacheAccess(op, first, bytes, waits) ==
    LET past == first + bytes
        addresses == first .. past - 1
        parents == Parents(op, addresses, waits)
        a == [op |-> op, first |-> first, past |-> past,
              deps |-> TerminalsOf(parents), early |-> JitFrontier(op, parents)]
        units == first \div Granularity .. (past - 1) \div Granularity
    IN  /\ ~home.finalized /\ AccessesOfBatch < MaxAccesses
        /\ waits => LatestBarrier # {}
        /\ OverwritesWait /\ op = "W" /\ trace # <<>>
              /\ (\E u \in units : IsWhole(u, Max({first, u * Granularity}),
                                     Min({past, u * Granularity + UnitBytes(u)})))
           => waits /\ LatestBarrier = {Len(trace)}
        /\ \E result \in {FoldLeft(LAMBDA r, unit : Segment(r, a, unit),
                                   [t |-> traffic, c |-> home, done |-> {}],
                                   SetToSortSeq(units, <))} :
              /\ traffic' = result.t
              /\ home' = result.c
              /\ Traced(op, addresses, parents, FALSE, result.done)

(* Mutant: the write-backs of evicted units are not retained. *)
RetainedWithoutBacking(c) ==
    UNION (Range(c.slotRelease) \cup Range(c.streamRelease)
           \cup {credit.release : credit \in ToSet(c.credits)})

(* What the batch names in its retain list.                                *)
RetainedByCache(c) ==
    UNION (Range(c.slotRelease) \cup Range(c.streamRelease) \cup Range(c.backingRelease)
           \cup {credit.release : credit \in ToSet(c.credits)})

Submitted(c, retained) ==
    [c EXCEPT
        !.slotRelease = [s \in DOMAIN @ |-> Over(@[s], retained)],
        !.streamRelease = [s \in DOMAIN @ |-> Over(@[s], retained)],
        !.backingRelease = [u \in Units |-> Over(@[u], retained)],
        !.credits = [i \in DOMAIN @ |-> [@[i] EXCEPT !.release = Over(@, retained)]],
        !.ahead = {}, !.batches = @ + 1]

(* The batch is executed; nothing of it is detached.                       *)
CacheBatch ==
    /\ trace # <<>> /\ ~home.finalized /\ home.batches < MaxBatches
    /\ traffic' = Retire(traffic, DOMAIN traffic.nodes)
    /\ home' = Submitted(home, RetainedByCache(home))
    /\ trace' = <<>>

(* finalize: flush what is dirty, in a batch of its own.                   *)
Flush(r, line) ==
    LET after(written) ==
            [t |-> written.t,
             c |-> [r.c EXCEPT !.slotRelease[line.slot] = written.done,
                               !.backingRelease[line.unit] = written.done]]
    IN  IF line.dirty = {} THEN r
        ELSE after(WriteBack(r.t, line, r.c.slotRelease[line.slot]))

CacheFinalize ==
    /\ trace = <<>> /\ ~home.finalized
    /\ \E flushed \in {FoldLeft(Flush, [t |-> traffic, c |-> home], home.resident)} :
          /\ traffic' = flushed.t
          /\ home' = [flushed.c EXCEPT
                         !.finalized = TRUE,
                         !.resident = [i \in DOMAIN @ |-> [@[i] EXCEPT !.dirty = {}]]]
    /\ UNCHANGED trace

CacheSteps ==
    \/ \E op \in {"R", "W"}, access \in CacheAccesses, waits \in BOOLEAN :
            CacheAccess(op, access[1], access[2], waits)
    \/ AccessesOfBatch < MaxAccesses /\ \E timed \in BOOLEAN : Barrier(timed)
    \/ CacheBatch
    \/ CacheFinalize

CacheNext == home.system = "cache" /\ CacheSteps

----------------------------------------------------------------------------
(* A slot holds one unit; the pool of an LFU eviction is exactly the       *)
(* residents it may choose from, and its cached minimum is never above     *)
(* their frequencies, or the search for a victim would not end.            *)
VictimsFound ==
    home.system = "cache" =>
    /\ \A i, j \in DOMAIN home.resident :
            home.resident[i].slot = home.resident[j].slot => i = j
    /\ Len(home.resident) <= CacheSlots(home.policy)
    /\ {e.unit : e \in ToSet(home.pool)}
           = {line.unit : line \in {l \in ToSet(home.resident) : Tracked(home, l.unit)}}
    /\ \A e \in ToSet(home.pool) : home.minFreq <= e.freq

(* Whatever order the transactions run in, the chunks of read-ahead that   *)
(* have been asked for and are not installed never exceed the window.      *)
WindowHolds ==
    home.system = "cache" =>
    \A chunks \in kSubset(WindowBytes \div ChunkBytes + 1, home.ahead) :
        \E x, y \in chunks : x.install \subseteq traffic.nodes[y.fill].before

(* After the flush the backing store alone has all the data.               *)
FlushIsComplete ==
    home.system = "cache" /\ home.finalized =>
        \A x \in Addresses : Cell(traffic, Backing(x)).of = x
=============================================================================
