---------------------------- MODULE NativeCache ----------------------------
(***************************************************************************)
(* HardwareSession (sglang/backend.py): KV slots that SGLang allocates and *)
(* frees live at fixed places of a backing store, behind a write-back      *)
(* cache of pages in HBM with valid and dirty sectors, behind two staging  *)
(* buffers, or directly.  A batch ends at its foreground; write-backs in   *)
(* the background go on while later batches are built, slots are freed and *)
(* their pages die.                                                        *)
(*                                                                         *)
(* KV of one layer; a token may cross a page.  The rows of a batch are     *)
(* merged to what they append and what they read.  A gap in the clock is a *)
(* batch in which only more of what is in flight completes.                *)
(***************************************************************************)
EXTENDS CausalTraffic

CONSTANTS
    PoolSlots,          \* slots of the pool; slot 0 is reserved
    TokenBytes, BackingPage, StageBytes,
    CachePages,         \* capacity of the cache
    BackgroundPages,    \* background_writeback_pages
    NativeModes,        \* "cached", "staged" or "direct"
    NativeTiers,        \* "hbf" or "external"
    NativeRows, NativeFrees,   \* <<past, new>> slots of a batch; slots freed before it
    MaxNativeBatches    \* bound: batches

ASSUME NativeAssumption ==
    /\ {PoolSlots, TokenBytes, BackingPage, StageBytes, CachePages} \subseteq Nat \ {0}
    /\ BackgroundPages \in Nat
    /\ NativeModes \subseteq {"cached", "staged", "direct"}
    /\ NativeTiers \subseteq {"hbf", "external"}

BytesOfSlot(slot) == slot * TokenBytes .. (slot + 1) * TokenBytes - 1
BytesOfSlots(slots) == UNION {BytesOfSlot(s) : s \in slots}
PageOf(x) == x \div BackingPage
PagesOf(bytes) == {PageOf(x) : x \in bytes}
Pages == PagesOf(BytesOfSlots(1 .. PoolSlots - 1))
PageSlots(page) == {s \in 1 .. PoolSlots - 1 : page \in PagesOf(BytesOfSlot(s))}

Kv(x) == <<"kv", x>>
CacheAt(slot, x) == <<"cache", slot, x % BackingPage>>
StageAt(slot, offset) == <<"stage", slot, offset>>

NativeInit ==
    /\ \E mode \in NativeModes, tier \in NativeTiers :
         home = [system |-> "native", mode |-> mode, tier |-> tier,
                 pages |-> <<>>, free |-> {}, nextSlot |-> 0,
                 slotReady |-> [s \in 0 .. CachePages - 1 |-> {}],
                 staging |-> [s \in 0 .. 1 |-> {}], stagingIndex |-> 0,
                 backing |-> [p \in Pages |-> {}], backed |-> {},
                 live |-> {}, foreground |-> {}, batches |-> 0, phase |-> "idle"]
    /\ traffic = NoTraffic(<<>>)
    /\ trace = <<>>

Runs(bytes) == SetToSortSeq(Chunks(bytes, BackingPage * PoolSlots), LAMBDA p, q : Min(p) < Min(q))

----------------------------------------------------------------------------
(* Transfers.  r carries the traffic, the state and the terminals so far.  *)
Waits(c, bytes) == UNION {c.backing[p] : p \in PagesOf(bytes)}
WroteBacking(c, bytes, id) ==
    [c EXCEPT !.backing = [p \in PagesOf(bytes) |-> id] @@ @,
              !.backed = @ \cup PagesOf(bytes)]

ToHbm(r, bytes, At(_), deps) ==
    [r EXCEPT !.t = Copy(@, {<<Kv(x), At(x)>> : x \in bytes}, deps \cup Waits(r.c, bytes), {})]

ToBacking(r, bytes, At(_), deps) ==
    LET after(t) == [r EXCEPT !.t = t, !.c = WroteBacking(@, bytes, Copied(t))]
    IN  after(Copy(r.t, {<<At(x), Kv(x)>> : x \in bytes}, deps, Waits(r.c, bytes)))

Direct(r, op, bytes, deps) ==
    LET user == {r.t.next}
    IN  [t |-> Demand(r.t, op, {<<x, Kv(x)>> : x \in bytes}, deps \cup Waits(r.c, bytes)),
         c |-> IF op = "W" THEN WroteBacking(r.c, bytes, user) ELSE r.c,
         done |-> r.done \cup user]

(* Two staging buffers take turns.                                         *)
Staged(r, op, bytes, deps) ==
    LET slot == r.c.stagingIndex
        at(x) == StageAt(slot, x - Min(bytes))
        waits == deps \cup r.c.staging[slot]
        served == {<<x, at(x)>> : x \in bytes}
        read(loaded) == [loaded EXCEPT !.t = Demand(@, "R", served, Copied(loaded.t))]
        after(result) ==
            LET done == {result.t.next - 1}
            IN  [t |-> result.t,
                 c |-> [result.c EXCEPT !.staging[slot] = done, !.stagingIndex = 1 - @],
                 done |-> r.done \cup done]
    IN  after(IF op = "W"
              THEN ToBacking([r EXCEPT !.t = Demand(@, "W", served, waits)], bytes, at, {r.t.next})
              ELSE read(ToHbm(r, bytes, at, waits)))

Uncached(r, op, bytes, deps) ==
    IF r.c.mode = "direct" THEN Direct(r, op, bytes, deps)
    ELSE FoldLeft(LAMBDA s, chunk : Staged(s, op, chunk, deps), r,
                  SetToSortSeq(Chunks(bytes, StageBytes), LAMBDA p, q : Min(p) < Min(q)))

----------------------------------------------------------------------------
(* The cache: entries from the least to the most recently used.            *)
EntryOf(c, page) == SelectSeq(c.pages, LAMBDA e : e.page = page)[1]
InCache(c, page) == \E i \in DOMAIN c.pages : c.pages[i].page = page
WithoutEntry(c, page) == SelectSeq(c.pages, LAMBDA e : e.page # page)
Replaced(c, entry) ==
    [c EXCEPT !.pages = [i \in DOMAIN @ |-> IF @[i].page = entry.page THEN entry ELSE @[i]]]

(* _writeback: one transfer after another for each dirty run; the result's *)
(* entry is clean, and its slot is ready after the last one.               *)
CleanPage(r, entry) ==
    LET at(x) == CacheAt(entry.slot, x)
        later(w) == [t |-> w.t, c |-> w.c, ready |-> Copied(w.t)]
        after(written) ==
            [t |-> written.t,
             c |-> IF written.ready = {} THEN written.c
                   ELSE [written.c EXCEPT !.slotReady[entry.slot] = written.ready],
             entry |-> [entry EXCEPT !.dirty = {}, !.ready = written.ready]]
    IN  after(FoldLeft(
            LAMBDA s, run : later(ToBacking([t |-> s.t, c |-> s.c], run, at, s.ready)),
            [t |-> r.t, c |-> r.c, ready |-> entry.ready], Runs(entry.dirty)))

(* Mutant: a page that moves into a slot does not wait for the one that    *)
(* left it. *)
FreshAtOnce(c, page, slot) ==
    [page |-> page, slot |-> slot, valid |-> {}, dirty |-> {}, ready |-> {}]

(* A page waits for what was last done with the slot it moves into.        *)
Fresh(c, page, slot) ==
    [page |-> page, slot |-> slot, valid |-> {}, dirty |-> {}, ready |-> c.slotReady[slot]]

(* _cache_page: the entry of a page, at the end of the queue; a new one    *)
(* takes a free slot, a fresh one or that of the least recently used page. *)
CachePage(r, page) ==
    LET replace(old) ==
            [r EXCEPT !.t = old.t,
                      !.c = [old.c EXCEPT !.pages = Append(Tail(@), Fresh(old.c, page, old.entry.slot))]]
    IN  IF InCache(r.c, page)
        THEN [r EXCEPT !.c.pages = Append(WithoutEntry(r.c, page), EntryOf(r.c, page))]
        ELSE IF r.c.free # {}
        THEN [r EXCEPT !.c.pages = Append(@, Fresh(r.c, page, Min(r.c.free))),
                       !.c.free = @ \ {Min(r.c.free)}]
        ELSE IF r.c.nextSlot < CachePages
        THEN [r EXCEPT !.c.pages = Append(@, Fresh(r.c, page, r.c.nextSlot)), !.c.nextSlot = @ + 1]
        ELSE replace(CleanPage(r, Head(r.c.pages)))

(* One page's part of an access: the sectors a read misses are brought in  *)
(* one after another.                                                      *)
Piece(r, op, bytes, deps) ==
    LET page == PageOf(Min(bytes))
        later(loaded) == [t |-> loaded.t, c |-> loaded.c, waits |-> Copied(loaded.t)]
        touched(entry, ready) ==
            [entry EXCEPT !.ready = ready, !.valid = @ \cup bytes,
                          !.dirty = IF op = "W" THEN @ \cup bytes ELSE @]
        after(filled, entry) ==
            LET at(x) == CacheAt(entry.slot, x)
                ready == {filled.t.next}
            IN  [t |-> Demand(filled.t, op, {<<x, at(x)>> : x \in bytes}, filled.waits),
                 c |-> [Replaced(filled.c, touched(entry, ready)) EXCEPT !.slotReady[entry.slot] = ready],
                 done |-> r.done \cup ready]
        on(paged, entry) ==
            LET at(x) == CacheAt(entry.slot, x)
            IN  after(FoldLeft(
                    LAMBDA s, run : later(ToHbm([t |-> s.t, c |-> s.c], run, at, s.waits)),
                    [t |-> paged.t, c |-> paged.c, waits |-> deps \cup entry.ready],
                    IF op = "R" THEN Runs(bytes \ entry.valid) ELSE <<>>), entry)
        within(paged) == on(paged, EntryOf(paged.c, page))
    IN  within(CachePage(r, page))

Cached(r, op, bytes, deps) ==
    FoldLeft(LAMBDA s, page : Piece(s, op, {x \in bytes : PageOf(x) = page}, deps),
             r, SetToSortSeq(PagesOf(bytes), <))

(* One access per run of adjacent slots.                                   *)
KvAccess(r, op, slots, deps) ==
    FoldLeft(LAMBDA s, run : IF s.c.mode = "cached" THEN Cached(s, op, run, deps)
                             ELSE Uncached(s, op, run, deps),
             r, Runs(BytesOfSlots(slots)))

----------------------------------------------------------------------------
(* release: what is dead is discarded, also if it is dirty; a page dies    *)
(* with its last slot, and then its backing is invalidated if it was ever  *)
(* written.  On HBF that is a fence behind everything issued.              *)
Survivors(c, freed) == c.live \ freed
DeadPages(c, freed) ==
    {p \in PagesOf(BytesOfSlots(freed \cap c.live)) : PageSlots(p) \cap Survivors(c, freed) = {}}

Fenced(c) ==
    [c EXCEPT !.pages = [i \in DOMAIN @ |-> [@[i] EXCEPT !.ready = {}]],
              !.slotReady = [s \in DOMAIN @ |-> {}],
              !.staging = [s \in DOMAIN @ |-> {}],
              !.backing = [p \in DOMAIN @ |-> {}]]

Discarded(c, freed) ==
    LET gone == BytesOfSlots(freed \cap c.live)
        dead == DeadPages(c, freed)
        dying == {e \in ToSet(c.pages) : e.page \in dead}
    IN  [c EXCEPT
            !.live = Survivors(c, freed),
            !.pages = SelectSeq([i \in DOMAIN @ |-> [@[i] EXCEPT !.valid = @ \ gone, !.dirty = @ \ gone]],
                                LAMBDA e : e.page \notin dead),
            !.free = @ \cup {e.slot : e \in dying},
            !.slotReady = [s \in DOMAIN @ |->
                IF \E e \in dying : e.slot = s /\ e.ready # {}
                THEN (CHOOSE e \in dying : e.slot = s).ready ELSE @[s]],
            !.backed = @ \ dead]

(* Mutant: a page is taken to be dead when one of its slots is freed. *)
ReleaseWholePages(t, c, freed) ==
    LET dead == PagesOf(BytesOfSlots(freed \cap c.live))
        gone == dead \cap c.backed
        over == Retire(t, DOMAIN t.nodes)
    IN  IF c.tier = "external" \/ gone = {} THEN [t |-> t, c |-> Discarded(c, freed)]
        ELSE [t |-> [over EXCEPT
                  !.cells = [l \in {m \in DOMAIN @ : ~(m[1] = "kv" /\ PageOf(m[2]) \in gone)} |-> @[l]]],
              c |-> Fenced(Discarded(c, freed))]

Release(t, c, freed) ==
    LET invalid == DeadPages(c, freed) \cap c.backed
        over == Retire(t, DOMAIN t.nodes)
    IN  IF c.tier = "external" \/ invalid = {} THEN [t |-> t, c |-> Discarded(c, freed)]
        ELSE [t |-> [over EXCEPT
                  !.cells = [l \in {m \in DOMAIN @ : ~(m[1] = "kv" /\ PageOf(m[2]) \in invalid)} |-> @[l]]],
              c |-> Fenced(Discarded(c, freed))]

----------------------------------------------------------------------------
CleanOne(r, entry) ==
    LET after(w) == [t |-> w.t, c |-> Replaced(w.c, w.entry)]
    IN  after(CleanPage(r, entry))

(* The first dirty pages of the queue are cleaned behind the batch.        *)
Background(r) ==
    LET dirty == SelectSeq(r.c.pages, LAMBDA e : e.dirty # {})
    IN  FoldLeft(CleanOne, r, SubSeq(dirty, 1, Min({BackgroundPages, Len(dirty)})))

(* run_batch: free, observe the rows, write what is appended, read the     *)
(* context after it, clean in the background.                              *)
RunBatch(freed, past, new) ==
    /\ home.phase = "idle" /\ home.batches < MaxNativeBatches
    /\ new # {} /\ past \cap new = {}
    /\ \E released \in {Release(traffic, home, freed)} :
       /\ past \subseteq released.c.live
       /\ \E written \in {KvAccess([t |-> released.t, done |-> {},
                                     c |-> [released.c EXCEPT !.live = @ \cup new]], "W", new, {})} :
          \E read \in {KvAccess(written, "R", past, written.done)} :
          \E cleaned \in {Background([t |-> read.t, c |-> read.c])} :
             /\ traffic' = cleaned.t
             /\ home' = [cleaned.c EXCEPT !.phase = "submitting", !.foreground = read.done]
    /\ UNCHANGED trace

(* What the batch names in its retain list.                                *)
Retained(c) ==
    UNION (Range(c.slotReady) \cup Range(c.staging) \cup Range(c.backing)
           \cup {e.ready : e \in ToSet(c.pages)})

(* What has finished is pruned; the rest has to be known when a later      *)
(* batch waits for it.                                                     *)
Held(release, done, retained) ==
    {IF id \in retained THEN id ELSE Forgotten : id \in release \ done}

Pruned(c, done) ==
    LET held(release) == Held(release, done, Retained(c))
    IN  [c EXCEPT
            !.pages = [i \in DOMAIN @ |-> [@[i] EXCEPT !.ready = held(@)]],
            !.slotReady = [s \in DOMAIN @ |-> held(@[s])],
            !.staging = [s \in DOMAIN @ |-> held(@[s])],
            !.backing = [p \in DOMAIN @ |-> held(@[p])]]

(* The batch is over when its foreground is; of the rest some is.          *)
Submit ==
    \E more \in SUBSET (DOMAIN traffic.nodes \cap Retained(home)) :
        LET done == Ancestors(traffic, home.foreground \cup more)
        IN  /\ home.phase = "submitting"
            /\ traffic' = Retire(traffic, done)
            /\ home' = [Pruned(home, done) EXCEPT
                           !.phase = "idle", !.foreground = {}, !.batches = @ + 1]
            /\ UNCHANGED trace

(* finalize: free, clean every page, wait for all.                         *)
Finalize(freed) ==
    /\ home.phase = "idle"
    /\ \E released \in {Release(traffic, home, freed)} :
       \E cleaned \in {FoldLeft(CleanOne, released, released.c.pages)} :
          /\ traffic' = cleaned.t
          /\ home' = [cleaned.c EXCEPT !.phase = "closed"]
    /\ UNCHANGED trace

NativeSteps ==
    \/ \E freed \in NativeFrees, row \in NativeRows : RunBatch(freed, row[1], row[2])
    \/ Submit
    \/ \E freed \in NativeFrees : Finalize(freed)

NativeNext == home.system = "native" /\ NativeSteps

----------------------------------------------------------------------------
(* At the end the backing store has every live token.                      *)
LiveIsDurable ==
    home.system = "native" /\ home.phase = "closed" =>
        \A x \in BytesOfSlots(home.live) : Cell(traffic, Kv(x)).of = x
=============================================================================
