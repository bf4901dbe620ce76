----------------------------- MODULE ModelCache -----------------------------
(***************************************************************************)
(* Weights in HBServePlacement (hbserve/placement.py): every object of a   *)
(* model lies in HBM, on HBF or in external memory for good, except those  *)
(* of a cached model, which are copied from external memory into one       *)
(* extent of HBM when a batch of the model is mapped.  Whole models leave, *)
(* the least recently used first, until an extent is free.                 *)
(***************************************************************************)
EXTENDS CausalTraffic

CONSTANTS
    Catalogs,           \* models by their order, each its objects <<tier, bytes>>
    HbmStripes,         \* hbm_stripe_bytes, 0 for None
    HbmAlignment, HbfPageSize, ExternalPage, LoadChunk,
    CapacityOf,         \* bytes of "hbm", "hbf", "external" and "runtime"
    CacheSizes,         \* hbm_model_cache_bytes
    InitiallyCached,    \* sequences of models
    MaxModelReads, MaxModelBatches   \* bounds: reads in a batch, batches

ASSUME ModelAssumption ==
    /\ LoadChunk % HbmAlignment = 0 /\ LoadChunk % ExternalPage = 0
    /\ \A n \in CacheSizes \cup {CapacityOf["hbm"], CapacityOf["runtime"]} : n % HbmAlignment = 0

MediumOf(tier) ==
    IF tier \in {"external_direct", "external_cached_hbm"} THEN "external" ELSE tier
IsCached(catalog, m) == catalog[m][1][1] = "external_cached_hbm"

RoundUp(x, size) == ((x + size - 1) \div size) * size

(* An object of at least a stripe starts on a stripe.                      *)
AlignObject(stripe, x, bytes) ==
    IF stripe = 0 \/ bytes < stripe THEN RoundUp(x, HbmAlignment)
    ELSE RoundUp(x, Min({n \in 1 .. HbmAlignment * stripe :
                            n % HbmAlignment = 0 /\ n % stripe = 0}))

(* Objects are laid out in their order: each has a place in its medium,    *)
(* and one of a cached model an offset in the extent of its model.         *)
Start(stripe, s, medium, bytes) ==
    CASE medium = "hbm"      -> AlignObject(stripe, s.hbm, bytes)
      [] medium = "hbf"      -> RoundUp(s.hbf, HbfPageSize)
      [] medium = "external" -> RoundUp(s.external, ExternalPage)

LayObject(stripe, s, object) ==
    LET medium == MediumOf(object[1])
        bytes == object[2]
        at == Start(stripe, s, medium, bytes)
        offset == AlignObject(stripe, s.cache, bytes)
        row == [medium |-> medium, at |-> at, bytes |-> bytes,
                offset |-> offset, first |-> s.total]
    IN  [s EXCEPT ![medium] = at + bytes,
                  !.cache = offset + bytes,
                  !.total = @ + bytes,
                  !.rows = Append(@, row)]

LayModel(stripe, s, objects) ==
    LET laid == FoldLeft(LAMBDA acc, o : LayObject(stripe, acc, o),
                         [s EXCEPT !.cache = 0, !.rows = <<>>], objects)
    IN  [laid EXCEPT !.models = Append(@, [objects |-> laid.rows,
                                           extent |-> AlignObject(stripe, laid.cache, laid.cache)])]

Laid(catalog, stripe) ==
    FoldLeft(LAMBDA acc, objects : LayModel(stripe, acc, objects),
             [hbm |-> 0, hbf |-> 0, external |-> 0, cache |-> 0, total |-> 0,
              rows |-> <<>>, models |-> <<>>],
             catalog)

(* Regions of HBM: static weights, the model cache, KV, the runtime.       *)
Regions(laid, stripe, size) ==
    LET begin == AlignObject(stripe, laid.hbm, stripe)
        end == begin + size
    IN  [cacheBegin |-> begin, cacheEnd |-> end,
         kvBegin |-> AlignObject(stripe, end, stripe),
         kvEnd |-> CapacityOf["hbm"] - CapacityOf["runtime"]]

FitsIn(laid, regions, catalog, size) ==
    /\ \A m \in DOMAIN catalog : IsCached(catalog, m) => laid.models[m].extent <= size
    /\ regions.kvEnd >= regions.kvBegin
    /\ RoundUp(laid.hbf, HbfPageSize) <= CapacityOf["hbf"]
    /\ RoundUp(laid.external, ExternalPage) <= CapacityOf["external"]

----------------------------------------------------------------------------
(* _ExtentAllocator: free extents <<begin, bytes>>, first fit; what is     *)
(* released coalesces with its neighbours.                                 *)
PastExtent(extent) == extent[1] + extent[2]
Required(bytes) == RoundUp(bytes, HbmAlignment)

CanAllocate(free, bytes) == \E i \in DOMAIN free : free[i][2] >= Required(bytes)

FirstFit(free, bytes) == Min({i \in DOMAIN free : free[i][2] >= Required(bytes)})
AllocateExtent(free, bytes) ==
    LET i == FirstFit(free, bytes)
        rest == <<free[i][1] + Required(bytes), free[i][2] - Required(bytes)>>
    IN  IF rest[2] = 0 THEN RemoveAt(free, i) ELSE [free EXCEPT ![i] = rest]

ReleaseExtent(free, extent) ==
    FoldLeft(LAMBDA merged, e :
                 IF merged # <<>> /\ PastExtent(Last(merged)) = e[1]
                 THEN Append(Front(merged), <<Last(merged)[1], Last(merged)[2] + e[2]>>)
                 ELSE Append(merged, e),
             <<>>, SortSeq(Append(free, extent), LAMBDA p, q : p[1] < q[1]))

(* Releasing the k models used least recently.                             *)
FreeAfter(c, k) ==
    FoldLeft(LAMBDA free, m : ReleaseExtent(free, c.extents[m]), c.free, SubSeq(c.lru, 1, k))

Enough(c, bytes) == {k \in 0 .. Len(c.lru) : CanAllocate(FreeAfter(c, k), bytes)}

Activated(c, m) == ~IsCached(c.catalog, m) \/ m \in ToSet(c.lru)
MostRecent(c, m) == Append(SelectSeq(c.lru, LAMBDA n : n # m), m)

(* _activate_model; it raises when nothing is enough.                      *)
ActivateModel(c, m) ==
    LET bytes == c.laid.models[m].extent
        k == Min(Enough(c, bytes))
        free == FreeAfter(c, k)
        extent == <<free[FirstFit(free, bytes)][1], Required(bytes)>>
        left == SubSeq(c.lru, k + 1, Len(c.lru))
    IN  IF ~IsCached(c.catalog, m) THEN c
        ELSE IF Activated(c, m) THEN [c EXCEPT !.lru = MostRecent(c, m)]
        ELSE [c EXCEPT !.lru = Append(left, m),
                       !.extents = (m :> extent) @@ Restrict(@, ToSet(left)),
                       !.free = AllocateExtent(free, bytes)]

Raises(c, m) == ~Activated(c, m) /\ Enough(c, c.laid.models[m].extent) = {}

----------------------------------------------------------------------------
(* Where a byte of an object is for good, and where the batch finds it.    *)
StaticAt(object, x) == <<object.medium, object.at + x>>
PlacedAt(c, m, object, x) ==
    IF IsCached(c.catalog, m) THEN <<"hbm", c.extents[m][1] + object.offset + x>>
    ELSE StaticAt(object, x)

ObjectsOf(c, m) == ToSet(c.laid.models[m].objects)
ObjectBytes(object) == 0 .. object.bytes - 1

HeldAt(c, models, Where(_, _, _)) ==
    LET held == UNION {UNION {{<<Where(m, o, x), o.first + x>> : x \in ObjectBytes(o)}
                                 : o \in ObjectsOf(c, m)} : m \in models}
    IN  [l \in {h[1] : h \in held} |->
            [of |-> (CHOOSE h \in held : h[1] = l)[2], via |-> {}]]

ModelInit ==
    \E catalog \in Catalogs, stripe \in HbmStripes, size \in CacheSizes,
       initial \in InitiallyCached :
        LET laid == Laid(catalog, stripe)
            regions == Regions(laid, stripe, size)
            empty == [system |-> "models", catalog |-> catalog, stripe |-> stripe,
                      laid |-> laid, regions |-> regions, lru |-> <<>>, extents |-> <<>>,
                      free |-> IF size = 0 THEN <<>> ELSE <<<<regions.cacheBegin, size>>>>,
                      model |-> 0, roots |-> {}, batches |-> 0]
        IN  /\ FitsIn(laid, regions, catalog, size)
            /\ \A m \in ToSet(initial) : m \in DOMAIN catalog /\ IsCached(catalog, m)
            /\ home = FoldLeft(ActivateModel, empty, initial)
            /\ traffic = NoTraffic(
                   HeldAt(home, ToSet(home.lru), LAMBDA m, o, x : PlacedAt(home, m, o, x))
                     @@ HeldAt(home, DOMAIN catalog, LAMBDA m, o, x : StaticAt(o, x)))
            /\ trace = <<>>

(* map_batch, up to the canonical operations: objects come in chunks once  *)
(* the batch is released, and operations wait for all of them.             *)
Install(t, c, m, release) ==
    LET loads == UNION {{<<o, chunk>> : chunk \in Chunks(ObjectBytes(o), LoadChunk)}
                           : o \in ObjectsOf(c, m)}
    IN  FoldSet(
            LAMBDA load, s :
                LET pairs == {<<StaticAt(load[1], x), PlacedAt(c, m, load[1], x)>> : x \in load[2]}
                    copy == Copy(s.t, pairs, {release}, {})
                IN  [t |-> copy, roots |-> s.roots \cup Copied(copy)],
            [t |-> t, roots |-> {release}], loads)

StartBatch(m) ==
    LET release == traffic.next
        released == Emit(traffic, {}, {}, {})
    IN  /\ home.model = 0 /\ home.batches < MaxModelBatches
        /\ IF Raises(home, m)
           THEN traffic' = Refuse(traffic) /\ UNCHANGED home
           ELSE \E c \in {ActivateModel(home, m)} :
                \E s \in {IF Activated(home, m) THEN [t |-> released, roots |-> {release}]
                          ELSE Install(released, c, m, release)} :
                    /\ traffic' = s.t
                    /\ home' = [c EXCEPT !.model = m, !.roots = s.roots]
        /\ UNCHANGED trace

(* Partial stripes at the ends of a read of HBM are read by themselves.    *)
StripePieces(stripe, first, past) ==
    LET head == RoundUp(first, stripe)
        tail == (past \div stripe) * stripe
    IN  IF stripe = 0 \/ past - first < stripe \/ tail <= head THEN {first .. past - 1}
        ELSE {first .. head - 1, head .. tail - 1, tail .. past - 1} \ {{}}

PiecesOf(c, m, object, first, past) ==
    LET begin == PlacedAt(c, m, object, first)[2]
        medium == PlacedAt(c, m, object, first)[1]
        pieces == IF medium = "hbm" THEN StripePieces(c.stripe, begin, begin + past - first)
                  ELSE {begin .. begin + past - first - 1}
    IN  {{<<object.first + first + x - begin, <<medium, x>>>> : x \in piece} : piece \in pieces}

ReadWeight(object, first, waits) ==
    LET addresses == {object.first + x : x \in first .. object.bytes - 1}
        parents == Parents("R", addresses, waits)
        deps == IF parents = {} THEN home.roots ELSE TerminalsOf(parents)
    IN  /\ Len(trace) < MaxModelReads
        /\ waits => LatestBarrier # {}
        /\ \E t \in {FoldLeft(LAMBDA acc, pairs : Demand(acc, "R", pairs, deps), traffic,
                              SetToSeq(PiecesOf(home, home.model, object, first, object.bytes)))} :
              /\ traffic' = t
              /\ Traced("R", addresses, parents, FALSE, traffic.next .. t.next - 1)
        /\ UNCHANGED home

EndBatch ==
    /\ trace # <<>>
    /\ traffic' = Retire(traffic, DOMAIN traffic.nodes)
    /\ home' = [home EXCEPT !.model = 0, !.roots = {}, !.batches = @ + 1]
    /\ trace' = <<>>

ModelSteps ==
    \/ \E m \in DOMAIN home.catalog : StartBatch(m)
    \/ /\ home.model # 0
       /\ \/ \E o \in ObjectsOf(home, home.model), waits \in BOOLEAN :
                \E first \in {0, o.bytes \div 3} : ReadWeight(o, first, waits)
          \/ Len(trace) < MaxModelReads /\ Barrier(FALSE)
          \/ EndBatch

ModelNext == home.system = "models" /\ ModelSteps

----------------------------------------------------------------------------
(* Every object has a place of its own; the extents of the cached models   *)
(* and the free extents divide the cache, and no two free ones touch.      *)
Span(first, bytes) == first .. first + bytes - 1
Apart(spans) == \A i, j \in DOMAIN spans : i # j => spans[i] \cap spans[j] = {}

StaticExact(c) ==
    \A medium \in {"hbm", "hbf", "external"} :
        LET rows == UNION {{<<m, i>> : i \in DOMAIN c.catalog[m]} : m \in DOMAIN c.catalog}
            row(r) == c.laid.models[r[1]].objects[r[2]]
            here == {r \in rows : row(r).medium = medium}
        IN  /\ Apart([r \in here |-> Span(row(r).at, row(r).bytes)])
            /\ medium = "hbm" => \A r \in here :
                  /\ row(r).at + row(r).bytes <= c.regions.cacheBegin
                  /\ row(r).bytes >= c.stripe /\ c.stripe > 0 => row(r).at % c.stripe = 0

ExtentsExact(c) ==
    LET spans == [m \in DOMAIN c.extents |-> Span(c.extents[m][1], c.extents[m][2])]
        frees == [i \in DOMAIN c.free |-> Span(c.free[i][1], c.free[i][2])]
        cache == c.regions.cacheBegin .. c.regions.cacheEnd - 1
    IN  /\ Apart(spans) /\ Apart(frees)
        /\ UNION Range(frees) = cache \ UNION Range(spans) /\ UNION Range(spans) \subseteq cache
        /\ \A i, j \in DOMAIN c.free : PastExtent(c.free[i]) # c.free[j][1]
        /\ DOMAIN c.extents = ToSet(c.lru)
        /\ \A m \in DOMAIN c.extents :
              LET held == [i \in DOMAIN c.catalog[m] |->
                              LET o == c.laid.models[m].objects[i]
                              IN  Span(c.extents[m][1] + o.offset, o.bytes)]
              IN  Apart(held) /\ UNION Range(held) \subseteq spans[m]

ModelsExact == home.system = "models" => StaticExact(home) /\ ExtentsExact(home)
=============================================================================
