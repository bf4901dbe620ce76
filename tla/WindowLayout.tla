---------------------------- MODULE WindowLayout ----------------------------
(***************************************************************************)
(* The address space of a fixed-window experiment: MemoryLayout            *)
(* (windows/memory_trace.py) lays the weights, the KV arena, the block     *)
(* table and the runtime's bytes out one after the other;                  *)
(* build_explicit_fixed_population (windows/population.py) makes the arena *)
(* as large as a target allows; placement_order and access_profile         *)
(* (windows/placement.py) rank the units of the space for a place in HBM.  *)
(***************************************************************************)
EXTENDS CausalTraffic

CONSTANTS
    LayoutPage,         \* PAGE_SIZE_BYTES, the alignment of a region
    WeightObjects,      \* bytes of embedding, layers, final norm, output head
    BlockTokens, TokenLayerBytes, TableEntryBytes,
    RuntimeBytes,       \* values of runtime_overhead_bytes
    PopulationTargets,  \* values of target_population_bytes
    StorageOrders,      \* "block_major" or "layer_major"
    Profiles,           \* training traces: sequences of <<op, address, bytes>>
    PlacementUnit       \* granularity of the placement

ASSUME LayoutAssumption ==
    /\ {LayoutPage, BlockTokens, TokenLayerBytes, TableEntryBytes, PlacementUnit} \subseteq Nat \ {0}
    /\ \A w \in WeightObjects : Len(w) > 3 /\ ToSet(w) \subseteq Nat \ {0}
    /\ StorageOrders \subseteq {"block_major", "layer_major"}

AlignUp(n, unit) == ((n + unit - 1) \div unit) * unit
Layers(weights) == Len(weights) - 3
KvPageBytes == BlockTokens * TokenLayerBytes
KvStride(weights) == KvPageBytes * Layers(weights)

(* MemoryLayout.build.                                                     *)
Objects(weights, blocks, runtime) ==
    [i \in DOMAIN weights |-> [class |-> "immutable_weight", bytes |-> weights[i]]]
      \o << [class |-> "kv", bytes |-> blocks * KvStride(weights)],
            [class |-> "metadata", bytes |-> blocks * TableEntryBytes],
            [class |-> "metadata", bytes |-> runtime] >>

Place(r, object) ==
    [cursor |-> AlignUp(r.cursor + object.bytes, LayoutPage),
     regions |-> Append(r.regions, [class |-> object.class, bytes |-> object.bytes, begin |-> r.cursor])]

Layout(weights, blocks, runtime, order) ==
    LET placed == FoldLeft(Place, [cursor |-> 0, regions |-> <<>>], Objects(weights, blocks, runtime))
    IN  [regions |-> placed.regions, space |-> placed.cursor, blocks |-> blocks,
         layers |-> Layers(weights), stride |-> KvStride(weights), order |-> order,
         kv |-> placed.regions[Len(weights) + 1]]

(* kv_address and its inverse, kv_block_for_address.                       *)
KvAddress(l, block, layer, token) ==
    l.kv.begin + token * TokenLayerBytes +
        IF l.order = "block_major"
        THEN block * l.stride + layer * KvPageBytes
        ELSE (layer * l.blocks + block) * KvPageBytes

KvBlockFor(l, address) ==
    LET offset == address - l.kv.begin
    IN  IF l.order = "block_major" THEN offset \div l.stride
        ELSE (offset % (l.blocks * KvPageBytes)) \div KvPageBytes

(* build_explicit_fixed_population: 0 when not one block fits.             *)
FixedPayload(weights, runtime) == FoldLeft(+, runtime, weights)
BlocksWithin(weights, runtime, target, order) ==
    LET left == target - FixedPayload(weights, runtime)
        most == left \div (KvStride(weights) + TableEntryBytes)
        fits == {n \in 1 .. most : Layout(weights, n, runtime, order).space <= target}
    IN  IF left <= 0 \/ fits = {} THEN 0 ELSE Max(fits)

----------------------------------------------------------------------------
(* access_profile: the bytes a trace reads and writes of every unit.       *)
Within(access, unit) ==
    Max({0, Min({access[2] + access[3], (unit + 1) * PlacementUnit})
            - Max({access[2], unit * PlacementUnit})})
BytesOfUnit(profile, op, unit) ==
    FoldLeft(LAMBDA n, access : n + IF access[1] = op THEN Within(access, unit) ELSE 0, 0, profile)

UnionBytes(intervals) ==
    FoldLeft(LAMBDA r, i : [total |-> r.total + Max({0, i[2] - Max({i[1], r.past})}),
                            past |-> Max({r.past, i[2]})],
             [total |-> 0, past |-> 0],
             SetToSortSeq(intervals, LAMBDA i, j : i[1] < j[1] \/ (i[1] = j[1] /\ i[2] < j[2]))).total

(* placement_order.                                                        *)
UnitCount(l) == (l.space + PlacementUnit - 1) \div PlacementUnit
PlacementUnits(l) == 0 .. UnitCount(l) - 1
ClassUnits(l, class) ==
    FlattenSeq([i \in DOMAIN l.regions |->
        LET region == l.regions[i]
            first == region.begin \div PlacementUnit
            last == (region.begin + region.bytes - 1) \div PlacementUnit
        IN  IF region.class = class THEN [k \in 1 .. last - first + 1 |-> first + k - 1] ELSE <<>>])
Distinct(units) == FoldLeft(LAMBDA s, u : IF u \in ToSet(s) THEN s ELSE Append(s, u), <<>>, units)

Classes(policy) ==
    IF policy = "weights_first" THEN <<"metadata", "immutable_weight", "kv">>
    ELSE <<"metadata", "kv", "immutable_weight">>

Hotter(profile, u, v) ==
    LET written(unit) == BytesOfUnit(profile, "W", unit) > 0
        bytes(unit) == BytesOfUnit(profile, "R", unit) + BytesOfUnit(profile, "W", unit)
    IN  IF written(u) # written(v) THEN written(u)
        ELSE bytes(u) > bytes(v) \/ (bytes(u) = bytes(v) /\ u < v)

PlacementOrder(l, policy, profile) ==
    IF policy = "profiled_hotset"
    THEN [k \in 1 .. UnitCount(l) |->
             CHOOSE u \in PlacementUnits(l) :
                 Cardinality({v \in PlacementUnits(l) : Hotter(profile, v, u)}) = k - 1]
    ELSE LET classes == Classes(policy)
         IN  Distinct(ClassUnits(l, classes[1]) \o ClassUnits(l, classes[2]) \o ClassUnits(l, classes[3])
                        \o [k \in 1 .. UnitCount(l) |-> k - 1])

----------------------------------------------------------------------------
LayoutInit ==
    /\ \E weights \in WeightObjects, runtime \in RuntimeBytes, target \in PopulationTargets,
          order \in StorageOrders, profile \in Profiles :
         home = [system |-> "layout", weights |-> weights, runtime |-> runtime,
                 target |-> target, order |-> order, profile |-> profile]
    /\ traffic = NoTraffic(<<>>)
    /\ trace = <<>>

(* Regions are aligned, disjoint and inside the space.                     *)
RegionsApart(l) ==
    \A i \in DOMAIN l.regions :
        LET r == l.regions[i]
        IN  /\ r.begin % LayoutPage = 0 /\ r.begin + r.bytes <= l.space
            /\ \A j \in 1 .. i - 1 : l.regions[j].begin + l.regions[j].bytes <= r.begin

(* Every KV byte belongs to one token of one layer of one block, and the   *)
(* block is found again from the address.                                  *)
KvTokens(l) == (0 .. l.blocks - 1) \X (0 .. l.layers - 1) \X (0 .. BlockTokens - 1)
KvExact(l) ==
    LET bytes(t) == {KvAddress(l, t[1], t[2], t[3]) + k : k \in 0 .. TokenLayerBytes - 1}
    IN  /\ UNION {bytes(t) : t \in KvTokens(l)} = l.kv.begin .. l.kv.begin + l.kv.bytes - 1
        /\ \A t \in KvTokens(l), x \in l.kv.begin .. l.kv.begin + l.kv.bytes - 1 :
              x \in bytes(t) => KvBlockFor(l, x) = t[1]
        /\ Cardinality(KvTokens(l)) * TokenLayerBytes = l.kv.bytes

(* A profile loses no byte, and counts what it covers once.                *)
ProfileConserves(l, profile) ==
    LET units == PlacementUnits(l)
        covered == {<<a[2], a[2] + a[3]>> : a \in ToSet(profile)}
    IN  /\ \A op \in {"R", "W"} :
              MapThenSumSet(LAMBDA u : BytesOfUnit(profile, op, u), units)
                  = FoldLeft(LAMBDA n, a : n + IF a[1] = op THEN a[3] ELSE 0, 0, profile)
        /\ UnionBytes(covered) = Cardinality(UNION {i[1] .. i[2] - 1 : i \in covered})

(* Every unit is ranked once, and of two units that each lie in regions of *)
(* a single class the one of the class named first comes first.            *)
ClassesOfUnit(l, unit) ==
    {l.regions[i].class : i \in {j \in DOMAIN l.regions :
        /\ l.regions[j].begin < (unit + 1) * PlacementUnit
        /\ unit * PlacementUnit < l.regions[j].begin + l.regions[j].bytes}}
Ranked(l, policy, profile) ==
    LET order == PlacementOrder(l, policy, profile)
    IN  /\ Len(order) = UnitCount(l) /\ ToSet(order) = PlacementUnits(l)
        /\ policy # "profiled_hotset" =>
             \A i, j \in DOMAIN order, a, b \in 1 .. 3 :
                 (/\ ClassesOfUnit(l, order[i]) = {Classes(policy)[a]}
                  /\ ClassesOfUnit(l, order[j]) = {Classes(policy)[b]}
                  /\ a < b) => i < j

(* A layout of as many blocks as the target holds: one more would exceed   *)
(* it.                                                                     *)
LayoutExact ==
    home.system = "layout" =>
        LET blocks == BlocksWithin(home.weights, home.runtime, home.target, home.order)
            l == Layout(home.weights, blocks, home.runtime, home.order)
        IN  /\ \A n \in {blocks + 1, blocks + 2} :
                   Layout(home.weights, n, home.runtime, home.order).space > home.target
            /\ blocks > 0 =>
                 /\ RegionsApart(l) /\ KvExact(l) /\ ProfileConserves(l, home.profile)
                 /\ \A policy \in {"weights_first", "kv_first", "profiled_hotset"} :
                        Ranked(l, policy, home.profile)
=============================================================================
