---------------------------- MODULE SlotLayout ----------------------------
(***************************************************************************)
(* Placement (sglang/layout.py): the fixed homes of a native SGLang run.   *)
(* Weights and the KV pool of every layer are laid out in HBM, on HBF and  *)
(* in an external store, either whole in the tiers asked for or, with a    *)
(* priority, filling HBM first.  Every layer has the same cutoff of slots. *)
(***************************************************************************)
EXTENDS WindowLayout

CONSTANTS
    SlotPage,           \* HBF page
    NativePages,        \* values of page_size, in tokens
    KvTokenBytes,       \* values of kv_bytes_per_token of a layer
    SlotLayers,
    SlotWeights,        \* bytes of the memory objects of a model
    TierBytes,          \* capacities of the tiers
    Reserves,           \* <<controller, workspace, cache, staging>>, before alignment
    RequestedTokens,    \* max_total_tokens
    Priorities          \* "weights-first", "kv-first" or "none"

ASSUME SlotAssumption ==
    /\ SlotPage \in Nat \ {0} /\ NativePages \cup KvTokenBytes \subseteq Nat \ {0}
    /\ \A c \in TierBytes : DOMAIN c = {"hbm", "hbf", "external"}

SlotTiers == {"hbm", "hbf", "external"}
Aligned(n) == AlignUp(n, SlotPage)
Gcd(a, b) == Max({d \in 1 .. a : a % d = 0 /\ b % d = 0})
Lcm(a, b) == (a * b) \div Gcd(a, b)

(* A cutoff at a multiple of this many slots ends a page in every layer; a *)
(* pool that fits in HBM is not cut and may end anywhere.                  *)
SlotUnit(p) == Lcm(p.native, SlotPage \div Gcd(SlotPage, p.tokenBytes))

Controller(p) == Aligned(p.reserve[1])
Workspace(p) == Aligned(p.reserve[2])
Reserve(p) == Controller(p) + Workspace(p) + p.reserve[3] + p.reserve[4]
Weights(p) == FoldLeft(LAMBDA n, bytes : n + Aligned(bytes), 0, p.weights)
HbmFree(p) == p.capacity["hbm"] - Reserve(p)
FloorTo(n, unit) == (n \div unit) * unit
Pool(p) == p.tokens + p.native

HbmSlots(p) ==
    IF p.priority = "none" THEN IF p.kvTier = "hbm" THEN Pool(p) ELSE 0
    ELSE LET left == Max({0, HbmFree(p) - IF p.priority = "weights-first" THEN Weights(p) ELSE 0})
         IN  Min({Pool(p), FloorTo((left \div SlotLayers) \div p.tokenBytes, SlotUnit(p))})

(* Without a priority: the tokens the tier of the KV holds.                *)
Available(p) ==
    LET left == p.capacity[p.kvTier] - (IF p.kvTier = "hbm" THEN Reserve(p) ELSE 0)
                  - (IF p.weightTier = p.kvTier THEN Weights(p) ELSE 0)
        perLayer == FloorTo(left \div SlotLayers, SlotPage)
    IN  FloorTo((perLayer \div p.tokenBytes) - p.native, p.native)

WeightHbm(p) ==
    IF p.priority = "none" THEN IF p.weightTier = "hbm" THEN Weights(p) ELSE 0
    ELSE FloorTo(Min({Weights(p), HbmFree(p) - SlotLayers * Aligned(HbmSlots(p) * p.tokenBytes)}),
                 SlotPage)

SpillTier(p, asked) == IF p.priority = "none" THEN asked ELSE "hbf"

(* An extent of an object: bytes [offset, offset + size) at an address.    *)
Extent(what, tier, address, offset, size) ==
    [what |-> what, tier |-> tier, address |-> address, offset |-> offset, size |-> size]
Extend(r, extent) ==
    IF extent.size <= 0 THEN r
    ELSE [r EXCEPT !.extents = @ \cup {extent},
                   !.used[extent.tier] = @ + Aligned(extent.size)]

PlaceWeight(p, r, i) ==
    LET bytes == p.weights[i]
        hbm == IF p.priority = "none" THEN IF p.weightTier = "hbm" THEN Aligned(bytes) ELSE 0
               ELSE Min({Aligned(bytes), r.weightHbm})
        inHbm == Extend([r EXCEPT !.weightHbm = @ - hbm],
                        Extent(<<"weight", i>>, "hbm", r.used["hbm"], 0, Min({hbm, bytes})))
        tier == SpillTier(p, p.weightTier)
    IN  IF hbm >= Aligned(bytes) THEN inHbm
        ELSE Extend(inHbm, Extent(<<"weight", i>>, tier, inHbm.used[tier], hbm, bytes - hbm))

PlaceKv(p, r, layer) ==
    LET slots == HbmSlots(p)
        inHbm == Extend(r, Extent(<<"kv", layer>>, "hbm", r.used["hbm"], 0, slots * p.tokenBytes))
        tier == SpillTier(p, p.kvTier)
    IN  Extend(inHbm, Extent(<<"kv", layer>>, tier, inHbm.used[tier], slots * p.tokenBytes,
                             (Pool(p) - slots) * p.tokenBytes))

HomesOf(p) ==
    LET start == [extents |-> {}, used |-> [tier \in SlotTiers |-> 0], weightHbm |-> WeightHbm(p)]
        weights == FoldLeft(LAMBDA r, i : PlaceWeight(p, r, i), start, [i \in DOMAIN p.weights |-> i])
        reserved == [weights EXCEPT !.used["hbm"] = @ + p.reserve[3] + p.reserve[4] + Workspace(p)]
        kv == FoldLeft(LAMBDA r, layer : PlaceKv(p, r, layer), reserved, [k \in 1 .. SlotLayers |-> k])
    IN  [extents |-> kv.extents, hbfWeights |-> weights.used["hbf"],
         used |-> [kv.used EXCEPT !["hbm"] = @ + Controller(p)]]

(* What the constructor refuses.                                           *)
Placed(p) ==
    /\ HbmFree(p) >= 0
    /\ p.tokens > 0 /\ p.tokens % p.native = 0
    /\ p.priority = "none" => p.tokens <= Available(p)
    /\ \A tier \in SlotTiers : HomesOf(p).used[tier] <= p.capacity[tier]

(* page_slots: the slots that share a physical page of the pool.  Its      *)
(* arena is the last one that starts at the page or before; a page outside *)
(* the arenas has none.                                                    *)
KvArenas(h, tier) == {e \in h.extents : e.what[1] = "kv" /\ e.tier = tier}

PageSlotsOf(p, h, tier, page) ==
    LET begin == page * SlotPage
        end == begin + SlotPage
        before == {e \in KvArenas(h, tier) : e.address <= begin}
        arena == CHOOSE e \in before : \A f \in before : f.address <= e.address
        first == arena.offset \div p.tokenBytes
    IN  IF before = {} \/ begin >= arena.address + arena.size THEN {}
        ELSE first + (Max({0, begin - arena.address}) \div p.tokenBytes)
               .. first + ((Min({arena.size, end - arena.address}) + p.tokenBytes - 1) \div p.tokenBytes) - 1

----------------------------------------------------------------------------
SlotInit ==
    /\ \E native \in NativePages, bytes \in KvTokenBytes, weights \in SlotWeights,
          capacity \in TierBytes, reserve \in Reserves, tokens \in RequestedTokens,
          priority \in Priorities, weightTier \in SlotTiers, kvTier \in SlotTiers :
         LET p == [system |-> "slots", native |-> native, tokenBytes |-> bytes,
                   weights |-> weights, capacity |-> capacity, reserve |-> reserve,
                   tokens |-> tokens, priority |-> priority,
                   weightTier |-> weightTier, kvTier |-> kvTier]
         IN  /\ priority # "none" => weightTier = "hbf" /\ kvTier = "hbf"
             /\ Placed(p)
             /\ home = p
    /\ traffic = NoTraffic(<<>>)
    /\ trace = <<>>

BytesOfExtent(e) == {<<e.tier, x>> : x \in e.address .. e.address + e.size - 1}
PagesOfExtent(e) == {<<e.tier, n>> : n \in e.address \div SlotPage
                                            .. (e.address + e.size - 1) \div SlotPage}

(* Every byte of a weight and of the pool has exactly one home; outside    *)
(* HBM no two extents share a page, so that a page of the pool has one     *)
(* owner; the weights on HBF are its first pages, which are installed      *)
(* before serving; page_slots names exactly the slots with a byte in the   *)
(* page.                                                                   *)
SlotsExact ==
    home.system = "slots" =>
        LET h == HomesOf(home)
            of(what) == {e \in h.extents : e.what = what}
            size(what) == IF what[1] = "weight" THEN home.weights[what[2]]
                          ELSE Pool(home) * home.tokenBytes
            whole(what) == /\ UNION {e.offset .. e.offset + e.size - 1 : e \in of(what)}
                                  = 0 .. size(what) - 1
                           /\ MapThenSumSet(LAMBDA e : e.size, of(what)) = size(what)
            hbf(kind) == {pg[2] : pg \in UNION {PagesOfExtent(e) :
                             e \in {x \in h.extents : x.tier = "hbf" /\ x.what[1] = kind}}}
        IN  /\ \A i \in DOMAIN home.weights : whole(<<"weight", i>>)
            /\ \A layer \in 1 .. SlotLayers : whole(<<"kv", layer>>)
            /\ \A e, f \in h.extents :
                  e # f => /\ BytesOfExtent(e) \cap BytesOfExtent(f) = {}
                           /\ e.tier # "hbm" => PagesOfExtent(e) \cap PagesOfExtent(f) = {}
            /\ hbf("weight") = 0 .. (h.hbfWeights \div SlotPage) - 1
            /\ \A e \in KvArenas(h, "hbf") \cup KvArenas(h, "external") : \A pg \in PagesOfExtent(e) :
                  PageSlotsOf(home, h, e.tier, pg[2])
                      = {s \in 0 .. Pool(home) - 1 :
                            \E x \in s * home.tokenBytes .. (s + 1) * home.tokenBytes - 1 :
                                /\ x \in e.offset .. e.offset + e.size - 1
                                /\ (e.address + x - e.offset) \div SlotPage = pg[2]}
=============================================================================
