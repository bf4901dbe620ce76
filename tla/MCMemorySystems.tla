-------------------------- MODULE MCMemorySystems --------------------------
(***************************************************************************)
(* One behaviour is that of one system; those without actions are checked  *)
(* in their initial states, one for every input.                           *)
(***************************************************************************)
EXTENDS BackingCache, PeerHomes, NativeCache, ModelCache, DirectHomes, SlotLayout

MCHbmBytes == [p \in Policies |-> IF p = "address_only_lru" THEN 8 ELSE 12]
MCCacheAccesses == {<<0, 4>>, <<3, 3>>, <<8, 2>>}
MCWholeAccesses == {<<0, 4>>, <<4, 4>>, <<8, 2>>}
MCPeerAccesses == {<<1, 4>>, <<2, 4>>, <<5, 2>>, <<8, 4>>}
MCNativeRows == {r \in (SUBSET (1 .. 3)) \X (SUBSET (1 .. 3)) : r[2] # {} /\ r[1] \cap r[2] = {}}
MCNativeFrees == {{}, {1}, {2, 3}}

CachedBytes(n) == <<"external_cached_hbm", n>>
MCCatalogs ==
    {<<<<CachedBytes(3), CachedBytes(4)>>, <<CachedBytes(2)>>, <<CachedBytes(6)>>, <<CachedBytes(3)>>>>,
     <<<<<<"hbm", 5>>, <<"hbf", 3>>, <<"external_direct", 2>>, <<"hbm", 4>>>>,
       <<CachedBytes(5), CachedBytes(1)>>, <<CachedBytes(3)>>, <<CachedBytes(7)>>>>}
MCCapacityOf == [hbm |-> 34, hbf |-> 4, external |-> 24, runtime |-> 2]
MCInitiallyCached == {<<>>, <<2, 3>>, <<4, 2>>}

MCWeightObjects == {<<3, 5, 4, 1, 2>>, <<2, 6, 1, 3>>}
MCProfiles == {<<>>, <<<<"R", 1, 5>>, <<"W", 9, 3>>, <<"R", 3, 4>>, <<"R", 1, 5>>>>}
MCDirectLayouts == {<<<<3, 5, 1, 2>>, 2, 3, "layer_major">>, <<<<1, 2, 1, 1>>, 3, 1, "block_major">>}
MCDirectRanges == {<<0, 7>>, <<5, 14>>, <<11, 2>>, <<17, 12>>}
MCTierBytes == {[hbm |-> a, hbf |-> b, external |-> c] : a \in {26, 40}, b \in {0, 48}, c \in {0, 36}}
MCSlotWeights == {<<5, 3>>, <<2, 6, 7>>}
MCReserves == {<<0, 3, 0, 0>>, <<5, 1, 4, 2>>}

Init == CacheInit \/ PeerInit \/ NativeInit \/ ModelInit \/ DirectInit \/ SlotInit \/ LayoutInit \/ GeometryInit
Next == CacheNext \/ PeerNext \/ NativeNext \/ ModelNext \/ DirectNext
Spec == Init /\ [][Next]_<<trace, traffic, home>>

(* What is written outlives the cache: after the flush of the HBM-fronted  *)
(* remapper the backing store has all data, and when the native backend is *)
(* closed, whenever that is, it has every token of the slots then live.    *)
Durable == FlushIsComplete /\ LiveIsDurable

(* Every byte has exactly one home, in every way the systems give it one.  *)
HomesExact == LayoutExact /\ DirectExact /\ SlotsExact /\ HomesExclusive /\ ModelsExact
=============================================================================
