SPECIFICATION Spec
CONSTANTS
    SpaceBytes = 10
    Granularity = 4
    ChunkBytes = 2
    PageBytes = 2
    WindowBytes = 4
    HbmBytes <- MCHbmBytes
    Policies = {"address_only_lru", "decayed_lfu", "threshold_promotion", "class_aware"}
    KvUnits = {0}
    DecayEvery = 4
    CacheAccesses <- MCCacheAccesses
    OverwritesWait = TRUE
    MaxAccesses = 2
    MaxBatches = 2
    PeerBytes = 14
    KvFirst = 2
    KvPast = 12
    UnitBytesOfPeer = 4
    CopyBytes = 2
    HbfPage = 2
    PeerSlots = 1
    HbfBytes = 12
    PeerPolicies = {"static", "capacity_migration"}
    PeerAccesses <- MCPeerAccesses
    MaxPeerAccesses = 3
    MaxPeerBatches = 2
    PoolSlots = 4
    TokenBytes = 2
    BackingPage = 3
    StageBytes = 3
    CachePages = 1
    BackgroundPages = 1
    NativeModes = {"cached", "staged", "direct"}
    NativeTiers = {"hbf", "external"}
    NativeRows <- MCNativeRows
    NativeFrees <- MCNativeFrees
    MaxNativeBatches = 3
    Catalogs <- MCCatalogs
    HbmStripes = {0, 4}
    HbmAlignment = 2
    HbfPageSize = 2
    ExternalPage = 2
    LoadChunk = 2
    CapacityOf <- MCCapacityOf
    CacheSizes = {12}
    InitiallyCached <- MCInitiallyCached
    MaxModelReads = 2
    MaxModelBatches = 4
    Stacks = 3
    EntriesPerPage = 2
    PlanesPerStack = 2
    PagesPerPlane = 5
    LinkPage = 2
    MaxFirst = 8
    MaxTransfer = 9
    LayoutPage = 4
    WeightObjects <- MCWeightObjects
    BlockTokens = 2
    TokenLayerBytes = 3
    TableEntryBytes = 2
    RuntimeBytes = {1, 4}
    PopulationTargets = {40, 60, 75}
    StorageOrders = {"block_major", "layer_major"}
    Profiles <- MCProfiles
    PlacementUnit = 6
    DirectLayouts <- MCDirectLayouts
    DirectPolicies = {"capacity_balanced", "weights_first", "kv_first", "profiled_hotset"}
    DirectHbmBytes = {0, 20, 33, 80}
    DirectHbfStacks = {TRUE, FALSE}
    ReservedBytes = {0, 3}
    DirectRanges <- MCDirectRanges
    MaxDirectAccesses = 2
    SlotPage = 4
    NativePages = {1, 2}
    KvTokenBytes = {2, 3, 6}
    SlotLayers = 2
    SlotWeights <- MCSlotWeights
    TierBytes <- MCTierBytes
    Reserves <- MCReserves
    RequestedTokens = {1, 2, 4, 5}
    Priorities = {"none", "weights-first", "kv-first"}
INVARIANTS DemandsServed NoRace DependenciesKnown VictimsFound WindowHolds
    Durable GeometryExact HomesExact
CHECK_DEADLOCK FALSE
