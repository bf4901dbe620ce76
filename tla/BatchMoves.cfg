SPECIFICATION FairSpec
CONSTANTS
    a = a
    NRequests = 3
    Prompt <- MovedPrompt
    Lifetime <- MovedLifetime
    Content <- MovedContent
    BlockTokens = 2
    Layers = 1
    HotCapacity = 2
    ColdCapacity = 2
    HasCold = TRUE
    CacheBlocks = 0
    Ttl = 0
    SliceSizes = {1}
    MaxBatches = 3
    MaxAdmissions = 3
    PrefetchDepth = 1
INVARIANTS
    NoRace
    MemoryFollowsPlane
CHECK_DEADLOCK FALSE
