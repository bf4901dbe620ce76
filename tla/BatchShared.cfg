SPECIFICATION FairSpec
CONSTANTS
    a = a
    NRequests = 2
    Prompt <- SharedPrompt
    Lifetime <- SharedLifetime
    Content <- SharedContent
    BlockTokens = 2
    Layers = 2
    HotCapacity = 6
    ColdCapacity = 6
    HasCold = TRUE
    CacheBlocks = 2
    Ttl = 0
    SliceSizes = {1, 3}
    MaxBatches = 2
    MaxAdmissions = 2
    PrefetchDepth = 1
INVARIANTS
    ContextIsRead
PROPERTIES
    BatchDone
CHECK_DEADLOCK FALSE
