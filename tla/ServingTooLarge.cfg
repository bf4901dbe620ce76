SPECIFICATION Spec
CONSTANTS
    a = a
    b = b
    c = c
    NRequests = 4
    Prompt <- LargePrompt
    Lifetime <- LargeLifetime
    Content <- LargeContent
    Model <- LargeModel
    Group <- LargeGroup
    BlockTokens = 2
    Layers = 1
    HotCapacity = 5
    ColdCapacity = 8
    HasCold = TRUE
    CacheBlocks = 2
    Ttl = 0
    MaxBatchRequests = 4
    MaxBatchTokens = 5
    PrefillChunk = 3
INVARIANTS
    CapacityErrorIsGenuine
CHECK_DEADLOCK FALSE
