SPECIFICATION Spec
CONSTANTS
    a = a
    b = b
    c = c
    NRequests = 7
    Prompt <- MixPrompt
    Lifetime <- MixLifetime
    Content <- MixContent
    Model <- MixModel
    Group <- MixGroup
    BlockTokens = 2
    Layers = 1
    HotCapacity = 6
    ColdCapacity = 2
    HasCold = TRUE
    CacheBlocks = 2
    Ttl = 0
    MaxBatchRequests = 3
    MaxBatchTokens = 5
    PrefillChunk = 3
INVARIANTS
    HitsAreWritten
CHECK_DEADLOCK TRUE
