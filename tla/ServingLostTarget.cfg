SPECIFICATION Spec
CONSTANTS
    a = a
    b = b
    c = c
    NRequests = 7
    Prompt <- MixPrompt
    Lifetime <- MixLifetime
    Content <- MixContent
    Model <- MixModel
    Group <- MixGroup
    BlockTokens = 2
    Layers = 1
    HotCapacity = 5
    ColdCapacity = 0
    HasCold = FALSE
    CacheBlocks = 2
    Ttl = 0
    MaxBatchRequests = 4
    MaxBatchTokens = 5
    PrefillChunk = 3
INVARIANTS
    DiscardedContextIsRefed
CHECK_DEADLOCK TRUE
