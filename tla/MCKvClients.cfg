SPECIFICATION Spec
CONSTANTS
    a = a
    b = b
    NRequests = 3
    Prompt <- MCPrompt
    Lifetime <- MCLifetime
    Content <- MCContent
    BlockTokens = 2
    Layers = 2
    HotCapacity = 8
    ColdCapacity = 4
    HasCold = TRUE
    CacheBlocks = 4
    Ttl = 1
    SliceSizes = {2, 3}
    MaxBatches = 2
    MaxAdmissions = 3
INVARIANTS
    ReferencesExact
    ContextIntact
    CacheCoherent
    ReservedStaysMappable
    CacheYieldsToRequests
CHECK_DEADLOCK FALSE
