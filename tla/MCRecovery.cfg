SPECIFICATION Spec
CONSTANTS
    Requests = {1, 2}
    Prompt <- MCPrompt
    Lifetime <- MCLifetime
    ArenaPages = 6
    MaxEpochs = 3
    MaxBoots = 3
    MaxFailures = 1
INVARIANTS
    ContextSurvives
    PublishedIsRestorable
    RootAfterData
PROPERTIES
    PublicationAdvances
CHECK_DEADLOCK FALSE
