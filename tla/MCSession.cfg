SPECIFICATION FairSpec
CONSTANTS
    a = a
    b = b
    c = c
    w = w
    RunWork <- MCRunWork
    SubmitWork <- MCSubmitWork
    CheckpointIds <- MCCheckpointIds
    WearIds <- MCWearIds
    HasHbf = TRUE
    HasTimeout = TRUE
    MaxCalls = 3
    MaxFaults = 2
    MaxTime = 3
INVARIANTS
    StopIsComplete
    NoProcessLeft
PROPERTIES
    ImplementsLog
    FrontiersAdvance
    EveryCallReturns
CHECK_DEADLOCK TRUE
