SPECIFICATION FairSpec
CONSTANTS
    Capacity = 5
    MaxReferences = 2
    TombstoneSlack = 2
INVARIANTS
    TypeOK
    IndexInv
    TombstonesBounded
PROPERTIES
    CollectedAscending
    ImplementsPool
    AllocationAnswered
CHECK_DEADLOCK TRUE
