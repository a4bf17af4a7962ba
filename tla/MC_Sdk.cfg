SPECIFICATION FairSpec
CONSTANTS
    BatchSize = 2
    MaxAttempts = 2
    MaxEvents = 3
    MaxDrains = 2
    MaxDrainErrors = 1
INVARIANTS
    TypeOK
    NothingLost
    InOrder
    CommittedComplete
PROPERTIES
    CallsEnd
CHECK_DEADLOCK FALSE
