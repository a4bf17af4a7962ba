SPECIFICATION FairSpec
CONSTANTS
    BatchSize = 2
    MaxAttempts = 2
    MaxEvents = 3
    MaxDrains = 1
    MaxDrainErrors = 1
PROPERTIES
    DrainKeepsEntries
CHECK_DEADLOCK FALSE
