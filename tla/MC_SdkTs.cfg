SPECIFICATION Spec
CONSTANTS
    c1 = c1
    c2 = c2
    Calls = {c1, c2}
    BatchSize = 2
    MaxEvents = 3
    MaxDrains = 1
    MaxDrainErrors = 1
SYMMETRY CallSymmetry
INVARIANTS
    NothingLost
    InOrder
    CommittedComplete
CHECK_DEADLOCK FALSE
