SPECIFICATION Spec
CONSTANTS
    t1 = t1
    t2 = t2
    k1 = k1
    k2 = k2
    a1 = a1
    x1 = x1
    NoRun = 0
    NoKey = NoKey
    NoPayload = NoPayload
    Keys = {k1, k2}
    RunIds = {1, 2}
    Tenants = {t1, t2}
    Batches <- DistinctBatches
    ApprovalIds = {a1}
    ExportIds = {x1}
    MaxSeq = 4
    MaxWal = 5
    MaxCrash = 1
    MaxFail = 1
    Limits = {1, 2, 3}
    TypeLists <- OneType
    VerifyLimit = 4
SYMMETRY Symmetry
INVARIANTS
    TypeOK
    ChainIntact
    RunsMatchEvents
    KeysUnique
    IndInv
    VerifyExact
    CursorsComplete
PROPERTIES
    AppendOnly
    RowsKept
    ImplementsAuditLog
CHECK_DEADLOCK FALSE
