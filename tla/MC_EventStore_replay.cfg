SPECIFICATION Spec
CONSTANTS
    t1 = t1
    t2 = t2
    k1 = k1
    k2 = k2
    a1 = a1
    x1 = x1
    NoRun = 0
    NoKey = NoKey
    NoPayload = NoPayload
    Keys = {k1, k2}
    RunIds = {1, 2}
    Tenants = {t1}
    Batches <- DistinctBatches
    ApprovalIds = {}
    ExportIds = {}
    MaxSeq = 4
    MaxWal = 6
    MaxCrash = 1
    MaxFail = 0
    Limits = {1, 2, 3}
    TypeLists <- OneType
    VerifyLimit = 4
INVARIANTS
    CrashReplaysLog
CHECK_DEADLOCK FALSE
