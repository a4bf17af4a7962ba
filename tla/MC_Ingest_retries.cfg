SPECIFICATION ReadsSpec
CONSTANTS
    c1 = c1
    c2 = c2
    r1 = r1
    t1 = t1
    t2 = t2
    e1 = e1
    e2 = e2
    e3 = e3
    e4 = e4
    k1 = k1
    k2 = k2
    k3 = k3
    NoRun = NoRun
    NoKey = NoKey
    Replicas = {c1, c2}
    RunIds = {r1}
    Tenants = {t1, t2}
    EventIds = {e1, e2, e3, e4}
    Keys = {k1, k2, k3}
    Batches <- SdkBatches
    MaxSeq = 5
    MaxRequests = 5
    Queries <- MCQueries
    QueryCap = 2
    MaxFail = 1
SYMMETRY Symmetry
INVARIANTS
    TypeOK
    StoredOnce
    RollbackSafe
    ReadersComplete
PROPERTIES
    RowsKept
CHECK_DEADLOCK FALSE
