SPECIFICATION EvidenceSpec
CONSTANTS
    c1 = c1
    c2 = c2
    r1 = r1
    t1 = t1
    t2 = t2
    e1 = e1
    e2 = e2
    x1 = x1
    x2 = x2
    k1 = k1
    k2 = k2
    NoRun = NoRun
    NoKey = NoKey
    Replicas = {c1, c2}
    RunIds = {r1}
    Tenants = {t1, t2}
    EventIds = {e1, e2, x1, x2}
    Keys = {k1, k2}
    Batches <- MCBatches
    MaxSeq = 4
    MaxRequests = 3
    MaxFail = 1
    ExportIds = {x1, x2}
    MaxCuts = 1
SYMMETRY Symmetry
INVARIANTS
    ValidMeansIntact
    DownloadMatches
CHECK_DEADLOCK FALSE
