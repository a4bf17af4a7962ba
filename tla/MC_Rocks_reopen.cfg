SPECIFICATION Spec
CONSTANTS
    t1 = t1
    t2 = t2
    a1 = a1
    k1 = k1
    e1 = e1
    e2 = e2
    e3 = e3
    x1 = x1
    NoKey = NoKey
    NoTime = NoTime
    Threads = {t1, t2}
    Events <- MCEvents
    RunIds = {1}
    Started <- MCStarted
    Times = {0, 2}
    Approvals = {a1}
    Others = {x1}
    Bodies <- MCEventBodies
    Limits = {1, 2}
    MaxSeq = 3
    MaxSessions = 3
    MaxOpens = 2
SYMMETRY Symmetry
INVARIANT
    SeqSurvivesReopen
CHECK_DEADLOCK FALSE
