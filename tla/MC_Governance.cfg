SPECIFICATION GovernanceSpec
CONSTANTS
    c1 = c1
    c2 = c2
    a1 = a1
    a2 = a2
    w1 = w1
    w2 = w2
    NoField = NoField
    NoReviewer = NoReviewer
    Capture <- Prepared
    Keep <- Kept
    RunId = "run"
    Replicas = {c1, c2}
    ApprovalIds = {a1, a2}
    NewIds <- MCNewIds
    Principals <- MCPrincipals
    Reviewers = {w1, w2}
    Scenarios <- MCScenarios
    MaxRetries = 2
    MaxCalls = 2
    MaxDecisions = 2
    MaxFail = 2
SYMMETRY Symmetry
INVARIANTS
    EnforcementFollowsDecision
    AskedIsStored
    DecisionWhole
    RedactionHolds
PROPERTIES
    ApprovalsKept
CHECK_DEADLOCK FALSE
