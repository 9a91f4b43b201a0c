CONSTANTS
    a = a
    b = b
    c = c
    d = d
    NoTask = NoTask
    Task <- Tasks4
    DependsOn <- Diamond
    BackEdge <- NoEdges
    MaxRetries <- Retries0
    ErrorType = {"agenterror"}
    Verified = {b}
    Unassigned = {}
    Untrusted = {c}
    MaxHops = 4
    GlobalMax = 1000
    IoErrors = FALSE
    MaxRuns = 4
SPECIFICATION Spec
CHECK_DEADLOCK FALSE
INVARIANT DependencyOrder
INVARIANT FreshInputs
INVARIANT Accounted
INVARIANT LatestOutput
PROPERTY ResumeConsistent
PROPERTY KeepsPromise
