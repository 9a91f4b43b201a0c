CONSTANTS
    a = a
    b = b
    c = c
    d = d
    NoTask = NoTask
    Task <- Tasks4
    DependsOn <- Chain4
    BackEdge <- CascadeEdges
    MaxRetries <- Retries3
    ErrorType = {"agenterror","maxiterations"}
    Verified = {a}
    Unassigned = {d}
    Untrusted = {b}
    MaxHops = 0
    GlobalMax = 3
    IoErrors = TRUE
    MaxRuns = 1
SPECIFICATION FairSpec
CHECK_DEADLOCK FALSE
INVARIANT TaintCoversResults
INVARIANT CircularFixStopsRetry
PROPERTY RunEnds
