CONSTANTS
    a1 = a1
    a2 = a2
    r1 = r1
    r2 = r2
    r3 = r3
    read = read
    write = write
    NoAgent = NoAgent
    NoTool = NoTool
    Agent = {a1, a2}
    Call = {r1, r2}
    Tool = {read, write}
    ExternalRead = {read}
    WriteTool = {write}
    Policy <- TwoPolicies
    FilterAction <- TwoFilters
    Authority = TRUE
    MaxConcurrent <- Limits
    MaxSessions = 2
    MaxInits = 1
SPECIFICATION Spec
SYMMETRY Requests
CHECK_DEADLOCK FALSE
INVARIANT SessionLabelCovers
INVARIANT WritesSeeTaint
INVARIANT RunningIsListed
INVARIANT OwnFindings
INVARIANT FindingsTakenOnce
