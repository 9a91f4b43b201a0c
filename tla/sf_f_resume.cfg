CONSTANTS
    f1 = f1
    f2 = f2
    plan = plan
    sink = sink
    note = note
    NoFlow = NoFlow
    NoTask = NoTask
    Flow = {f1, f2}
    Task = {plan, sink, note}
    Sink = {sink}
    Yamls <- MCYamls
    SubDefs <- MCSubDefs
    Plans <- MCPlans
    MaxParallel = 2
    Permits = 1
    MaxAgents = 3
    MaxDepth = 1
    Started = {f1}
    Overlap = FALSE
    MaxCrashes = 1
    MaxRefused = 1
SPECIFICATION FairSpec
CHECK_DEADLOCK FALSE
INVARIANT ResumeRuns
