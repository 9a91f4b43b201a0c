CONSTANTS
    work = work
    look = look
    poll = poll
    bad = bad
    Call = {work, look, poll, bad}
    Refused = {bad}
    NonProgress = {look, poll}
    StatusPoll = {poll}
    Outputs <- MCOutputs
    HasSystem = TRUE
    Retrieval = {1}
    MaxIterations = 2
    TokenBudget = 1
    Usages = {0, 1}
    KeepRecent = 3
    LoopThreshold = 2
    Repetitions = 3
    MaxPolls = 1
SPECIFICATION FairSpec
CHECK_DEADLOCK FALSE
INVARIANT ConversationWhole
INVARIANT RequestsBounded
INVARIANT SignalsHeeded
PROPERTY Returns
