CONSTANTS
    r1 = r1
    r2 = r2
    Run = {r1, r2}
    c1 = c1
    c2 = c2
    Client <- MCClient
SPECIFICATION FairSpec
CHECK_DEADLOCK FALSE
INVARIANT SweptWereDone
INVARIANT CompletedHasOutput
PROPERTY RunsGo
