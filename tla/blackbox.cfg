CONSTANTS
    h1 = h1
    h2 = h2
    h3 = h3
    x = x
    y = y
    z = z
    Handle <- Handles
    Content <- Contents
    Joined <- OneText
    IoErrors <- AnyError
    Retention <- Age0
    MaxRecords = 3
    MaxClock = 1
SPECIFICATION Spec
SYMMETRY Sym
INVARIANT BreaksHaveCause
INVARIANT EditsLocated
INVARIANT LossShows
INVARIANT RemainderLinks
PROPERTY RecordsWhenAlone
CHECK_DEADLOCK FALSE
