CONSTANTS
    lead = lead
    helper = helper
    Nowhere = Nowhere
    NoEntry = NoEntry
    Node <- Nodes2
    Entry = lead
    Key = {k1, k2}
    MaxHops = 3
    MaxIterations <- TwoIterations
    MaxCalls = 2
    MailCapacity = 1
    BoardCapacity = 1
    MaxRuns = 2
SPECIFICATION Spec
CHECK_DEADLOCK FALSE
INVARIANT LabelsCoverReads
INVARIANT ResultCoversReads
INVARIANT FirstResultCovers
PROPERTY FlowEnds
