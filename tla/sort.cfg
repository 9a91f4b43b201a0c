CONSTANTS
    Id <- Three
    UnknownId = 0
    MaxList = 2
    Repeats = FALSE
SPECIFICATION SortSpec
CHECK_DEADLOCK FALSE
INVARIANT OrderIsTopological
INVARIANT OnlyCyclesRefused
