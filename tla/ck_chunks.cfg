SPECIFICATION FairSpec
CONSTANTS
    Import = {i1, i2, i3}
    PerfEntry = TRUE
    NULL = NULL
    MaxAttempts = 3
INVARIANTS
    EntryNotForgotten
PROPERTIES
    ImportAnswered
    ImplementsLoading
CHECK_DEADLOCK FALSE
