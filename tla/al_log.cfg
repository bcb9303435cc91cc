SPECIFICATION FairSpec
CONSTANTS
    Room = 2
    MaxQueued = 3
    MaxLines = 12
INVARIANTS
    TypeOK
    AssertionsHold
    LinesKeptInOrder
PROPERTIES
    LineGetsOut
    StopReturns
CHECK_DEADLOCK FALSE
