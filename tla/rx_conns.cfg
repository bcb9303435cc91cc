SPECIFICATION FairSpec
CONSTANTS
    Fd = {f1}
    NULL = NULL
    MaxConns = 3
    ReqLen = 2
    InLimit = 3
    RespLen = 2
INVARIANTS
    MapsAgree
    EventReachesItsSocket
    EdgesPending
    AnswerPending
PROPERTIES
    ConnectionEnds
