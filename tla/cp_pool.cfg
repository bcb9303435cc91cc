SPECIFICATION FairSpec
CONSTANTS
    Thread = {t1, t2, t3, t4, t5}
    Conn = {c1, c2, c3}
    NULL = NULL
    MinConn = 1
    MaxConn = 2
    MayTimeOut = TRUE
    MayFail = TRUE
    MayClose = TRUE
    LocksTwice = {TRUE, FALSE}
INVARIANTS
    PoolConserved
    NoLostWakeup
PROPERTIES
    ImplementsExclusivePool
    FreeConnectionTaken
    ClosedPoolEmpties
