SPECIFICATION FairSpec
CONSTANTS
    Workers = 2
    o = o
    c1 = c1
    c2 = c2
    Client = {o, c1, c2}
    Owner = o
    Task = {k1, k2}
    NULL = NULL
    MaySpurious = TRUE
    MayTimeOut = TRUE
INVARIANTS
    TaskOnce
    WaiterWillBeTold
PROPERTIES
    QueuedTaskTaken
    StopReturns
