SPECIFICATION FairSpec
CONSTANTS
    u1 = u1
    u2 = u2
    t1 = t1
    t2 = t2
    d1 = d1
    d2 = d2
    d3 = d3
    NULL = NULL
    Md5 = {d1, d2, d3}
    Md5Of <- Digests
    UserOf <- Users
    User = {u1}
    Tab = {t1}
    File = {1, 2, 3}
    Disk <- SameDisk
    TooBig = {3}
    Faults = {"crash", "sql", "query", "redis", "loss", "dfs"}
    MaxFaults = 1
    MaxClicks = 4
    MaxTrouble = 1
INVARIANTS
    TypeOK
    
PROPERTIES
    ImplementsFileService
    PageSettles
CHECK_DEADLOCK FALSE
