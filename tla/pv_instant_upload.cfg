SPECIFICATION Spec
CONSTANTS
    u1 = u1
    u2 = u2
    t1 = t1
    t2 = t2
    d1 = d1
    d2 = d2
    d3 = d3
    NULL = NULL
    Md5 = {d1, d2, d3}
    Md5Of <- Digests
    UserOf <- Users
    User = {u1, u2}
    Tab = {t1, t2}
    File = {1}
    Disk <- SameDisk
    TooBig = {}
    Faults = {}
    MaxFaults = 0
    MaxClicks = 4
    MaxTrouble = 0
INVARIANTS
    OwnedFileKept
CHECK_DEADLOCK FALSE
