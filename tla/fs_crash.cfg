SPECIFICATION Spec
CONSTANTS
    User = {u1, u2}
    File = {1, 2}
    d1 = d1
    d2 = d2
    Md5 = {d1, d2}
    Md5Of <- TwoDigests
    NULL = NULL
    Ops = {"upload", "save", "share", "cancel", "del", "rank"}
    Faults = {"crash", "sql", "redis", "loss", "dfs"}
    MaxFaults = 2
    MaxUploads = 2
    MaxPv = 0
    MaxDrift = 0
    FreshUploads = TRUE
    Repeats = FALSE
SYMMETRY Users
INVARIANTS
    ShareRowUnique
    OwnedFileStored
    RefCountCoversOwners
    UserCountNeverAbove
