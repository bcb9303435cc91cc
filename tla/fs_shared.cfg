SPECIFICATION Spec
CONSTANTS
    User = {u1, u2}
    File = {1, 2}
    d1 = d1
    d2 = d2
    Md5 = {d1, d2}
    Md5Of <- OneDigest
    NULL = NULL
    Ops = {"upload", "md5", "share", "cancel", "del", "sharepv", "rank"}
    Faults = {"crash", "sql", "drop", "query", "redis", "loss", "dfs"}
    MaxFaults = 1
    MaxUploads = 1
    MaxPv = 1
    MaxDrift = 0
    FreshUploads = FALSE
    Repeats = TRUE
SYMMETRY Users
INVARIANTS
    SharedFileOwned
