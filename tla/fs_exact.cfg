SPECIFICATION Spec
CONSTANTS
    User = {u1, u2}
    File = {1, 2}
    d1 = d1
    d2 = d2
    Md5 = {d1, d2}
    Md5Of <- TwoDigests
    NULL = NULL
    Ops = {"upload", "pv", "save", "share", "cancel", "del", "sharepv", "rank", "list"}
    Faults = {"loss"}
    MaxFaults = 1
    MaxUploads = 2
    MaxPv = 1
    MaxDrift = 1
    FreshUploads = TRUE
    Repeats = FALSE
SYMMETRY Users
INVARIANTS
    CountsExact
    SharedFlagAgrees
    RankingNamed
    RankingListsShares
    ShareCountNeverAbove
