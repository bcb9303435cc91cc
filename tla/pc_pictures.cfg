SPECIFICATION Spec
CONSTANTS
    User = {u1, u2}
    Md5 = {m1, m2}
    NULL = NULL
    Faults = {"crash", "sql", "query"}
    MaxFaults = 2
    MaxDrawn = 2
    MaxRows = 2
    MaxViews = 2
SYMMETRY Symmetry
INVARIANTS
    GivenLinkKept
    TotalOffByFaults
    NothingHidden
    ViewsCounted
