SPECIFICATION Spec
CONSTANTS
    User = {u1, u2}
    Md5 = {m1, m2}
    NULL = NULL
    Faults = {"crash"}
    MaxFaults = 1
    MaxDrawn = 2
    MaxRows = 3
    MaxViews = 2
INVARIANTS
    LinkIsOnePicture
