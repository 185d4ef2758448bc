SPECIFICATION Spec
CHECK_DEADLOCK FALSE
CONSTANTS
    p1 = p1
    p2 = p2
    k1 = k1
    k2 = k2
    d1 = d1
    d2 = d2
    MaxRequests = 3
    MaxInFlight = 2
    MaxNow = 2
    Tokens = {p1, p2}
    Students = {p1, p2}
    Keys = {k1, k2}
    Interval = 2
    MaxVersion = 4
    Links <- PageStates
    Docs = {d1, d2}
    LastPage = 2
    MaxPageVersion = 3
SYMMETRY Symmetry
PROPERTIES
    RecordsStand
