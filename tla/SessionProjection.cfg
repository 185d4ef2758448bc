SPECIFICATION Spec
CHECK_DEADLOCK FALSE
CONSTANTS
    r1 = r1
    r2 = r2
    plain = plain
    large = large
    Requests = {r1, r2}
    Looks = {plain, large}
    MaxStamp = 3
    Faults = {"error", "lost", "crash"}
SYMMETRY RequestSymmetry
INVARIANTS
    TypeOK
    AgreeOrKnown
    PublishedIsStored
PROPERTIES
    NoLostUpdate
