SPECIFICATION Spec
CHECK_DEADLOCK FALSE
CONSTANTS
    w1 = w1
    w2 = w2
    w3 = w3
    k1 = k1
    k2 = k2
    none = none
    g1 = g1
    g2 = g2
    Words = {w1, w2, w3}
    Keys = {k1, k2}
    NoKey = none
    Wording <- MCWording
    Grades = {g1, g2}
    PackGrade = g2
    TermLimit = 2
    MaxRequests = 3
INVARIANTS
    TypeOK
    TermsWithinLimit
    OneTermPerWord
    UpgradeIsWhole
PROPERTIES
    OwnTermsStay
