SPECIFICATION FairSpec
CONSTANTS
    Comments = {c1}
    MaxCatchUp = 2
    MaxEvents = 3
    MaxDrops = 1
    MaxReloads = 1
    NoComment = NoComment
CHECK_DEADLOCK FALSE
INVARIANTS
    TypeOK
    SentInOrder
    ViewIsPrefix
    CaughtUpShowsNoWithdrawn
PROPERTIES
    ImplementsLogReader
    CatchesUp
