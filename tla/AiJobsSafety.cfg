SPECIFICATION Spec
CONSTANTS
    Comments = {c1, c2, c3, c4}
    Targets = {"en"}
    Workers = {w1, w2}
    Language <- MCLanguage
    Routed = {c1, c2}
    Reviewed = {c2}
    Sensitive = {c2, c4}
    StartSettings <- MCStart
    Choices <- MCEither
    DailyLimit <- MCLimit
    Models = 1
    MaxAttempts = 2
    MaxPosts = 1
    MaxEdits = 1
    MaxCrashes = 1
    NoJob = NoJob
SYMMETRY MCSymmetry
CHECK_DEADLOCK FALSE
INVARIANTS
    TypeOK
    WaitingCanRun
    SucceededModerationHasAdvice
    CallsAreBounded
PROPERTIES
    OutputsAreFenced
    EndedRowsStay
    ImplementsJobLease
