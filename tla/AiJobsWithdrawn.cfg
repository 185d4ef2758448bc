SPECIFICATION Spec
CONSTANTS
    Comments = {c1}
    Targets = {"en"}
    Workers = {w1, w2}
    Language <- MCLanguage
    Routed = {}
    Reviewed = {}
    Sensitive = {}
    StartSettings <- MCTranslating
    Choices <- MCRetarget
    DailyLimit <- MCLimit
    Models = 1
    MaxAttempts = 2
    MaxPosts = 1
    MaxEdits = 1
    MaxCrashes = 0
    NoJob = NoJob
CHECK_DEADLOCK FALSE
INVARIANT
    WithdrawnStaysWithdrawn
