SPECIFICATION FairSpec
CONSTANTS
    Comments = {c1}
    Targets = {"en", "de"}
    Workers = {w1}
    Language <- MCLanguage
    Routed = {}
    Reviewed = {}
    Sensitive = {}
    StartSettings <- MCTranslating
    Choices <- MCRetarget
    DailyLimit <- MCOneCall
    Models = 2
    MaxAttempts = 2
    MaxPosts = 1
    MaxEdits = 1
    MaxCrashes = 1
    NoJob = NoJob
CHECK_DEADLOCK FALSE
PROPERTIES
    EveryJobEnds
