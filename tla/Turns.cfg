SPECIFICATION FairSpec
CONSTANTS
    Files = 3
    MaxSplits = 1
    MaxHangs = 1
INVARIANTS
    OwnReply
    NoFalseAlarm
    NoStrandedFinal
    BothHalves
    ScoredOnItsOwn
    WholeKept
PROPERTIES
    RunCompletes
CHECK_DEADLOCK FALSE
