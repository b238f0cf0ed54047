SPECIFICATION Spec
CONSTANTS
    MinIdleSamples = 2
    MaxTime = 8
    MaxTurns = 3
    MaxSplits = 1
    MaxDecodes = 2
    LongestDecode = 4
    IdleWindow = 5
    IdleSettle = 1
    GateQuiet = 2
    OnsetDelay = 1
INVARIANTS  ChargedToFreezer
CHECK_DEADLOCK FALSE
