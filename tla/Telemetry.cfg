SPECIFICATION Spec
CONSTANTS
    MinIdleSamples = 2
    MaxTime = 5
    MaxTurns = 2
    LongestTurn = 3
    SocKept = 3
    PowerKept = 4
    NSamples = 1
    NCloseSamples = 2
    Levels = {2, 4}
    ThresholdMw = 3
INVARIANTS OwnEstimate EnergyIsIntegral
CHECK_DEADLOCK FALSE
