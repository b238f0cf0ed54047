CONSTANTS
    DutyNum = 3
    DutyDen = 5
    MinUncommitted = 2
    AgreementN = 2
    Intercept = 2
    Slope = 0
    MaxTime = 8
    MaxTurns = 2
    MaxCost = 3
    Batch = 3
    Lookback = 1
    TailGuard = 0
    Mode <- MCMode
SPECIFICATION Spec
INVARIANTS
    SpansTile
PROPERTIES
    DutyHeld
    ImplementsLog
CHECK_DEADLOCK FALSE
