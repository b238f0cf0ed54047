CONSTANTS
    Runs = {r1, r2}
    Options <- MCOptions
    TEARDOWN_TIMEOUT_S = 5
    DEVICE_SETTLE_S = 3
    Lags = {0, 4, 5}
    MaxKills = 1
SPECIFICATION Spec
INVARIANTS
    BaselineFree
    SetMeansPinned
    LeavesNothing
PROPERTY Leaves
CHECK_DEADLOCK FALSE
