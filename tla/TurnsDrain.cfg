SPECIFICATION Spec
CONSTANTS
    Files = 2
    MaxSplits = 0
    MaxHangs = 1
PROPERTY
    DrainsAfterAbnormal
CHECK_DEADLOCK FALSE
