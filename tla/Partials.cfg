CONSTANTS
    MaxTurns = 3
    MaxSplits = 1
    NOffsets = 2
SPECIFICATION Spec
INVARIANTS
    OwnRecord
    IssuedWritten
CHECK_DEADLOCK FALSE
