CONSTANTS
    MaxTurns = 2
    MaxSplits = 1
    MaxPartials = 2
    MaxTokens = 1
    Plans <- MCPlans
SPECIFICATION Spec
INVARIANTS
    QuietBetweenTurns
    OneDecode
    OwnFigures
CHECK_DEADLOCK FALSE
