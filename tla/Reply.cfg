CONSTANTS
    MaxTurns = 2
    MaxDeltas = 5
    MinClause = 2
    Target = 4
    Slack = 1
    MinCut = 1
SPECIFICATION Spec
PROPERTIES
    ClosedComplete
    NeverGivenUp
    TurnCloses
CHECK_DEADLOCK FALSE
