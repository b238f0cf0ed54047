CONSTANTS
    Utterances = 2
    Levels = 2
    MaxScore = 2
    FixedBudget = 96
    Theta <- MCTheta
    Expected = 30
    Setups <- MCSetups
    Fits <- MCFits
    Rates = {20, 60}
    Positions = {5, 26, 28}
    MaxPartials = 2
    MaxOdd = 2
SPECIFICATION Spec
INVARIANTS
    OwnPlace
    WholeSquare
    WellFitted
CHECK_DEADLOCK FALSE
