\* agreement_n = 2, the value every configuration of the repository uses.
CONSTANTS
    N = 2
    TailGuard = 1
    MaxTime = 4
    Key <- MCKey
    Hyp <- MCHyp
SPECIFICATION Spec
INVARIANTS CommittedOnce ClearOfTheEdge
PROPERTIES AgreedByN ImplementsLog
