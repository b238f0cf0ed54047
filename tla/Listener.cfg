SPECIFICATION FairSpec
CONSTANTS
    Designs <- Shipped
    MaxUtterances = 3
    MaxCrashes = 1
    MaxSplits = 1
INVARIANTS
    OwnWords
    BusyCoversCompute
    QuietFinal
    FrozenThroughReply
PROPERTIES
    OwnFreeze
    Thawed
    SpawnedApart
CHECK_DEADLOCK FALSE
