SPECIFICATION FairSpec
CONSTANTS
    Kinds = {"anytls", "plain"}
    Size = 2
    MaxBytes = 2
    MaxRoom = 1
CHECK_DEADLOCK FALSE
INVARIANTS
    OkIsComplete
    ShutAfterData
PROPERTIES
    AllReachesOther
    BothClosedEnds
