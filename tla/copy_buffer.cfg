SPECIFICATION FairSpec
CONSTANTS
    Size = 3
    MaxBytes = 5
    MaxRoom = 2
CHECK_DEADLOCK FALSE
PROPERTIES
    ImplementsChannel
    CloseEndsCopy
    EveryByteArrives
