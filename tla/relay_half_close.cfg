SPECIFICATION Spec
CONSTANTS
    Kinds = {"anytls"}
    Size = 1
    MaxBytes = 1
    MaxRoom = 1
CHECK_DEADLOCK FALSE
INVARIANT
    HalfCloseContinues
