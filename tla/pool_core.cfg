CONSTANTS
    Callers = {c1, c2}
    Res = {r1, r2, r3, r4}
    NoRes = NoRes
    Capacity = 2
    MinSize = 1
    MaxIdle = 2
    IdleTimeout = 1
    ValidateOnBorrow = TRUE
    ValidateOnReturn = TRUE
    ResizeSizes = {1, 3}
    MayClose = TRUE
SPECIFICATION Spec
SYMMETRY Symmetry
INVARIANTS TypeOK ExclusiveUse NothingLost SizeBound PutBackHasRoom
CHECK_DEADLOCK FALSE
