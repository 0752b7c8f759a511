CONSTANTS
    Callers = {c1, c2}
    Res = {r1, r2}
    NoRes = NoRes
    Capacity = 2
    MinSize = 1
    MaxIdle = 2
    IdleTimeout = 1
    ValidateOnBorrow = TRUE
    ValidateOnReturn = FALSE
    ResizeSizes = {1}
    MayClose = FALSE
SPECIFICATION FairSpec
PROPERTIES ResizeReturns
CHECK_DEADLOCK FALSE
