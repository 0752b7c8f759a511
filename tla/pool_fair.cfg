CONSTANTS
    Callers = {c1}
    Res = {r1, r2}
    NoRes = NoRes
    Capacity = 2
    MinSize = 2
    MaxIdle = 2
    IdleTimeout = 1
    ValidateOnBorrow = TRUE
    ValidateOnReturn = FALSE
    ResizeSizes = {}
    MayClose = TRUE
SPECIFICATION FairSpec
PROPERTIES ExpiredReclaimed CloseReturns
CHECK_DEADLOCK FALSE
