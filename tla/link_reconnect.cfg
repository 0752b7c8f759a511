CONSTANTS
    Requests = {}
    MaxConns = 3
    MaxCuts = 2
    MayClose = FALSE
SPECIFICATION FairSpec
PROPERTIES ErrorDisconnectReconnects
CHECK_DEADLOCK FALSE
