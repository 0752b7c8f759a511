CONSTANTS
    Timers = {}
    Actors = {}
    Kinds = {"hello", "cmd"}
    NumConns = 2
    NumStates = 2
    NumSessions = 3
    QueueCap = 2
    MayFail = TRUE
    Hosts = {"broker", "server"}
    MaxEvents = 3
    MaxReloads = 0
    MaxTime = 2
SPECIFICATION Spec
INVARIANT PushHasConn
CHECK_DEADLOCK FALSE
