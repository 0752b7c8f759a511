CONSTANTS
    Timers = {}
    Actors = {"reset"}
    Kinds = {"hello", "cmd"}
    NumConns = 2
    NumStates = 2
    NumSessions = 3
    QueueCap = 2
    MayFail = FALSE
    Hosts = {"server"}
    MaxEvents = 3
    MaxReloads = 0
    MaxTime = 1
SPECIFICATION Spec
INVARIANT SessionOwned
CHECK_DEADLOCK FALSE
