CONSTANTS
    Timers = {}
    Actors = {}
    Kinds = {"cmd"}
    NumConns = 2
    NumStates = 2
    NumSessions = 3
    QueueCap = 4
    MayFail = FALSE
    Hosts = {"server"}
    MaxEvents = 3
    MaxReloads = 0
    MaxTime = 2
SPECIFICATION Spec
INVARIANT StatusFollowsBroker
CHECK_DEADLOCK FALSE
