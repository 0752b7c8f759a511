CONSTANTS
    Timers = {}
    Actors = {"tick", "reload"}
    Kinds = {}
    NumConns = 2
    NumStates = 2
    NumSessions = 3
    QueueCap = 2
    MayFail = FALSE
    Hosts = {"server"}
    MaxEvents = 2
    MaxReloads = 1
    MaxTime = 1
SPECIFICATION FairSpec
PROPERTY OfflineReclaimed
CHECK_DEADLOCK FALSE
