CONSTANTS
    Timers = {t1}
    Actors = {"tick"}
    Kinds = {}
    NumConns = 2
    NumStates = 2
    NumSessions = 3
    QueueCap = 2
    MayFail = FALSE
    Hosts = {"server"}
    MaxEvents = 4
    MaxReloads = 0
    MaxTime = 1
SPECIFICATION Spec
PROPERTY StaleCloseSparesFresh
CHECK_DEADLOCK FALSE
