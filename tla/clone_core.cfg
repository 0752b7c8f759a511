CONSTANTS
    Tasks = {t1, t2}
    Workers = {w1, w2}
    Retries = {r1}
    NoTask = NoTask
    QueueSize = 1
    MaxCrashes = 1
    MayFail = TRUE
SPECIFICATION FairSpec
INVARIANTS TypeOK StatusAgrees NoTaskForgotten RunsAlone
PROPERTIES DeletedStays TaskSettles
CHECK_DEADLOCK FALSE
