CONSTANTS
    Stops = {s1}
    Asyncs = {}
    Medias = {m1}
    NumTurns = 1
    Sentences = 1
    Stories = {}
    AudioCap = 2
    MayFail = TRUE
    MayClose = TRUE
SPECIFICATION Spec
INVARIANTS TypeOK NoStaleSpeech MediaExclusive
CHECK_DEADLOCK FALSE
