CONSTANTS
    Stops = {}
    Asyncs = {a1}
    Medias = {m1}
    NumTurns = 1
    Sentences = 1
    Stories = {1}
    AudioCap = 1
    MayFail = FALSE
    MayClose = FALSE
SPECIFICATION FairSpec
PROPERTIES PipelineSpec TurnEnds InterruptReturns StopCarriedOut
CHECK_DEADLOCK FALSE
