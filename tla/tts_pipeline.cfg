CONSTANTS
    Stops = {s1}
    Asyncs = {}
    Medias = {}
    NumTurns = 1
    Sentences = 2
    Stories = {}
    AudioCap = 2
    MayFail = TRUE
    MayClose = TRUE
SPECIFICATION Spec
PROPERTY PipelineSpec
CHECK_DEADLOCK FALSE
