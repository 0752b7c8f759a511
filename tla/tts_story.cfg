CONSTANTS
    Stops = {}
    Asyncs = {}
    Medias = {}
    NumTurns = 1
    Sentences = 1
    Stories = {1}
    AudioCap = 2
    MayFail = FALSE
    MayClose = TRUE
SPECIFICATION FairSpec
PROPERTIES StoryEnds
CHECK_DEADLOCK FALSE
