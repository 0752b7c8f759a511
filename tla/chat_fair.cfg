CONSTANTS
    Transports = {"mqtt"}
    Injectors = {i1}
    Actors = {"timer", "talk", "close"}
    Messages = {"hello", "goodbye", "speak_ready"}
    SpeakRequest = TRUE
    NumSessions = 2
    NumRequests = 1
    MaxWork = 3
SPECIFICATION FairSpec
PROPERTY CallsReturn
CHECK_DEADLOCK FALSE
