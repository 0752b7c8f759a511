CONSTANTS
    Transports = {"websocket"}
    Injectors = {}
    Actors = {"talk", "close"}
    Messages = {"hello"}
    SpeakRequest = TRUE
    NumSessions = 2
    NumRequests = 1
    MaxWork = 3
SPECIFICATION FairSpec
PROPERTY ExitClosesWebSocket
CHECK_DEADLOCK FALSE
