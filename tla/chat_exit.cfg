CONSTANTS
    Transports = {"mqtt"}
    Injectors = {i1}
    Actors = {"talk"}
    Messages = {"hello", "listen"}
    SpeakRequest = TRUE
    NumSessions = 2
    NumRequests = 1
    MaxWork = 3
SPECIFICATION Spec
PROPERTY ExitNeedsHello
CHECK_DEADLOCK FALSE
