CONSTANTS
    Transports = {"mqtt", "websocket"}
    Injectors = {i1}
    Actors = {"ready", "talk", "net"}
    Messages = {"hello", "listen", "goodbye", "other"}
    SpeakRequest = FALSE
    NumSessions = 2
    NumRequests = 1
    MaxWork = 4
SPECIFICATION Spec
INVARIANTS TypeOK LiveSessionHeld ChannelClosedOnce WaiterWillWake
CHECK_DEADLOCK FALSE
