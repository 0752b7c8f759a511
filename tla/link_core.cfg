CONSTANTS
    Requests = {r1}
    MaxConns = 2
    MaxCuts = 1
    MayClose = TRUE
CONSTRAINT Bound
SPECIFICATION Spec
INVARIANTS TypeOK RegisteredOpen ClosedStaysClosed Attended RegisteredServed
CHECK_DEADLOCK FALSE
