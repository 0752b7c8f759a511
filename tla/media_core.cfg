CONSTANTS
    Driver = Driver
    Other = Other
    Calls = {Driver, Other}
    Kinds <- KindsOf
    Sessions = {s1, s2}
    None = None
    ListedBefore = 1
    MaxPlaybacks = 2
SPECIFICATION Spec
SYMMETRY Symmetry
CONSTRAINT Bound
INVARIANTS TypeOK OneHolder HolderWillRelease ActiveRuns StatusFits
CHECK_DEADLOCK FALSE
