SPECIFICATION Spec
CONSTANTS
    Puts = {p1, p2}
    Old = old
    Ids = {i1, i2}
    InitObjects = {"none", "V1", "V2"}
    KeyKinds = {"flat"}
    LiveRestart = FALSE
    MaxFaults = 1
    None = None
INVARIANTS
    TypeOK
    ContentNotDeleted
    
PROPERTIES
    CommittedIsVisible
SYMMETRY Symmetry
CHECK_DEADLOCK FALSE
