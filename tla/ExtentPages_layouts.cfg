SPECIFICATION Spec
CONSTANTS
    Writes <- MCWrites
    e1 = e1
    e2 = e2
    Extents = {e1, e2}
    None = None
    Ops = {"inline", "promote", "append", "replace", "allocate"}
    MaxExtentsPerPage = 2
    MaxRoot = 3
    MaxPages = 2
    MaxCrashes = 1
INVARIANTS
    TypeOK
    PagesPresent
    ResolvableExtents
CHECK_DEADLOCK FALSE
