SPECIFICATION Spec
CONSTANTS
    Writes <- MCWrites
    e1 = e1
    e2 = e2
    Extents = {e1, e2}
    None = None
    Ops = {"inline", "append", "replace", "resolve"}
    MaxExtentsPerPage = 2
    MaxRoot = 4
    MaxPages = 3
    MaxCrashes = 1
ACTION_CONSTRAINT AppendIsSafe
INVARIANTS
    
    QuietReads

    
CHECK_DEADLOCK FALSE
