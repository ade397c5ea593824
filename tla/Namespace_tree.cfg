CONSTANTS
    Requests = {r1, r2}
    MaxId = 5
    Slots <- MCSlots
    Seed <- MCSeed
    SeedFree = {4}
    None = None
    MaxOps = 2
    MaxFaults = 1
SPECIFICATION Spec
SYMMETRY Perms
CONSTRAINT UntilStale
INVARIANTS TypeOK RowIdentity   
CHECK_DEADLOCK FALSE
