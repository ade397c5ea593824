CONSTANTS
    Requests = {r1, r2}
    MaxId = 5
    Slots <- MCSlots
    Seed <- MCSeed
    SeedFree = {4}
    None = None
    MaxOps = 1
    MaxFaults = 1
SPECIFICATION Spec
SYMMETRY Perms
INVARIANT FreshRead
CHECK_DEADLOCK FALSE
