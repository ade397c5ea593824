SPECIFICATION Spec
CONSTANTS
    Extents = {a, b}
    Gens = {1}
    Encoded = {}
    Requests = {r1, r2}
    None = None
    SegCap = 1
    MaxSegs = 3
    MaxBatch = 1
    ApplyCap = 1
    MaxFaults = 1
    MaxCompactions = 0
INVARIANTS
    RecoveryRebuilds
CHECK_DEADLOCK FALSE
