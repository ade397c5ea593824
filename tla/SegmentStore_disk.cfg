SPECIFICATION Spec
CONSTANTS
    Extents = {a, b}
    Gens = {1}
    Encoded = {b}
    Requests = {r1, r2, r3}
    None = None
    SegCap = 2
    MaxSegs = 3
    MaxBatch = 2
    ApplyCap = 1
    MaxFaults = 1
    MaxCompactions = 1
INVARIANTS
    TypeOK
    CheckpointCovers
    CheckpointAccepted
    
    DeletedStaysDeleted
CONSTRAINT Explored
SYMMETRY RequestSymmetry
CHECK_DEADLOCK FALSE
