SPECIFICATION Spec
CONSTANTS
    Inodes = {i1}
    Chunks = {c1}
    Workers = {w1, w2}
    RowValues = {r1, r2}
    None = None
    Quarantine = 2
    MaxScan = 0
    MaxSession = 1
    MaxTime = 2
    PartialFlush = FALSE
    StaleSetattr = FALSE
INVARIANTS
    TypeOK
    TombstonePair
    SessionChunksSurvive
    NoDanglingReference
SYMMETRY Symmetry
