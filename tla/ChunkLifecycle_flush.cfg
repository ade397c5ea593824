SPECIFICATION FlushSpec
CONSTANTS
    Inodes = {i1}
    Chunks = {c1, c2, c3}
    Workers = {w1}
    RowValues = {r1}
    None = None
    Quarantine = 1
    MaxScan = 0
    MaxSession = 0
    MaxTime = 1
    PartialFlush = TRUE
    StaleSetattr = FALSE
INVARIANTS
    NoDanglingReference
SYMMETRY Symmetry
