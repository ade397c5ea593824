SPECIFICATION Spec
CONSTANTS
    Chunks = {c1}
    Workers = {w1}
    Backups = {b1, b2}
    None = None
    Quarantine = 4
    CatalogMaxAge = 1
    MaxUpload = 1
    MaxScan = 1
    Retention = 1
    MaxTime = 6
    Unfenced = FALSE
INVARIANTS
    TypeOK
    CatalogComplete
    
SYMMETRY Symmetry
