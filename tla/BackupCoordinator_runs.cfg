SPECIFICATION FairSpec
CONSTANTS
    Nodes = {n1, n2}
    Backups = {1, 2}
    Clock = {1}
    Retention = 1
    MaxFaults = 2
INVARIANTS
    TypeOK
    CommittedPublished
    NewestRetained
PROPERTIES
    TasksAdvance
    TasksEnd
    
