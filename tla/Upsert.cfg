\* Three versions of two rows, two tasks, one failure or kill; every kind of table but one.
SPECIFICATION Spec
CONSTANTS
    Kinds <- ConvergingKinds
    Keys = {1, 2}
    Histories <- MCHistories
    LastVersion = 3
    t1 = t1
    t2 = t2
    Tasks = {t1, t2}
    MaxBatch = 2
    ChunkSize = 2
    WhereVersions = {}
    MaxFaults = 1
    MaxLives = 2
SYMMETRY TaskSymmetry
INVARIANTS
    TypeOK
    DoneIsVisible
    
PROPERTIES
    NeverStale
