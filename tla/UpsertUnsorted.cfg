\* The tables whose rows are not sorted by their whole primary key.
SPECIFICATION Spec
CONSTANTS
    Kinds <- UnsortedKinds
    Keys = {1, 2}
    Histories <- MCHistories
    LastVersion = 2
    t1 = t1
    t2 = t2
    Tasks = {t1, t2}
    MaxBatch = 1
    ChunkSize = 2
    WhereVersions = {}
    MaxFaults = 0
    MaxLives = 1
SYMMETRY TaskSymmetry
INVARIANTS
    NoDeadlock
