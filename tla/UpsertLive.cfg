\* Two failures in up to three lives; the tables whose rows are sorted by their whole key.
SPECIFICATION FairSpec
CONSTANTS
    Kinds <- OrderedKinds
    Keys = {1, 2}
    Histories <- MCHistories
    LastVersion = 2
    t1 = t1
    t2 = t2
    Tasks = {t1, t2}
    MaxBatch = 1
    ChunkSize = 2
    WhereVersions = {}
    MaxFaults = 2
    MaxLives = 3
INVARIANTS
    NoDeadlock
PROPERTIES
    AllDone
