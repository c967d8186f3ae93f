\* Every restart begins at the starting_version of the config; no ending version.
SPECIFICATION Spec
CONSTANTS
    NoVersion = NoVersion
    NoBatch = NoBatch
    t1 = t1
    t2 = t2
    Tasks = {t1, t2}
    StartingVersion = 1
    EndingVersion = NoVersion
    Included = {0, 2, 3, 4}
    PbChannelTxnChunkSize = 10
    BufferSize = 2
    ReconnectionMaxRetries = 1
    LedgerHead = 4
    MaxBatch = 2
    U64Size = 100
    MaxFaults = 2
SYMMETRY TaskSymmetry
INVARIANTS
    StatusCovered
    NothingSkipped
PROPERTIES
    StatusNeverRewinds
CHECK_DEADLOCK FALSE
