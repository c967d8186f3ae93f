\* Responses broken into chunks of one transaction.
SPECIFICATION Spec
CONSTANTS
    NoVersion = NoVersion
    NoBatch = NoBatch
    t1 = t1
    t2 = t2
    Tasks = {t1, t2}
    StartingVersion = NoVersion
    EndingVersion = 3
    Included = {0, 2, 3, 4}
    PbChannelTxnChunkSize = 1
    BufferSize = 2
    ReconnectionMaxRetries = 1
    LedgerHead = 4
    MaxBatch = 2
    U64Size = 100
    MaxFaults = 0
SYMMETRY TaskSymmetry
INVARIANT
    StatusCovered
