\* Two tasks, five versions, two failures anywhere; restarts resume from the database.
SPECIFICATION FairSpec
CONSTANTS
    NoVersion = NoVersion
    NoBatch = NoBatch
    t1 = t1
    t2 = t2
    Tasks = {t1, t2}
    StartingVersion = NoVersion
    EndingVersion = 4
    Included = {0, 2, 3, 4, 5}
    PbChannelTxnChunkSize = 10
    BufferSize = 2
    ReconnectionMaxRetries = 2
    LedgerHead = 5
    MaxBatch = 2
    U64Size = 100
    MaxFaults = 2
INVARIANTS
    TypeOK
    StatusCovered
    ResultsAreWritten
    NothingSkipped
    ExitIsComplete
PROPERTIES
    ImplementsAtLeastOnce
    WorkerCompletes
