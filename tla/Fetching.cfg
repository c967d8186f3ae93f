\* Responses of up to four transactions in chunks of two; failures up to and past the retry limit.
SPECIFICATION Spec
CONSTANTS
    NoVersion = NoVersion
    StartingVersion = 1
    EndingVersion = 7
    Included = {1, 3, 4, 5, 7, 8}
    PbChannelTxnChunkSize = 2
    BufferSize = 2
    ReconnectionMaxRetries = 3
    LedgerHead = 8
    MaxBatch = 4
    U64Size = 100
    MaxFaults = 6
INVARIANTS
    TypeOK
    EachTransactionOnce
    RangesAreAdjacent
    ClosedMeansDelivered
    NothingPastEnding
PROPERTY
    FetcherFinishes
