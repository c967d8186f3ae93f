CONSTANTS
    Setups <- MCSetups
    Templates <- MCTemplates
    MaxBatch = 2
    QueryRetries = 2
    MaxKills = 1
SPECIFICATION Spec
INVARIANTS
    TypeOK
    ExecutedIsStored
    ListedOnce
    NeverPanics
    HistoryIsTrue
    NothingLost
    TablesConverge
    LedgerAgrees
PROPERTIES
    RowsOnlyAdvance
    Progress
