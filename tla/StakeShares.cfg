CONSTANTS
    Setups <- StakeSharesSetups
    Templates <- MCTemplates
    MaxBatch = 2
    QueryRetries = 2
    MaxKills = 0

SPECIFICATION Spec

INVARIANT
    DeletedSharesAreZero
