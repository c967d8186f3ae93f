CONSTANTS
    Setups <- ObjectsDeletionSetups
    Templates <- MCTemplates
    MaxBatch = 2
    QueryRetries = 2
    MaxKills = 0

SPECIFICATION Spec

PROPERTY
    WaitsForObject
