CONSTANTS
    Setups <- EventsIndexSetups
    Templates <- MCTemplates
    MaxBatch = 2
    QueryRetries = 2
    MaxKills = 0

SPECIFICATION Spec

INVARIANT
    EventKeysDistinct
