SPECIFICATION Spec
CONSTANTS
    k1 = k1 k2 = k2 k3 = k3 k4 = k4 v1 = v1 v2 = v2
    NULL = NULL
    NoEntry = NoEntry
    Keys = {k1, k2, k3}
    Vals = {v1, v2}
    MinId = 2
    MaxId = 5
    Hash <- HashClustered
    PowerLossAt <- AllPhases
    ZmsErrorAt <- NoPhases
    MountErrors = FALSE
    WrapFaults = TRUE
PROPERTIES
    IsAtomicMap
