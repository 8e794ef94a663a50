SPECIFICATION FairSpec
CONSTANTS
    k1 = k1 k2 = k2 k3 = k3 k4 = k4 v1 = v1 v2 = v2
    NULL = NULL
    NoEntry = NoEntry
    Keys = {k1, k2, k3}
    Vals = {v1}
    MinId = 2
    MaxId = 4
    Hash <- HashWrapping
    PowerLossAt <- AllPhases
    ZmsErrorAt <- ErrorsAnywhere
    MountErrors = TRUE
    WrapFaults = TRUE
INVARIANTS
    IntentCoversWrite
PROPERTIES
    WriteAhead
    CallsEnd
