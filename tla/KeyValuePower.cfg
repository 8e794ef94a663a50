SPECIFICATION Spec
CONSTANTS
    k1 = k1 k2 = k2 k3 = k3 k4 = k4 v1 = v1 v2 = v2
    NULL = NULL
    NoEntry = NoEntry
    Keys = {k1, k2, k3, k4}
    Vals = {v1, v2}
    MinId = 2
    MaxId = 4
    Hash <- HashWrapping
    PowerLossAt <- OutsideCopyWindow
    ZmsErrorAt <- ErrorsOutsideWindow
    MountErrors = FALSE
    WrapFaults = FALSE
INVARIANTS
    ListThreadsEveryRecord
    ProbeFindsEveryRecord
    RecoverySucceeds
PROPERTIES
    IsAtomicMap
