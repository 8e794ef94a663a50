SPECIFICATION FairSpec
CHECK_DEADLOCK FALSE
CONSTANTS
    None = None
    OutKinds <- OutEveryQos
    InKinds <- InQos20
    MaxId = 2
    Window = 1
    MaxDrops = 1
    MaxReboots = 1
    MaxFailures = 1
    MaxForgets = 0
    MaxKvErrors = 0
PROPERTIES
    CachesDrain
