SPECIFICATION Spec
CHECK_DEADLOCK FALSE
CONSTANTS
    None = None
    OutKinds <- OutReusingIds
    InKinds <- InQos21
    MaxId = 2
    Window = 1
    MaxDrops = 2
    MaxReboots = 1
    MaxFailures = 0
    MaxForgets = 1
    MaxKvErrors = 1
INVARIANTS
    AtLeastOnce
    FlashMirrorsCache
    ReceivedOnce
    NoStaleSession
    ReceivedIfDone
