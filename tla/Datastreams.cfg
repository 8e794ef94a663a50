SPECIFICATION Spec
CHECK_DEADLOCK FALSE
CONSTANTS
    Configurations <- Configured
    Changes <- SomeChanges
    Downlinks <- FromAstarte
    Uplinks <- ToAstarte
    QueueSize = 1
    MaxAsks = 12
    MaxDown = 2
    MaxUp = 1
    MaxChanges = 1
INVARIANTS
    TypeOK
    MemoryBalanced
    EventsFaithful
    PayloadsFaithful
    IntrospectionFits
PROPERTIES
    FittingDelivered
    InterfacesGrow
