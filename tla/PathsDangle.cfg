SPECIFICATION Spec
CONSTANTS
    Configurations <- Configured
    Changes <- SomeChanges
    Downlinks <- FromAstarte
    Uplinks <- ToAstarte
    QueueSize = 1
    MaxAsks = 12
    MaxDown = 2
    MaxUp = 1
    MaxChanges = 1
INVARIANTS
    PathsReadable
