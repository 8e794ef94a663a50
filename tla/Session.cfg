SPECIFICATION FairSpec
CONSTANTS
    a = a
    Control = control
    Unknown = unknown
    Interfaces <- OneInterface
    Firmware <- OneImage
    Faults <- Everything
    MaxFaults = 3
    MaxUnnoticed = 2
    MaxWire = 1
    Preempts = FALSE
INVARIANTS
    ConnectedMeansKnown
    SynchronizedMeansHeard
    TellsConnection
    Reconnectable
PROPERTIES
    FollowsDiagram
    StaysDisconnected
    Settles
