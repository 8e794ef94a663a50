SPECIFICATION Spec
CONSTANTS
    t1 = t1 t2 = t2
    NoMsg = NoMsg
    Senders <- OneSender
    Classes <- Everything
    MaxSends <- Three
    QueueSize = 1
    StoreSize = 1
    IdSpace = 4
    FirstId = 1
    MaxFaults = 0
INVARIANTS
    NothingLost
