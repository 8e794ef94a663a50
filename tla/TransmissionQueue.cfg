SPECIFICATION FairSpec
CONSTANTS
    t1 = t1 t2 = t2
    NoMsg = NoMsg
    Senders <- TwoSenders
    Classes <- Mixed
    MaxSends <- TwoAndOne
    QueueSize = 1
    StoreSize = 2
    IdSpace = 4
    FirstId = 3
    MaxFaults = 1
INVARIANTS
    NothingLostUnlessOvertaken
    PublishedInClassOrder
    StoreIsContiguous
    RebootFindsIndexes
    SequenceAhead
PROPERTIES
    Drains
