SPECIFICATION FairSpec
CHECK_DEADLOCK FALSE
CONSTANTS
    d1 = d1 d2 = d2 s1 = s1 s2 = s2 o1 = o1 f1 = f1 v1 = v1 v2 = v2
    NULL = NULL
    Keys <- AllKeys
    Mine <- Names
    LastId = 5
    Hash <- HashOf
    Values = {v1}
    Ifaces = {d1, s1, o1}
    Iface <- IfaceOf
    Owner <- OwnerOf
    Firmwares <- TwoFirmwares
    Pasts <- SomePasts
    MaxChanges = 1
    MaxServer = 1
    MaxOutages = 1
INVARIANTS
    TypeOK
    ServerValuesAgree
    UplinkAgrees
PROPERTIES
    PurgeExact
    PurgeListComplete
    NoneStale
    WalksEnd
