SPECIFICATION Spec
CONSTANTS
    c1 = c1
    c2 = c2
    Conns <- MCConns
    After <- MCAfter
    UUIDs = {u}
    UUIDOf <- MCUUIDOf
    Tokens = {t}
    TokenOf <- MCTokenOf
    Versions <- MCVersions
    NoRole = NoRole
    Unreadable = Unreadable
    NoConn = NoConn
    MaxSaves = 1
    MaxInflights = 1
    WriteCap = 1
    MaxJobs = 1
INVARIANTS
    TypeOK
    UuidEntryIsLive
    StaleMeansReloadDue
PROPERTIES
    TableCatchesUp
    GoneConsumerIsRemoved
    AcceptedArrives
    AdmittedByFile
CHECK_DEADLOCK FALSE
