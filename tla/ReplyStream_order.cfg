SPECIFICATION FairSpec
CONSTANTS
    Kinds = {"parse", "bind", "execute", "sync", "query"}
    Clients = {"waits", "pipelines", "overfills"}
    ForwardQuery = TRUE
    FeQMax = 3
    MaxSent = 8
    MaxPipelined = 7
INVARIANTS
    TypeOK
    OutcomeOnceInOrder
    NoLostResult
PROPERTIES
    SyncAnswered
CHECK_DEADLOCK FALSE
