SPECIFICATION Spec
CONSTANTS
    Kinds = {"parse", "bind", "execute", "sync", "query"}
    Clients = {"pipelines"}
    ForwardQuery = TRUE
    FeQMax = 6
    MaxSent = 5
    MaxPipelined = 5
INVARIANTS
    ReplyIntact
CHECK_DEADLOCK FALSE
