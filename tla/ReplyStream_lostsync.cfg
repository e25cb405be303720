SPECIFICATION Spec
CONSTANTS
    Kinds = {"bind", "execute", "sync"}
    Clients = {"pipelines"}
    ForwardQuery = FALSE
    FeQMax = 6
    MaxSent = 6
    MaxPipelined = 6
INVARIANTS
    EverySyncAnswered
CHECK_DEADLOCK FALSE
