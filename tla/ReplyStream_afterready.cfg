SPECIFICATION Spec
CONSTANTS
    Kinds = {"bind", "execute", "sync"}
    Clients = {"waits"}
    ForwardQuery = FALSE
    FeQMax = 6
    MaxSent = 8
    MaxPipelined = 8
INVARIANTS
    EndsAtReady
CHECK_DEADLOCK FALSE
