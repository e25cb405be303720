SPECIFICATION Spec
CONSTANTS
    b1 = b1
    None = None
    MaxConns = 1
    Backends = {b1}
    Modes = {"tls"}
    MaxAccepts = 2
    MaxSessions = 1
    MaxTurnover = 3
INVARIANTS
    NothingLeaks
CHECK_DEADLOCK FALSE
