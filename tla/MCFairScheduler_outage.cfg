SPECIFICATION Spec
CONSTANTS
    b1 = b1
    b2 = b2
    red = red
    blue = blue
    None = None
    MaxConns = 3
    Backends = {b1, b2}
    Groups = {red}
    Login <- SharedLogin
    UseGroupAsUser = FALSE
    FeQMax = 2
    Requests = {"bind", "stray", "query"}
    MaxOutages = 1
INVARIANTS
    TypeOK
    SchedulerInv
    ExclusiveBackend
    RingExact
    NoStrandedRequest
    WorkConserving
