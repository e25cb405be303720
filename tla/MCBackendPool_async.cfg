SPECIFICATION Spec
CONSTANTS
    red = red
    blue = blue
    postgres = postgres
    f1 = f1
    f2 = f2
    f3 = f3
    None = None
    N = 2
    Groups = {red}
    PoolUser = postgres
    Warm <- SharedWarm
    Callers = {f1, f2}
    UseGroupAsUser = FALSE
    LazyConnect = FALSE
    HealthCheck = FALSE
    NonblockAtStart = TRUE
    SyncUse = FALSE
    MarkDeadUsed = FALSE
INVARIANTS
    IdleSessionsClean
