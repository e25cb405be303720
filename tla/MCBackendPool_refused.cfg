SPECIFICATION Spec
CONSTANTS
    red = red
    blue = blue
    postgres = postgres
    f1 = f1
    f2 = f2
    f3 = f3
    None = None
    N = 2
    Groups = {red, blue}
    PoolUser = postgres
    Warm <- RedWarm
    Callers = {f1}
    UseGroupAsUser = TRUE
    LazyConnect = TRUE
    HealthCheck = FALSE
    NonblockAtStart = TRUE
    SyncUse = FALSE
    MarkDeadUsed = FALSE
PROPERTIES
    RefusedOnlyIfNoneIdle
