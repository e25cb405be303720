SPECIFICATION Spec
CONSTANTS
    red = red
    blue = blue
    postgres = postgres
    f1 = f1
    f2 = f2
    f3 = f3
    None = None
    N = 3
    Groups = {red, postgres}
    PoolUser = postgres
    Warm <- SharedWarm
    Callers = {f1, f2}
    UseGroupAsUser = FALSE
    LazyConnect = FALSE
    HealthCheck = TRUE
    NonblockAtStart = TRUE
    SyncUse = TRUE
    MarkDeadUsed = TRUE
SYMMETRY CallerSymmetry
INVARIANTS
    OneOwner
