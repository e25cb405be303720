SPECIFICATION Spec
CONSTANTS
    red = red
    blue = blue
    postgres = postgres
    f1 = f1
    f2 = f2
    f3 = f3
    None = None
    N = 3
    Groups = {red, blue}
    PoolUser = postgres
    Warm <- TenantWarm
    Callers = {f1, f2}
    UseGroupAsUser = TRUE
    LazyConnect = TRUE
    HealthCheck = TRUE
    NonblockAtStart = TRUE
    SyncUse = TRUE
    MarkDeadUsed = FALSE
SYMMETRY CallerSymmetry
INVARIANTS
    TypeOK
    OneOwner
    TenantIsolation
    Recoverable
    DirtyOnlyIfGivenUp
