SPECIFICATION FairSpec
CONSTANTS
    b1 = b1
    b2 = b2
    red = red
    blue = blue
    None = None
    MaxConns = 4
    Backends = {b1, b2}
    Groups = {red, blue}
    Login <- TenantLogin
    UseGroupAsUser = TRUE
    FeQMax = 1
    Requests = {"bind", "query"}
    MaxOutages = 0
INVARIANTS
    WorkConserving
PROPERTIES
    ParkedIsServed
    FirstComeFirstServed
