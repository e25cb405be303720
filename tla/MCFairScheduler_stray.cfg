SPECIFICATION Spec
CONSTANTS
    b1 = b1
    b2 = b2
    red = red
    blue = blue
    None = None
    MaxConns = 2
    Backends = {b1}
    Groups = {red}
    Login <- SingleLogin
    UseGroupAsUser = TRUE
    FeQMax = 1
    Requests = {"bind", "stray"}
    MaxOutages = 0
INVARIANTS
    ParkedMeansPoolBusy
