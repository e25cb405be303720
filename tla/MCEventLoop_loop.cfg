SPECIFICATION Spec
CONSTANTS
    b1 = b1
    None = None
    MaxConns = 2
    Backends = {b1}
    Modes = {"plain", "tls"}
    MaxAccepts = 3
    MaxSessions = 1
    MaxTurnover = 3
INVARIANTS
    TypeOK
    DescriptorsMatch
    HearsEverybody
    WaitRingExact
    CleanSlotStaysClean
    PipelinesSound
CHECK_DEADLOCK FALSE
