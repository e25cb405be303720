SPECIFICATION FairSpec
CONSTANTS
    Modes = {"plain", "tls"}
    ZeroCopy = FALSE
    Cap = 3
    SockCap = 2
    ZcMin = 2
    Flights = 1
    MaxReply = 2
    MaxBytes = 7
    MaxMsgs = 3
INVARIANTS
    TypeOK
    QueuedOnceInOrder
PROPERTIES
    QueuedArrives
    HangUpFrees
CHECK_DEADLOCK FALSE
