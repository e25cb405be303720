SPECIFICATION Spec
CONSTANTS
    Modes = {"plain"}
    ZeroCopy = TRUE
    Cap = 3
    SockCap = 2
    ZcMin = 2
    Flights = 1
    MaxReply = 2
    MaxBytes = 6
    MaxMsgs = 3
INVARIANTS
    QueuedOnceInOrder
CHECK_DEADLOCK FALSE
