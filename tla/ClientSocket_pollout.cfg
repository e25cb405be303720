SPECIFICATION Spec
CONSTANTS
    Modes = {"tls"}
    ZeroCopy = FALSE
    Cap = 3
    SockCap = 2
    ZcMin = 2
    Flights = 1
    MaxReply = 2
    MaxBytes = 6
    MaxMsgs = 3
INVARIANTS
    BufferedAsksForPollout
CHECK_DEADLOCK FALSE
