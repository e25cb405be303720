SPECIFICATION FairSpec
CONSTANTS
    Methods = {"trust", "password", "scram", "gss", "scram-plus"}
    Params = {1, 2}
    RowSizes = {0, 2, 3, 5}
    Cap = 8
    UpCap = 2
    DownCap = 8
    MaxRounds = 6
    MaxRequests = 2
    MaxLogins = 3
    MaxCuts = 2
    MaxNotices = 0
INVARIANTS TypeOK ReplyAccounted IdleInStep
PROPERTIES LoginFailsForCause SmallReplyIsServed EveryTurnEnds KeepsItsPromise
CHECK_DEADLOCK FALSE
