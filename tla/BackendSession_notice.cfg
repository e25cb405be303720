SPECIFICATION NoticeSpec
CONSTANTS
    Methods = {"trust", "password", "scram", "gss", "scram-plus"}
    Params = {1, 2}
    RowSizes = {0, 2, 3, 5}
    Cap = 8
    UpCap = 2
    DownCap = 8
    MaxRounds = 6
    MaxRequests = 2
    MaxLogins = 3
    MaxCuts = 2
    MaxNotices = 1
INVARIANTS InFrame
CHECK_DEADLOCK FALSE
