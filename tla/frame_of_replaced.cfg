\* A frame in hand while its connection is replaced.
SPECIFICATION LoggedInSpec
CONSTANTS
    Callers = {c1}
    Readers = {r1}
    Ops = {"login", "subs", "close"}
    MaxRequest = 4
    MaxSession = 2
    MaxFrame = 2
    MaxCancel = 0
    MaxReports = 2
    Serial = TRUE
    HasTimeout = TRUE
    Verdicts = {"reject"}
    BatchLimit = 2
    LiveFirst = TRUE
    Unsolicited <- OnlyData
INVARIANTS
    NothingFromReplaced
CHECK_DEADLOCK FALSE
