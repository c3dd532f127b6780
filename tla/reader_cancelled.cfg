\* Cancelling handle_message fails an innocent request.
SPECIFICATION LoggedInSpec
CONSTANTS
    Callers = {c1}
    Readers = {r1}
    Ops = {"subs"}
    MaxRequest = 3
    MaxSession = 1
    MaxFrame = 3
    MaxCancel = 1
    MaxReports = 2
    Serial = TRUE
    HasTimeout = TRUE
    Verdicts = {"ok", "reject"}
    BatchLimit = 1
    LiveFirst = TRUE
    Unsolicited <- OnlyData
INVARIANTS
    FailedReadMeansNoReply
CHECK_DEADLOCK FALSE
