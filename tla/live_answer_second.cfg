\* A venue that puts the late answer before the live one.
SPECIFICATION LoggedInSpec
CONSTANTS
    Callers = {c1}
    Readers = {r1}
    Ops = {"subs"}
    MaxRequest = 3
    MaxSession = 1
    MaxFrame = 3
    MaxCancel = 0
    MaxReports = 2
    Serial = TRUE
    HasTimeout = TRUE
    Verdicts = {"ok", "reject"}
    BatchLimit = 2
    LiveFirst = FALSE
    Unsolicited <- OnlyData
INVARIANTS
    ReportedIsAbandoned
CHECK_DEADLOCK FALSE
