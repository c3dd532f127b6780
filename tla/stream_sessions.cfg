\* Replacing, closing and losing connections, with a cancellation, and logging
\* in again over unreadable responses whose reports are queued.
SPECIFICATION SessionsSpec
CONSTANTS
    Callers = {c1, c2}
    Readers = {r1}
    Ops = {"subs"}
    MaxRequest = 3
    MaxSession = 2
    MaxFrame = 3
    MaxCancel = 1
    MaxReports = 1
    Serial = TRUE
    HasTimeout = TRUE
    Verdicts = {"ok", "reject"}
    BatchLimit = 2
    LiveFirst = TRUE
    Unsolicited <- Anything
INVARIANTS
    ArrivalOrder
    QueuedReportsFresh
CHECK_DEADLOCK FALSE
SYMMETRY CallerSymmetry
