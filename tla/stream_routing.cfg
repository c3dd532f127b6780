\* One session: requests that time out or are cancelled, late and batched
\* answers, frames of every other kind, a reader that comes and goes.
SPECIFICATION RoutingSpec
CONSTANTS
    Callers = {c1, c2}
    Readers = {r1}
    Ops = {"subs"}
    MaxRequest = 3
    MaxSession = 2
    MaxFrame = 3
    MaxCancel = 1
    MaxReports = 1
    Serial = TRUE
    HasTimeout = TRUE
    Verdicts = {"ok", "reject"}
    BatchLimit = 2
    LiveFirst = TRUE
    Unsolicited <- Anything
INVARIANTS
    TypeOK
    ReadLockDiscipline
    SlotDiscipline
    OwnAnswer
    RejectionHeard
    ToldOnce
    NotOvertaken
CHECK_DEADLOCK FALSE
SYMMETRY CallerSymmetry
