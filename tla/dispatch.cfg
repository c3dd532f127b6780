\* What handlers hear of the frames that are read, and error handlers of what
\* failed.
SPECIFICATION ScenesSpec
CONSTANTS
    Services <- MCServices
    Handlers = {"h1", "h2"}
    ServiceOf <- AllQuotes
    ErrorHandlers = {"e1"}
    q1 = q1
    q2 = q2
    Requests = {q1}
    Frames <- TwoFrames
    MaxFrame = 1
    MaxLate = 0
    MaxEpoch = 2
    MaxReports = 4
    MaxShapes = 4
    Cancels = FALSE
    Exits = FALSE
SYMMETRY Alike
INVARIANTS
    EveryHandlerHears
    FailureTold
    DrainsOnce
    NewsHeard
