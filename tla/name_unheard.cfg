SPECIFICATION Spec
CONSTANTS
    Services <- MCServices
    Handlers = {}
    ServiceOf <- AllQuotes
    ErrorHandlers = {e1}
    Requests = {r1}
    Frames <- NewsFrames
    MaxFrame = 2
    MaxLate = 0
    MaxEpoch = 2
    MaxReports = 16
    MaxShapes = 7
    Cancels = FALSE
    Exits = FALSE
INVARIANTS Sighted
