\* What is begun ends, under the fairness of each scene, and a login ends well.
SPECIFICATION ScenesSpec
CONSTANTS
    Programs = {"p1"}
    Holders = {"p1"}
    MaxAttempt = 2
    MaxRedirect = 1
    Timeouts = TRUE
INVARIANTS
    OwnCode
    NotSpent
    PortInHand
PROPERTIES
    RequestsEnd
    LoginsEnd
    Delivered
    CallsEnd
    AnsweredCallsEnd
CHECK_DEADLOCK FALSE
