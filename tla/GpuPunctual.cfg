SPECIFICATION Spec
CONSTANTS
    p1 = p1
    p2 = p2
    p3 = p3
    Calls = {p1, p2, p3}
    NoCall = NoCall
    Priority <- ThreePriorities
    MinPriority = 0
    MaxPriority = 10
    AgingEnabled = TRUE
    AgingInterval = 1
    AgingStep = 1
    MinEffective = 0
    LockTTL = 3
    Heartbeat = 1
    RequestTTL = 3
    RequestHeartbeat = 2
    WaitTimeout = 4
    WaitCap = 3
    Cancellable = {p2}
    Faults = {"request_lost", "reply_lost"}
    Punctual = TRUE
INVARIANTS ExclusiveLease PollingKeepsPlace
PROPERTIES FirstComeFirstServed AgingEndsOvertaking ImplementsLeaseService
CHECK_DEADLOCK FALSE
