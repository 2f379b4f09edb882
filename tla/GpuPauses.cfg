\* Any process may pause at any point while time, and the TTLs, run on.
SPECIFICATION FairSpec
CONSTANTS
    p1 = p1
    p2 = p2
    p3 = p3
    Calls = {p1, p2}
    NoCall = NoCall
    Priority <- OddPriorities
    MinPriority = 0
    MaxPriority = 2
    AgingEnabled = TRUE
    AgingInterval = 1
    AgingStep = 1
    MinEffective = 1
    LockTTL = 2
    Heartbeat = 1
    RequestTTL = 2
    RequestHeartbeat = 1
    WaitTimeout = 3
    WaitCap = 2
    Cancellable = {p2}
    Faults = {"request_lost", "reply_lost"}
    Punctual = FALSE
INVARIANTS OwnerMirrorsLock HolderLeftQueue
PROPERTIES TokenSafety WaitEnds LockRecovered
CHECK_DEADLOCK FALSE
