SPECIFICATION Spec
CONSTANTS
    Queries = {q1, q2}
    Options <- MCOptions
    Faults <- MCFaults
    Healthy <- MCHealthy
    WriteProbe = TRUE
    Ttl = 1
    ScanTtl = 2
    Fragile <- MCFragile
    Slowest = 1
    MaxTime = 5
INVARIANTS
    CapabilitiesHold
    HealthyIsCapable
    AnswersAreRecent
SYMMETRY MCSymmetry
CONSTRAINT MCFocus
CHECK_DEADLOCK FALSE
