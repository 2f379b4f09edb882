SPECIFICATION Spec
CONSTANTS
    N = 2
    Forces = {TRUE, FALSE}
    LeaseWait = 2
    Timeout = 3
    Soft = 5
    MaxTries = 2
    MaxDeaths = 1
INVARIANTS
    OneLiveParse
    HangEndsCleanly
    NamesOfOneAttempt
CHECK_DEADLOCK FALSE
