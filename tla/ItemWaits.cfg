SPECIFICATION Spec
CONSTANTS
    Api = {api1}
    Workers = {w1, w2}
    Jobs = {"item", "d1"}
    Item = "item"
    Actors <- MCActors
    Pdfs <- MCPdfs
    Forces = {FALSE}
    MaxAttempts = 2
    MaxRequests = 2
    MaxFaults = 1
    MaxOutages = 1
INVARIANTS ResolvedMeansSent WaitNotForgotten IndexesFollowRecords
SYMMETRY Symmetric
CHECK_DEADLOCK FALSE
