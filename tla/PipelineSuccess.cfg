\* Chains with and without force; an extraction may leave nothing to index.
SPECIFICATION Spec
CONSTANTS
    N = 2
    Forces = {TRUE, FALSE}
    Overlap = FALSE
    Yields = {"chunks", "rejected", "blank"}
    QdrantFails = FALSE
    FollowUps = {}
    OnDemand = {}
    MaxRetries = 0
    MaxDeaths = 0
INVARIANT SuccessMeansIndexed
CHECK_DEADLOCK FALSE
