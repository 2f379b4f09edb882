\* Two chains, one after the other, with their follow-ups.
SPECIFICATION FairSpec
CONSTANTS
    N = 2
    Forces = {TRUE}
    Overlap = FALSE
    Yields = {"chunks", "rejected", "blank"}
    QdrantFails = TRUE
    FollowUps = {"enrichment"}
    OnDemand = {}
    MaxRetries = 1
    MaxDeaths = 1
INVARIANTS TypeOK FailureListed SuccessMeansIndexed CompletedExtractionIsStored
PROPERTIES JobEnds
CHECK_DEADLOCK FALSE
