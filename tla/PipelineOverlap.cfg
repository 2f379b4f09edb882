\* Two chains that overlap, and both follow-ups on demand.
SPECIFICATION Spec
CONSTANTS
    N = 2
    Forces = {TRUE, FALSE}
    Overlap = TRUE
    Yields = {"chunks", "blank"}
    QdrantFails = TRUE
    FollowUps = {}
    OnDemand = {"enrichment", "discourse"}
    MaxRetries = 0
    MaxDeaths = 1
PROPERTIES IndexNeverEmptied
CHECK_DEADLOCK FALSE
