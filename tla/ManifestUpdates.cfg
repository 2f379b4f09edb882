\* Two writers under the lock and one whose process has no lock client.
SPECIFICATION FairSpec
CONSTANTS
    w1 = w1
    w2 = w2
    w3 = w3
    Writers = {w1, w2, w3}
    NoWriter = NoWriter
    Creators = {w1}
    Unlocked = {w3}
    LockTTL = 2
    Punctual = TRUE
INVARIANTS NoLostUpdate RevisionCountsUpdates
PROPERTIES RevalidationMeansFresh LockFreed
CHECK_DEADLOCK FALSE
