\* Two requests, two keys, two questions; one stale row is expired at a time.
SPECIFICATION FairSpec
CONSTANTS
    Requests = {r1, r2}
    Keys = {k1, k2}
    Questions = {q1, q2}
    ExpiryTicks = 1
    CleanupLimit = 1
INVARIANTS
    OneCallPerKey
PROPERTIES
    NothingStoredOnceArchived
    PendingTurnEnds
CHECK_DEADLOCK FALSE
