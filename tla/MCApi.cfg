CONSTANTS
    r1 = r1
    r2 = r2
    s1 = s1
    s2 = s2
    Actions = {a1, a2}
    Runners = {r1, r2}
    Sessions = {s1, s2}
    SessionOwner <- OneEach
    NoSession = NoSession
    MaxAttempt = 1
    MaxFence = 1
    LeaseTicks = 1
    MaxHeartbeat = 1
    MaxEvent = 2
SPECIFICATION PollingSpec
INVARIANTS
    LostLeaseIsRecoverable
PROPERTIES
    LostFenceIsSilent
    QueueProgress
CHECK_DEADLOCK FALSE
