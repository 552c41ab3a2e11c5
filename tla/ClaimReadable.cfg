CONSTANTS
    r1 = r1
    s1 = s1
    s2 = s2
    Actions = {a1}
    Runners = {r1}
    Sessions = {s1, s2}
    SessionOwner <- OneOwner
    NoSession = NoSession
    MaxAttempt = 2
    MaxFence = 1
    LeaseTicks = 1
    MaxHeartbeat = 1
    MaxEvent = 1
SPECIFICATION Spec
INVARIANT ActionsReadable
CHECK_DEADLOCK FALSE
