CONSTANTS
    r1 = r1
    r2 = r2
    s1 = s1
    s2 = s2
    Actions = {a1}
    Runners = {r1}
    Sessions = {s1, s2}
    SessionOwner <- OneOwner
    NoSession = NoSession
    MaxAttempt = 2
    MaxFence = 2
    LeaseTicks = 1
    MaxHeartbeat = 0
    MaxEvent = 2
SPECIFICATION Spec
INVARIANTS
    ActionRunAgreement
    LeaseAgreement
    EventsContiguous
PROPERTIES
    ImplementsLifecycle
    LeasesAreNotRevived
    DecisionsStand
CHECK_DEADLOCK FALSE
