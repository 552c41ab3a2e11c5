\* Two tabs over one Engagement, two Actions.
SPECIFICATION Spec
CONSTANTS
    Tabs = {s1, s2}
    Targets = {"host"}
    Kinds = {"risky"}
    Operations = {"plan", "continue", "add_scope", "cancel", "archive", "reopen",
                  "update", "append_scope"}
    MaxRevision = 3
    MaxActions = 2
    MaxKeys = 3
    MaxStray = 1
SYMMETRY TabSymmetry
INVARIANTS
    OneEffectPerCommand
    NoLostUpdate
    QueuedIsAcknowledged
    PlannedAsShown
PROPERTIES
    ArchivedIsQuiet
CHECK_DEADLOCK FALSE
