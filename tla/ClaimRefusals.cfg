\* One tab, one Action, and the Engagement archived and reopened.
SPECIFICATION Spec
CONSTANTS
    Tabs = {s1}
    Targets = {"host"}
    Kinds = {"risky"}
    Operations = {"append_scope", "plan", "continue", "archive", "reopen"}
    MaxRevision = 4
    MaxActions = 1
    MaxKeys = 7
    MaxStray = 0
PROPERTIES
    RefusalsAreCurrent
CHECK_DEADLOCK FALSE
