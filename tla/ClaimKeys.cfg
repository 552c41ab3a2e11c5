\* Two revisions, two target lists to change between.
SPECIFICATION Spec
CONSTANTS
    Targets = {x, y}
    None = None
    MaxRevisions = 2
    MaxSubmits = 3
    MaxAtOnce = 2
    MaxLate = 0
INVARIANT ChangedBodyGetsNewKey
CHECK_DEADLOCK FALSE
