\* A tab on the notes beside tabs elsewhere, two texts or none, two messages on their way;
\* two engagements with images; two leads; three presses of Start over one target list;
\* one part a behaviour.
SPECIFICATION Spec
CONSTANTS
    Tabs = {t1}
    Texts = {x, y}
    NoDraft = NoDraft
    NoNotes = NoNotes
    NoText = NoText
    MaxRevision = 3
    MaxInFlight = 2
    Engagements = {a, b}
    Numbers = {1}
    MaxVersion = 3
    MaxOps = 4
    MaxReads = 2
    Leads = {l1, l2}
    Attempts = {a1, a2}
    Reasons = {r1, r2}
    Conditions = {c1}
    MaxMoves = 4
    Targets = {target}
    MaxRevisions = 3
    MaxSubmits = 3
    MaxAtOnce = 2
    MaxLate = 1
    None = None
SYMMETRY Symmetry
INVARIANTS
    RevisitCitesThisParking
    RepeatsWereHeard
    RetainedPairWasReal
PROPERTIES
    NoSilentOverwrite
    DraftIsKept
    ReadKeepsOwnWrites
CHECK_DEADLOCK FALSE
