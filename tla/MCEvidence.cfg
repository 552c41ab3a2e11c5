CONSTANTS
    Grants = {g1, g2}
    MaxSlot = 2
    MaxFence = 2
    MaxEvent = 1
    PerArtifact = 2
    PerRun = 4
    MaxStaging = 3
    MaxUploads = 2
    MaxInspecting = 2
SPECIFICATION Spec
INVARIANTS
    ArtifactsAreDurable
    FinalizedBytesAreKept
    UploadHoldsItsSequence
    StagedBytesWithinQuota
PROPERTIES
    ImplementsArtifactStore
CHECK_DEADLOCK FALSE
