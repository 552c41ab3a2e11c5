CONSTANTS
    Grants = {g1, g2}
    MaxSlot = 1
    MaxFence = 2
    MaxEvent = 0
    PerArtifact = 2
    PerRun = 3
    MaxStaging = 3
    MaxUploads = 2
    MaxInspecting = 1
SPECIFICATION FairSpec
PROPERTY DeadUploadsEnd
CHECK_DEADLOCK FALSE
