\* Two uploads, an import, one power failure; streams of up to eight symbols; addresses of
\* two bits and three ports.
SPECIFICATION MCSpec
CONSTANTS
    Bytes = {"t", "=", "a", "_", "q"}
    Secrets <- MCSecrets
    CredentialPrefixes <- MCPrefixes
    Delimiters = {"_"}
    Quotes = {"q"}
    Mark <- MCMark
    MaxValue = 2
    MaxChunk = 2
    Limits = {3, 99}
    MaxInput = 8
    Bits = 2
    MaxPort = 3
    Threshold = 5
    Anywhere = Anywhere
    Unspecified = Unspecified
    Families = {4, 6}
    Zones = {"z"}
    Names <- MCNames
    Schemes = {"http", "https"}
    MaxRanges = 2
    u1 = u1
    u2 = u2
    i1 = i1
    Uploads = {u1, u2}
    Imports = {i1}
    MaxLoss = 1
SYMMETRY UploadSymmetry
INVARIANTS
    RestorableIsWhole
    RestoredIsWhole
    NothingIsMissing
    KeptIsRedactedPrefix
    ComparisonMeansContainment
    CardinalityIsUnion
PROPERTIES
    SnapshotIsQuiet
CHECK_DEADLOCK FALSE
