SPECIFICATION Spec

CONSTANTS
    NumBlocks = 3
    NumPieces = 2
    NumFiles = 2
    PieceOf <- AcrossPieceOf
    FileOf <- AcrossFileOf
    NestedFiles = {2}
    PriorContents = {"none", "good"}
    ZeroTails = {1, 3}
    Faults = {"unasked", "unknown", "short"}
    HashOrders <- TwoOrders
    ScheduleBatch = 2
    VerifyBatch = 2
    WriteBatch = 1
    EndGameLimit = 2
    MaxOwed = 2
    MaxBad = 1
    MaxSessions = 2

INVARIANTS
    VerifiedFileIntact
    CrashLosesOnlyOpenFile
    CompletionIntegrity
PROPERTIES
    VerifiedStays
    IntactFileKept
    PanicKeepsBlocks
    ImplementsDownload
