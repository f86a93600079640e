SPECIFICATION FairSpec

CONSTANTS
    NumBlocks = 3
    NumPieces = 2
    NumFiles = 2
    PieceOf <- AcrossPieceOf
    FileOf <- AcrossFileOf
    NestedFiles = {}
    PriorContents = {"none", "bad"}
    ZeroTails = {}
    Faults = {}
    HashOrders <- TwoOrders
    ScheduleBatch = 1
    VerifyBatch = 1
    WriteBatch = 1
    EndGameLimit = 2
    MaxOwed = 1
    MaxBad = 1
    MaxSessions = 2

INVARIANTS
    TypeOK
    VerifiedByPiece
    VerifiedBlockOnDisk
    NeverPanics
PROPERTIES
    SessionEnds
