SPECIFICATION Spec

CONSTANTS
    NumBlocks = 2
    NumPieces = 1
    NumFiles = 2
    PieceOf <- PairPieceOf
    FileOf <- PairFileOf
    NestedFiles = {}
    PriorContents = {"none"}
    ZeroTails = {}
    Faults = {}
    HashOrders <- TwoOrders
    ScheduleBatch = 1
    VerifyBatch = 1
    WriteBatch = 1
    EndGameLimit = 2
    MaxOwed = 2
    MaxBad = 0
    MaxSessions = 1

INVARIANTS
    NeverPanics
