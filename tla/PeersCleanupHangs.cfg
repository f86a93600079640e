SPECIFICATION FairSpec

CONSTANTS
    Peers = {p1}
    NumPieces = 1
    NoState = NoState
    ConcurrentPeers = 1
    EndGamePeers = 2
    MaxEventsPerCycle = 0
    ScheduleBatch = 1
    MaxConns = 1
    MaxInbox = 1
    MaxMessages = 0
    FewLeft = {FALSE}

PROPERTIES
    CleanupEnds
