SPECIFICATION ThreadsSpec

CONSTANTS
    Peers = {p1}
    NumPieces = 1
    NoState = NoState
    ConcurrentPeers = 1
    EndGamePeers = 2
    MaxEventsPerCycle = 0
    ScheduleBatch = 1
    MaxConns = 2
    MaxInbox = 2
    MaxMessages = 0
    FewLeft = {FALSE, TRUE}

PROPERTIES
    FinishedThreadForgotten
    WritersReleased
    ShutdownEndsJoin
