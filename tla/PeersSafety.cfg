SPECIFICATION Spec

CONSTANTS
    Peers = {p1}
    NumPieces = 1
    NoState = NoState
    ConcurrentPeers = 1
    EndGamePeers = 2
    MaxEventsPerCycle = 0
    ScheduleBatch = 1
    MaxConns = 2
    MaxInbox = 1
    MaxMessages = 2
    FewLeft = {FALSE}

INVARIANTS
    TypeOK
    BeliefMatchesView
    LastConnectionHeld
    HaveCountsHolders
