SPECIFICATION FairSpec

CONSTANTS
    Torrents = {t1, t2, t3, t4}
    Unlayable = {t3}
    BadUrls = {t4}
    Unreadable = Unreadable
    MaxEventsPerCycle = 0
    MaxStarts = 2
    MaxCommands = 2
    MaxEvents = 2

INVARIANTS
    TypeOK
    AddedKept
    
PROPERTIES
    CommandsServed
    FinishedShown
