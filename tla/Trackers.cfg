SPECIFICATION FairSpec

CONSTANTS
    Order <- TwoTrackers
    SchemeChoices <- SomeSchemes
    Addresses <- AllAddresses
    NamedChoices <- Lists
    Texts <- LongText
    Strays <- AnyAnswer
    AnnounceBuffer = 1
    PeerFresh = 2
    MaxPeers = 2
    MaxDatagram = 40
    Never = Never
    Absent = Absent
    Span = 3

INVARIANTS
    TypeOK
    HonestTrackersHarmless
PROPERTIES
    AnnounceThrottled
    OwnAnswers
    FindsPeers
