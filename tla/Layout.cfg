SPECIFICATION Spec

CONSTANTS
    MaxBlockLength = 2
    Torrents <- AnyFiles

INVARIANTS
    TypeOK
    PiecesTiled
    FilesTiled
    PiecesMatchHashes
PROPERTIES
    BlockAdded
