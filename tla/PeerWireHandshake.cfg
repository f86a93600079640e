SPECIFICATION Spec

CONSTANTS
    Bits = 3
    Width = 2
    MaxSize = 9
    PieceCount = 4
    OurHash = 1
    Hashes = {1, 2}
    Said <- AnyMessage
    MaxSaid = 1

INVARIANTS
    HandshakeVerified

CHECK_DEADLOCK FALSE
