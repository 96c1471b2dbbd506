SPECIFICATION Spec
CONSTANTS
    BufferSize = 16
    PacketSize = 9
    MaxPackets = 7
    MaxLost = 3
    StartLike <- MCStartLike
    Byte <- MCByte
    StartBytes <- MCStartBytes
    ZeroByte <- MCZeroByte
INVARIANTS
    TypeOK
    SplicesBoundedByLosses
    CleanPairDelivered
    LosslessDelivery
PROPERTIES
    MisframingPersists
    FeedRefined
CHECK_DEADLOCK FALSE
