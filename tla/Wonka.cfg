SPECIFICATION FairSpec
CONSTANTS
    BufferSize = 16
    PacketSize = 9
    MaxLength = 10
    MaxPackets = 2
    MaxLost = 1
    MaxErrors = 1
    MaxEnables = 2
    Prompt = TRUE
    PayloadChar <- PlainPayload
    Byte <- MCByte
    ZeroByte <- MCZeroByte
    StartBytes <- MCStartBytes
    FirstBytes <- MCFirstBytes
    CRBytes <- MCCRBytes
INVARIANTS
    TypeOK
    DialogueInStep
    InitializedMeansConfigured
    ReadingIsOnePacket
    EnableMeansReading
PROPERTIES
    InitializeTerminates
    EnableReturns
    NoPhantomPacket
