SPECIFICATION Spec
CONSTANTS
    BufferSize = 16
    PacketSize = 9
    MaxLength = 10
    MaxPackets = 2
    MaxLost = 0
    MaxErrors = 1
    MaxEnables = 1
    Prompt = TRUE
    PayloadChar <- PlainPayload
    Byte <- MCByte
    ZeroByte <- MCZeroByte
    StartBytes <- MCStartBytes
    FirstBytes <- MCFirstBytes
    CRBytes <- MCCRBytes
PROPERTIES
    ErrorDetected
