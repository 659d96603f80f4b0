SPECIFICATION Spec
CONSTANTS
    Opcodes <- MCOpcodes
    GarbageLens <- MCGarbageLens
    BYTES <- MCBytes
    BYTE_BITS <- MCByteBits
    LG_BIT_LENGTH = 3
    LG_BIT_ACTIVE = 1
    LG_PROLOG_LENGTH = 4
    LG_PROLOG_ACTIVE = 2
    UINT8 = 16
INVARIANTS
    TypeOK
    CleanFrameArrives
    PendingIsLatest
    ReadsInBuffer
    PulsesBounded
PROPERTIES
    FrameEnds
    TakenUp
