SPECIFICATION Spec
CONSTANTS
    BYTE <- MCByte
    PAGES <- MCPages
    HIGHS <- MCHighs
    Heads <- MCHeads
    Sizes <- MCSizes
    NoByte = NoByte
INVARIANTS
    TypeOK
    FitsIsWhole
PROPERTIES
    QueueSpec
    ResponseEnds
