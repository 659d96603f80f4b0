SPECIFICATION Spec
CONSTANTS
    Temps <- MCTemps
    Lbas <- MCLbas
    ConfigByte = 32
    SECTOR = 3
    TRIES_SD2 = 2
    TRIES_SD1 = 5
    CONF = 3
    PATIENCE = 3
    WAIT = 1
INVARIANTS
    TypeOK
    OneOnTheBus
    SectorIsAsked
    TempIsMeasured
PROPERTIES
    Boots
