SPECIFICATION Spec
CONSTANTS
    NSOCKS = 2
    HTTPD_MAX_CLIENTS = 2
    SELECT_TIMEOUT = 0
    RxMax = 1
    MaxOpen = 2
    Polite = FALSE
INVARIANTS
    TypeOK
    AcceptFindsConnection
    EndedIsFlagged
    AnsweredOnce
    NoCrossTalk
PROPERTIES
    RoundEnds
    Relisted
