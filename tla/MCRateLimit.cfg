SPECIFICATION Spec
CONSTANTS
    Limits <- MCLimits
    RATE_LIMIT_PRESCALAR <- MCPrescalar
    UINT8 <- MCUint8
INVARIANTS
    TypeOK
    LimitHolds
    SharedLimitHolds
    FreshWindow
PROPERTIES
    Replenished
