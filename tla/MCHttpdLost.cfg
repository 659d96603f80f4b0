SPECIFICATION EagerSpec
CONSTANTS
    NSOCKS = 3
    HTTPD_MAX_CLIENTS = 3
    SELECT_TIMEOUT = 1
    RxMax = 2
    MaxOpen = 2
    Polite = TRUE
PROPERTIES
    AlwaysCloses
