SPECIFICATION Spec
CONSTANTS
    Requests <- MCRequests
    Tree <- MCTree
    CardFiles <- MCCardFiles
    Types <- MCTypes
    CGI_BIN <- MCCgiBin
    MMC <- MCMmc
    GZ <- MCGz
    HTTPD_FILENAME_MAX_LENGTH = 3
    MMC_PATH_MAX = 4
INVARIANTS
    NextReadIsUrl
CHECK_DEADLOCK FALSE
