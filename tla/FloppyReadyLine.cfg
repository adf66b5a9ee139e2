CONSTANTS
    Drive <- MCDrive
    MaxCyl = 2
    fd0 <- MCfd0
    Ask <- MCAsk
    FDC_MAX_RETRIES = 10
    FDC_RECAL_THRESHOLD = 5
SPECIFICATION ReadyLineSpec
PROPERTY ZeroMeansSuccess
CHECK_DEADLOCK FALSE
