SPECIFICATION FairSpec
CONSTANTS
    N = 2
    R = 1
    HasCleanup = TRUE
    Earlier = FALSE
    MaxScale = 1
    MaxTerm = 0
    MaxCrash = 1
    Faults = {}
PROPERTY Terminates
CHECK_DEADLOCK FALSE
