SPECIFICATION FairSpec
CONSTANTS
    N = 1
    R = 2
    HasCleanup = TRUE
    Earlier = FALSE
    MaxScale = 1
    MaxTerm = 1
    MaxCrash = 1
    Faults = {"pipe", "malloc", "fork"}
PROPERTY Terminates
