SPECIFICATION FairSpec
CONSTANTS
    N = 2
    R = 1
    HasCleanup = FALSE
    Earlier = FALSE
    MaxScale = 1
    MaxTerm = 0
    MaxCrash = 0
    Faults = {"kill"}
PROPERTY OrphansGiveUp
PROPERTY Succeeds
