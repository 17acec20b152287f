SPECIFICATION FairSpec
CONSTANTS
    Programs = {"fifo"}
    Faults = {}
    MaxRounds = 4
    MaxCrash = 0
PROPERTY PartnerEndsWithCleanup
CHECK_DEADLOCK FALSE
