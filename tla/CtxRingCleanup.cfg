SPECIFICATION FairSpec
CONSTANTS
    Procs = 4
    Variants = {FALSE}
    Faults = {"fork"}
    MaxRounds = 2
    MaxCrash = 0
PROPERTY CleanupKills
CHECK_DEADLOCK FALSE
