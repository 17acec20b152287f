SPECIFICATION FairSpec
CONSTANTS
    Procs = 4
    Variants = {FALSE, TRUE}
    Faults = {"pipe", "fork", "malloc", "kill"}
    MaxRounds = 3
    MaxCrash = 1
INVARIANT OneToken
INVARIANT EveryoneSwitched
INVARIANT NoDaemonLeft
PROPERTY DaemonsEnd
PROPERTY MainEnds
CHECK_DEADLOCK FALSE
