SPECIFICATION FairSpec
CONSTANTS
    P = 4
    Rounds = 2
    MaxRetry = 3
    MaxCrash = 0
    ForkMayFail = TRUE
INVARIANT KnowsLastProcess
