SPECIFICATION NetworkSpec
CONSTANTS
    Programs = {"pipe", "fifo", "unix", "sem", "fcntl"}
    Faults = {"resource", "fork", "kill", "orphan"}
    MaxRounds = 4
    MaxCrash = 1
    P = 5
    Rounds = 2
    MaxRetry = 3
    RingCrashes = 2
    Connections = {"c1", "c2"}
    Threads = {1, 2}
    MaxTries = 2
    MaxAsks = 1
    Window = 1
    MaxForkFails = 1
    ClientCrashes = 1
    Senders = {"c1", "c2"}
    MaxSeq = 2
    Stops = 4
    MaxLost = 3
    MaxBytes = 6
    MaxXfer = 3
    StreamSize = 4
    ControlSize = 2
    MaxIterations = 3
INVARIANT TakeTurns
INVARIANT KillsOwnOnly
INVARIANT SinglePotato
INVARIANT PassesAsPrinted
INVARIANT WaitNeverBlocks
INVARIANT StopsOnlyWhenTold
INVARIANT AnswerIsCurrent
PROPERTY PingEnds
PROPERTY CleanupKillsPartner
PROPERTY RingEnds
PROPERTY StopStops
PROPERTY StopReaches
PROPERTY IterationsEnd
CHECK_DEADLOCK FALSE
