SPECIFICATION Spec
CONSTANTS
    N = 2
    R = 2
    HasCleanup = TRUE
    Earlier = FALSE
    MaxScale = 1
    MaxTerm = 1
    MaxCrash = 1
    Faults = {"pipe", "malloc", "fork", "kill"}
INVARIANT MeasuredUnderLoad
INVARIANT BytesMeanWhatIsAwaited
INVARIANT CompleteOrNothing
INVARIANT NoChildLeft
INVARIANT ReleasedOnce
PROPERTY ImplementsBarrier
