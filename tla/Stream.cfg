SPECIFICATION Spec
CONSTANTS
    MaxBytes = 6
    MaxXfer = 3
    StreamSize = 4
    ControlSize = 2
    MaxIterations = 5
INVARIANT WholePackets
CHECK_DEADLOCK FALSE
