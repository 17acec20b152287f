SPECIFICATION ToolsSpec
CONSTANTS
    M = 4
    G = 6
    UsPerMs = 2
    NsPerMs = 3
    MsPerS = 2
    CyclesPerSec = 7
    W = 28
    Usecs = {0, 2, 7}
    MaxCycles = 16
    Tries = 1
    Parallel = 2
    RepRequests <- MCRequests
    LongInterval = FALSE
    Readings = {0, 1, 3}
    Counts = {1, 2}
    Rate <- MCRate
    Possibilities = {5, 50, 100}
    Default = 1000
    Noise = 50
    Calls = 3
    TlbStarts = {8}
    TlbPages = 40
    Bsize = 8
    InSize = 22
    Areas = {32, 48}
    CopyEnds = {16}
    CopyCounts = {0, 3}
    Millis = {3, 12}
    MaxIos = 3
    CopyFaults = 1
    NTotal = 7
    CacheLine = 2
    CachePage = 4
    ChunkMax = 2
    Repeats = 2
    PageReadings = {1, 2}
    Samples = 1
    SizeofInt = 4
    SizeofSize = 4
    NSamples = 9
    SearchLatencies = {0, 1, 2, 4}
    PlcCpus = 4
    PlcPar = 2
    PlcCustom <- MCCustom
    PlcBehind = 3
    MemPage = 4
    MemPages = 4
    MemLines = {1, 2}
    MemAddrs = {1, 2}
    MemPar = 2
    MemLineMax = 2
    MemRounds = 3
    TreeFiles = 14
    TreeMaxes = {2, 3}
    TreeFails = 1
INVARIANT NeverTooLong
INVARIANT ClocksKeepTime
INVARIANT Merged
INVARIANT TreeFits
INVARIANT OwnProcessor
INVARIANT ChainIsCycle
INVARIANT ChainIsCurrent
INVARIANT CheckMemory
INVARIANT PagesPermuted
INVARIANT StepsRefined
INVARIANT InPlace
INVARIANT Accounted
INVARIANT LeavesCallerAlone
CHECK_DEADLOCK FALSE
