SPECIFICATION Spec
CONSTANTS
    NTotal = 5
    Line = 2
    Page = 4
    ChunkMax = 2
    Repeats = 2
    Readings = {1, 2}
    Samples = 1
    SizeofInt = 4
    SizeofSize = 8
INVARIANT PagesPermuted
CHECK_DEADLOCK FALSE
