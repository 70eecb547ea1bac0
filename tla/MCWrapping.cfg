SPECIFICATION Spec
CONSTANTS
    f = f
    g = g
    r1 = r1
    r2 = r2
    ByteBits = 2
    WordBytes = 2
    MemCapacity = 4
    ValidBytes = {1, 2}
    NumVariables = 3
    Label <- MCLabel
    Programs <- MCWrapping
    FrameAddr <- MCFrameAddr
    NULL = NULL
    Freed = Freed
INVARIANTS
    AccessesInside
