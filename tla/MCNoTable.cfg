SPECIFICATION Spec
CONSTANTS
    f = f
    v = v
    r1 = r1
    r2 = r2
    ByteBits = 2
    WordBytes = 2
    NumVariables = 2
    Label <- MCLabel
    Sources <- MCSources
    Register <- MCRegister
    BaseLetter <- MCBaseLetter
    NoNumber = NoNumber
    MemCapacity = 4
    ValidBytes = {1, 2}
    FrameAddr <- MCFrameAddr
    Freed = Freed
    NULL = NULL
INVARIANTS
    StopsOnlyIfFreedTwice
\* a source is run once
CHECK_DEADLOCK FALSE
