SPECIFICATION Spec
CONSTANTS
    f = f
    g = g
    x = x
    D = D
    ByteBits = 2
    WordBytes = 2
    NumVariables = 2
    Label <- MCLabel
    Sources <- Layouts
    Register <- MCRegister
    BaseLetter <- MCBaseLetter
    NoNumber = NoNumber
    NULL = NULL
INVARIANTS
    NothingFreedTwice
\* a source is parsed once
CHECK_DEADLOCK FALSE
