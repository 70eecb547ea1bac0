SPECIFICATION FairSpec
CONSTANTS
    f = f
    g = g
    x = x
    D = D
    ByteBits = 2
    WordBytes = 2
    NumVariables = 2
    Label <- MCLabel
    Sources <- MCSources
    Register <- MCRegister
    BaseLetter <- MCBaseLetter
    NoNumber = NoNumber
    NULL = NULL
INVARIANTS
    TypeOK
    HandsOverProgram
    ErrorsExact
    NothingSkipped
    LabelsMeanNext
    HeapExact
    FailuresReported
PROPERTIES
    Ends
\* a source is parsed once
CHECK_DEADLOCK FALSE
