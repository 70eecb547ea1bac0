SPECIFICATION FairSpec
CONSTANTS
    Blocks = {b1, b2, b3}
    NULL = NULL
    Capacity = 4
    LineSize = 11
    LongestFile = 3
    LongestLine = 15
    MaxInput = 40
INVARIANTS
    TypeOK
    Fits
    SourceWhole
    Owned
    Released
PROPERTIES
    Exits
\* main returns
CHECK_DEADLOCK FALSE
