SPECIFICATION FairSpec
CONSTANTS
    MaxNumber = 20
    MaxVariable = 10
    Texts <- MCTexts
    Behind <- MCBehind
    Reserved <- MCReserved
INVARIANTS
    TypeOK
    TokensCover
    LongestMatch
    PlacesExact
    InsideUnlessOpen
    NumbersExact
    RegistersExact
PROPERTIES
    Ends
\* a text is read once
CHECK_DEADLOCK FALSE
