SPECIFICATION Spec
CONSTANTS
    MaxNumber = 20
    MaxVariable = 10
    Texts <- MCTexts
    Behind <- MCBehind
    Reserved <- MCReserved
INVARIANT
    PlaceOfLexeme
\* a text is read once
CHECK_DEADLOCK FALSE
