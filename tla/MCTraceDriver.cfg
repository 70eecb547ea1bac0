SPECIFICATION Spec
CONSTANTS
    k1 = k1
    k2 = k2
    k3 = k3
    a1 = a1
    a2 = a2
    a3 = a3
    a4 = a4
    Keys <- MCKeys
    Hash <- MCHash
    Capacity = 2
    Addr <- MCAddr
    Values <- MCValues
    NULL = NULL
    Freed = Freed
    Null = "null"
    Contents = {"null", "int", "string"}
    Sizes <- MCSizes
INVARIANTS
    TypeOK
    WellFormed
    Owned
    BlocksExact
PROPERTIES
    RefinesMap
\* the trace ends
CHECK_DEADLOCK FALSE
