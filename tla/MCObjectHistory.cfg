CONSTANTS
    Values = {a, b}
    Fields = {f}
    Null = null
    Blank = blank
    UNSET = UNSET
    Absent = absent
    Settings <- MCSettings
    Today = 2
    LastDay = 3
SPECIFICATION Spec
SYMMETRY Symmetry
INVARIANTS
    TypeOK
    Followed
    RepeatedIsNoop
PROPERTIES
    PastKept
    OthersKept
CHECK_DEADLOCK FALSE
