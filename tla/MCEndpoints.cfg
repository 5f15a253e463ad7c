CONSTANTS
    k1 = k1
    k2 = k2
    Keys = {k1, k2}
    Page <- MCPage
    Pages = 2
    MaxOutside = 2
    Calls = {c, d}
    Addresses = {a1, a2, a3}
    Mail = {old, new}
    Nothing = nothing
    DNs = {1, 2, 3}
    AccountNames = {s, t}
    Priorities = {1, 2}
    MaxMoves = 3
SPECIFICATION EndpointsSpec
INVARIANTS
    TerminatesTheMissing
PROPERTIES
    Relinked
    RightValueLeft
    StaysTheOne
CHECK_DEADLOCK FALSE
