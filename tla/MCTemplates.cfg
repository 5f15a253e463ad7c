CONSTANTS
    e1 = e1
    e2 = e2
    Engagements = {e1, e2}
    Addresses = {a1, a2}
    Rank <- MCRank
    Today = 2
    LastDay = 3
    Units = {u, v, w}
    Start = u
    People = {me, you}
    Me = me
    Vacant = vacant
    NoUnit = none
    MaxEdits = 1
    Handlers = {g, h, i}
    Processes = {p, q}
    Keys = {k}
    Facets = {f1, f2}
    MaxClasses = 2
SPECIFICATION Spec
INVARIANTS
    CurrentServed
    PrimaryFound
    RightManager
    OnePerProcess
    FailsOnlyAsFound
PROPERTIES
    RenderingEnds
\* A rendering ends.
CHECK_DEADLOCK FALSE
