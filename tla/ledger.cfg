SPECIFICATION Spec
CONSTANTS
    Actions = {a1, a2}
    Revisions = {r1, r2}
    Providers = {p1}
    Window = 2
    MaxRows = 3
    MaxTime = 1
    ClockMoves <- AnyClock
SYMMETRY Symmetry
INVARIANTS
    WritesCommit
PROPERTIES
    ImplementsRoutes
CHECK_DEADLOCK FALSE
