\* Two imports with one item each, two execute requests and a removal or
\* download, with two failing calls, timeouts or restarts: executions that
\* overlap and read each other's fields.
SPECIFICATION Spec
CONSTANTS
    Import = {i1, i2}
    Item = {n1}
    Schule = {s1, s2}
    Rolle = {r1, r2}
    MaxExecutes = 2
    MaxClosings = 1
    MaxTroubles = 2
SYMMETRY Symmetry
INVARIANTS
    TypeOK
    ContextsAtChosenSchule
    ChosenRolle
    CompletedIsCleared
PROPERTY
    NeverValidAgain
CHECK_DEADLOCK FALSE
