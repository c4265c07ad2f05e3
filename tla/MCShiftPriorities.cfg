\* Four addresses on five priorities: gaps, runs and duplicates before, at
\* and behind the target.
SPECIFICATION Spec
CONSTANTS
    Mail = {m1, m2, m3, m4}
    MaxPriority = 4
SYMMETRY Symmetry
INVARIANT
    ComputesShift
CHECK_DEADLOCK FALSE
