\* One import, executed twice and removed or downloaded, with two failing calls,
\* timeouts or restarts: redelivery, a retry of the item's result, and its end.
SPECIFICATION FairSpec
CONSTANTS
    Import = {i1}
    Item = {n1, n2}
    Schule = {s1}
    Rolle = {r1}
    MaxExecutes = 2
    MaxClosings = 2
    MaxTroubles = 2
INVARIANTS
    OnePersonPerItem
    SuccessHasPerson
    FinishedIsDone
PROPERTY
    ExecutionEnds
CHECK_DEADLOCK FALSE
