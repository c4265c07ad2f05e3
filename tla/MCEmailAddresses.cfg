\* One request at a time: failing calls, retries, a restart, dates that fall due.
SPECIFICATION Spec
CONSTANTS
    Job = {j1}
    Name = {n1, n2, n3}
    Serial = TRUE
    RetryAttempts = 2
    MaxEmailPriority = 9
    Deadline = 1
    MaxRows = 3
    MaxRequests = 4
    MaxFaults = 3
    MaxInterruptions = 1
    MaxDays = 1
SYMMETRY Symmetry
INVARIANTS
    TypeOK
    ActiveIsInSync
    NoForgottenAddress
    AtMostOneAtFront
    OnlyFrontActive
    SuccessFits
    NothingOrphaned
    NoPendingLeft
CHECK_DEADLOCK FALSE
