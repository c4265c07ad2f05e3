\* Two jobs side by side, one of whose calls may fail.
SPECIFICATION FairSpec
CONSTANTS
    Job = {j1, j2}
    Name = {n1}
    Serial = FALSE
    RetryAttempts = 2
    MaxEmailPriority = 9
    Deadline = 1
    MaxRows = 3
    MaxRequests = 2
    MaxFaults = 1
    MaxInterruptions = 1
    MaxDays = 0
PROPERTIES
    NothingResurrected
    JobsEnd
CHECK_DEADLOCK FALSE
