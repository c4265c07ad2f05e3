\* Violated: UNDI keeps an alternative address that the cron job deleted.
SPECIFICATION Spec
CONSTANTS
    Job = {j1}
    Name = {n1, n2}
    Serial = TRUE
    RetryAttempts = 2
    MaxEmailPriority = 9
    Deadline = 1
    MaxRows = 2
    MaxRequests = 3
    MaxFaults = 0
    MaxInterruptions = 0
    MaxDays = 2
INVARIANT
    UndiForgetsAlternative
CHECK_DEADLOCK FALSE
