\* Three requests or cron jobs side by side, five in all, two failing calls.
SPECIFICATION Spec
CONSTANTS
    Job = {j1, j2, j3}
    MaxRequests = 5
    MaxTroubles = 2
INVARIANTS
    NumberLiftsLock
PROPERTY
    ImplementsAccount
CHECK_DEADLOCK FALSE
