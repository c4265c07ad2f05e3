\* Two handlers, two messages, one restart: zombies of a timed-out message
\* beside the next message, redelivery after a crash, lost dead letters, and a
\* handler that never returns.
SPECIFICATION FairSpec
CONSTANTS
    Handler = {h1, h2}
    MaxMessages = 2
    MaxRedeliveries = 1
    MaxKeepAlives = 1
    SessionTimeout = 4
    HeartbeatInterval = 1
    Reserve = 1
INVARIANTS
    NoSilentLoss
    OverlapOnlyAfterReport
    HeartbeatInTime
    RedeliveredOnlyAfterReport
    OneDeadLetterPerDelivery
PROPERTIES
    EventuallyCommitted
CHECK_DEADLOCK FALSE
