SPECIFICATION FairSpec
CONSTANTS
    Jobs = {export, noop, other}
    Handled = {export, noop}
    Workers = {w1, w2}
    MaxAttempts = 2
    MaxCrashes = 1
CHECK_DEADLOCK FALSE
INVARIANTS
    TypeOK
    ClaimedOnce
    WorkIsCounted
PROPERTIES
    ImplementsJobStatus
    QueuedJobsEnd
