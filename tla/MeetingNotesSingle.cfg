SPECIFICATION FairSpec
CONSTANTS
    Workers = {w1}
    NoWorker = NoWorker
    NoTask = NoTask
    BatchSize = 2
    MaxRetries = 2
    MaxUtterances = 3
    MaxFailures = 3
    LockExpires = TRUE
    LosesLockReply = TRUE
INVARIANTS
    TailIsFlushed
PROPERTIES
    EndIsFlushed
CHECK_DEADLOCK FALSE
