SPECIFICATION Spec
CONSTANTS
    Workers = {w1, w2}
    NoWorker = NoWorker
    NoTask = NoTask
    BatchSize = 2
    MaxRetries = 1
    MaxUtterances = 3
    MaxFailures = 0
    LockExpires = FALSE
    LosesLockReply = FALSE
INVARIANT
    TailIsFlushed
CHECK_DEADLOCK FALSE
