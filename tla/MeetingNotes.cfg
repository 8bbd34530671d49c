SPECIFICATION Spec
CONSTANTS
    Workers = {w1, w2}
    NoWorker = NoWorker
    NoTask = NoTask
    BatchSize = 2
    MaxRetries = 1
    MaxUtterances = 3
    MaxFailures = 1
    LockExpires = TRUE
    LosesLockReply = TRUE
INVARIANTS
    TypeOK
    ChunksDisjoint
    WatermarkIsConsumed
    StateIsReadable
    UtteranceAccounted
PROPERTIES
    ImplementsLedger
CHECK_DEADLOCK FALSE
