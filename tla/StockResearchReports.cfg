SPECIFICATION FairSpec
CONSTANTS
    Reports = {r1, r2}
    Manual = {m1}
    Scheduled = {d1}
    Workers = {w1}
    MaxConcurrency = 2
    Tasks = {t1, t2, t3}
    NoReport = NoReport
    NoWorker = NoWorker
    MaxFailures = 2
    AmbiguousEnqueue = TRUE
INVARIANTS
    TypeOK
    PermitsConserved
    AgentRunsOnce
    ArtifactMatchesStatus
PROPERTIES
    CompletedIsStable
    QueuedIsFinished
