SPECIFICATION Spec
CONSTANTS
    Schedules = {s1}
    Dispatchers = {d1, d2}
    Clients = {c1, c2}
    Reports = {r1, r2, r3}
    NoReport = NoReport
    Keep = Keep
    Occurrences <- MCOccurrences
    NextRun <- MCNextRun
    LockSeconds = 2
    Limit = 1
    MaxClock = 6
    MaxFailures = 2
    CrashPoints <- MCSafeCrashPoints
    AmbiguousEnqueue = TRUE
    Timely = TRUE
SYMMETRY Symmetry
INVARIANTS
    TypeOK
    QueuedRunIsEnqueued
    NoOccurrenceSkipped
    OneReportPerOccurrence
    NoStuckSchedule
    ExclusiveDispatch
PROPERTIES
    QueuedIsFinal
    DeletedIsFinal
