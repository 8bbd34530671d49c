SPECIFICATION Spec
CONSTANTS
    Schedules = {s1}
    Dispatchers = {d1, d2}
    Clients = {c1}
    Reports = {r1, r2, r3}
    NoReport = NoReport
    Keep = Keep
    Occurrences <- MCOccurrences
    NextRun <- MCNextRun
    LockSeconds = 2
    Limit = 1
    MaxClock = 7
    MaxFailures = 2
    CrashPoints <- MCAdvanceCrashPoint
    AmbiguousEnqueue = TRUE
    Timely = TRUE
INVARIANT
    NoStuckSchedule
