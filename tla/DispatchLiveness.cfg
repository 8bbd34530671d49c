SPECIFICATION FairSpec
CONSTANTS
    Schedules = {s1, s2}
    Dispatchers = {d1, d2}
    Clients = {}
    Reports = {r1, r2}
    NoReport = NoReport
    Keep = Keep
    Occurrences <- MCOccurrences
    NextRun <- MCNextRun
    LockSeconds = 2
    Limit = 1
    MaxClock = 5
    MaxFailures = 1
    CrashPoints <- MCSafeCrashPoints
    AmbiguousEnqueue = TRUE
    Timely = TRUE
PROPERTIES
    DueIsDispatched
