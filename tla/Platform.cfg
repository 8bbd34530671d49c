SPECIFICATION PlatformSpec
CONSTANTS
    Jobs = {j1, j2}
    Images = {i1}
    Users = {u1}
    Admins = {}
    Requests = {r1}
    Slots = {s1, s2}
    None = None
    MaxFaults = 1
    Handlers = {h1}
    Listener = l
    Workers = {w1, w2}
    Owner = u1
    SkillRequests = {q1, q2}
    Nothing = Nothing
    NaN = NaN
    Failed = Failed
INVARIANTS
    PlatformTypeOK
    StoredFilesKept
    InterviewTurnsKept
    SheetFullySynced
    ConversationsAnswered
    SkillsConsistent
    ListsConsistent
    EquityConserved
PROPERTIES
    ImplementsJobLifecycle
    NoLookAhead
CHECK_DEADLOCK FALSE
