SPECIFICATION Spec
CONSTANTS
    Meetings = {m1, m2}
    Handlers = {h1, h2}
    Listener = Listener
    None = None
    MaxEvents = 2
    MaxFailures = 1
    Overlapping = {}
SYMMETRY Symmetry
\* A socket that is gone and served stops.
CHECK_DEADLOCK FALSE
INVARIANTS
    TypeOK
    TasksInOrder
    TerminalCountsAll
    NoMeetingAbandoned
    NoConnectionLeaks
    ExclusiveCollection
