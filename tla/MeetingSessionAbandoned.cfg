SPECIFICATION Spec
CONSTANTS
    Meetings = {m1}
    Handlers = {h1, h2}
    Listener = Listener
    None = None
    MaxEvents = 0
    MaxFailures = 0
    Overlapping = {"disconnect"}
CHECK_DEADLOCK FALSE
INVARIANT
    NoMeetingAbandoned
