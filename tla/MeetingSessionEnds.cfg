SPECIFICATION FairSpec
CONSTANTS
    Meetings = {m1}
    Handlers = {h1, h2}
    Listener = Listener
    None = None
    MaxEvents = 1
    MaxFailures = 1
    Overlapping = {"start"}
\* A socket that is gone and served stops.
CHECK_DEADLOCK FALSE
PROPERTY
    MeetingEnds
