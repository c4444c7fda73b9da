SPECIFICATION Spec
CONSTANTS
    Sessions = {s1}
    Procs = {p1, p2}
    Clients = {c1}
    None = None
    s1 = s1
    p1 = p1
    p2 = p2
    c1 = c1
    CallKinds = {}
    Stops = FALSE
    MaxSessions = 1
    MaxFaults = 0
PROPERTIES
    ReapCapturesGroup
CHECK_DEADLOCK FALSE
