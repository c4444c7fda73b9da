SPECIFICATION Spec
CONSTANTS
    Sessions = {s1}
    Procs = {}
    Clients = {c1}
    None = None
    s1 = s1
    c1 = c1
    CallKinds = {"kill"}
    Stops = FALSE
    MaxSessions = 1
    MaxFaults = 0
INVARIANTS
    KillSignalsOwnedGroup
CHECK_DEADLOCK FALSE
