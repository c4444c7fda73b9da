SPECIFICATION MCSpec
CONSTANTS
    Sessions = {s1}
    Procs = {p1}
    Clients = {c1}
    None = None
    CallKinds = {"kill"}
    Stops = TRUE
    MaxSessions = 1
    MaxFaults = 0
    Commands = {k1, k2}
    MaxLaunches = 1
    SlowStart = TRUE
    LateErrors = TRUE
    Nil = Nil
    Calls = {h1}
    Convs = {1}
    Dirs = {1}
    Ids = {1}
    MaxCalls = 1
    MaxEvents = 2
    MaxClicks = 1
    MaxOthers = 1
    MaxFailed = 1
PROPERTIES
    
    LifecycleEnds
    ShutdownCompletes
    OldStatusIgnored
    TrayShowsRuntime
CHECK_DEADLOCK FALSE
