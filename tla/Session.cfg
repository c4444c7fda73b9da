SPECIFICATION MCSpec
CONSTANTS
    Sessions = {1, 2, 3}
    Procs = {1, 2}
    Clients = {1, 2}
    None = None
    CallKinds = {"input", "kill"}
    Stops = TRUE
    MaxSessions = 2
    MaxFaults = 1
INVARIANTS
    TypeOK
    ProcessesAccounted
    
    EndsAreFinal
    NoStrayKill
    AdmissionBarrier
    CapacityRespected
PROPERTIES
    TrackedUntilDead
CHECK_DEADLOCK FALSE
