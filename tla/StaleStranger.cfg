CONSTANTS
    Pids = {p1, p2}
    Sessions = {s1}
    MaxBirth = 2
    None = None
SPECIFICATION Spec
CHECK_DEADLOCK FALSE
INVARIANT StrangersUntouched
