CONSTANTS
    Commands = {c1, c2}
    MaxLaunches = 2
    SlowStart = FALSE
    LateErrors = TRUE
    Nil = Nil
SPECIFICATION LifecycleSpec
CHECK_DEADLOCK FALSE
PROPERTY Untouched
