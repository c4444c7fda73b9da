SPECIFICATION MCSpec
CONSTANTS
    Pids = {p1, p2, p3}
    Sessions = {s1, s2}
    MaxBirth = 2
    None = None
    Commands = {1, 2, 3}
    MaxLaunches = 3
    SlowStart = FALSE
    LateErrors = FALSE
    Nil = Nil
    Scripts <- MCScripts
    Limits = {1}
    MaxDeletions = 1
SYMMETRY Symmetry
CONSTRAINT Bounded
CHECK_DEADLOCK FALSE
INVARIANTS GroupSignalsOwned   TimelineIsTrue
PROPERTIES ClearedMeansRecordedDead ClearedMeansGroupDead EvidenceRespected
