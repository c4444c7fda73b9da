SPECIFICATION Spec
CONSTANTS
    Invs = {i1}
    MaxChunks = 2
    CaptureMax = 2
    OverflowMax = 1
    PriorityMax = 1
    LaneCap = 1
    BatchLimit = 2
    MaxTrouble = 1
CHECK_DEADLOCK FALSE
INVARIANTS CountMatchesActive 
PROPERTIES CaptureIsExact WriterProgresses
