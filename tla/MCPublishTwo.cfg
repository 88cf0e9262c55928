CONSTANTS
    p1 = p1
    p2 = p2
    Process = {p1, p2}
    Source <- MCSource
    Hole = Hole
    Stdout = Stdout
    None = None
    MaxRuns = 2
SPECIFICATION PublishSpec
INVARIANT
    NeverHalfWritten
CHECK_DEADLOCK FALSE
