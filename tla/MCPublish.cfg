CONSTANTS
    p1 = p1
    Process = {p1}
    Source <- MCSource
    Hole = Hole
    Stdout = Stdout
    None = None
    MaxRuns = 4
SPECIFICATION PublishSpec
INVARIANTS
    DestIsLastPublished
    FailedCopyCleansUp
CHECK_DEADLOCK FALSE
