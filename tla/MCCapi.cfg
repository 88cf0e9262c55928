CONSTANTS
    Thread = {t1, t2}
    Unresolved <- MCUnresolved
    Lookup <- MCLookup
    None = None
    MaxCalls = 4
SPECIFICATION FairSpec
INVARIANTS
    ReadsItsOwnFile
    ErrnoTellsFailure
    FailsOnlyForCause
PROPERTY
    CallsReturn
CHECK_DEADLOCK FALSE
