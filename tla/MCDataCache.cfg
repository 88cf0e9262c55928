CONSTANTS
    Thread = {t1, t2}
    Request <- MCRequest
    KeyOf <- MCKeyOf
    Decode <- MCDecode
    Refused = Refused
    IoError = IoError
    None = None
    Malformed = Malformed
    Capacities = {0, 1, 2}
    InitialCapacity = 1
    MaxReads = 4
    MaxResizes = 2
SPECIFICATION Spec
SYMMETRY Symmetry
INVARIANTS
    TypeOK
    CoherentEntries
    BoundedEntries
    DisabledIsInert
    EntriesPaidFor
    NoReaderDecodesTwice
PROPERTY
    ImplementsUncached
CHECK_DEADLOCK FALSE
