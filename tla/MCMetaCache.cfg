CONSTANTS
    Thread = {t1, t2}
    Request <- MCRequest
    KeyOf <- MCKeyOf
    Decode <- MCDecode
    Refused = Refused
    IoError = IoError
    None = None
    Malformed = Malformed
    Capacities = {0, 2}
    InitialCapacity = 2
    MaxReads = 4
    MaxResizes = 1
SPECIFICATION Spec
SYMMETRY Symmetry
PROPERTY
    ImplementsUncached
CHECK_DEADLOCK FALSE
