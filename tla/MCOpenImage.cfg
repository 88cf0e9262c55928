CONSTANTS
    MetadataSize = 32
    Malformed = Malformed
    Refused = Refused
    NoTable = 100000
    Images <- MCImages
    CacheBlocks = {0, 8}
    Numbers = {0, 1, 4, 5, 6}
    None = None
    Absent = Absent
    NotFound = NotFound
    NotExportable = NotExportable
    IoError = IoError
    U32 = 4096
    MaxOpens = 2
    MaxLookups = 2
SPECIFICATION Spec
INVARIANTS
    MountWithinImage
    DirectoryBounded
    OpensIntact
    EntriesIndexed
    LookupNeverWrong
CHECK_DEADLOCK FALSE
