CONSTANTS
    BlockSize = 4
    DeviceSize = 14
    Inflated <- MCInflated
    Malformed = Malformed
    Refused = Refused
    Inodes <- MCInodes
    Fragments <- MCFragments
    NoFragment = NoFragment
    Offsets = {0, 3, 4, 10}
    BufferSizes = {0, 3, 5}
    MaxU64 = 31
    MaxBlocks = 3
SPECIFICATION Spec
INVARIANTS
    CopiesTheFile
    ShortOnlyAtEnd
    ReadsIntactFiles
    GeometryHolds
CHECK_DEADLOCK FALSE
