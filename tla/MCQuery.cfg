CONSTANTS
    Cut = 23
    BlockSize = 4
    MaxBlocks = 4
    MaxSymlink = 5
    InvalidFrag = 900
    InvalidXattr = 900
    MaxEntries = 3
    NameLen = 4
    U32 = 1048576
    Namespaces <- MCNamespaces
    MaxNameLen = 5
    MaxValueLen = 5
    MaxXattrs = 3
    Images <- MCImages
    Paths <- MCPaths
    XattrNames <- MCXattrNames
    Nothing = Nothing
SPECIFICATION Spec
INVARIANTS
    ResolvesPath
    ListsDirectory
    HandedBackResolves
    ListingAccounted
    ListsXattrs
CHECK_DEADLOCK FALSE
