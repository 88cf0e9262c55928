CONSTANTS
    r = r
    a = a
    b = b
    f = f
    Inode = {r, a, b, f}
    Directory = {r, a, b}
    Roots = {r, f}
    Numberings <- MCNumberings
    Listings <- MCListings
    Limits = {0, 2, 9}
    MaxDepths = {1, 9}
SPECIFICATION FairSpec
INVARIANTS
    ListedOnce
    InPathOrder
    WalkComplete
PROPERTY
    WalkEnds
CHECK_DEADLOCK FALSE
