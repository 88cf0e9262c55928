CONSTANTS
    MetadataSize = 3
    Malformed = Malformed
    Refused = Refused
    NoLimit = NoLimit
    Images <- MCImages
    Starts = {0, 3, 4}
    Offsets = {0, 1, 3}
    Limits = {3, 4, 6}
    Lengths = {1, 2, 4}
    MaxReads = 2
SPECIFICATION Spec
INVARIANT
    PullsWithinLimit
CHECK_DEADLOCK FALSE
