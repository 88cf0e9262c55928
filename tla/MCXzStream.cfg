CONSTANTS
    X86Bytes = {0, 232, 255, 5}
    X86Length = 6
    VarintBytes = 3
    Originals <- MCOriginals
    ByteValues <- MCByteValues
    MaxOuts <- MCMaxOuts
    Crc32 <- MCCrc32
    Crc64 <- MCCrc64
SPECIFICATION XzSpec
INVARIANTS
    AcceptsOnlyTheOriginal
    AcceptsTheOriginal
    OutputCapped
PROPERTIES
    DecodeEnds
CHECK_DEADLOCK FALSE
