SPECIFICATION VfsSpec
CONSTANTS
    Preamble = 2
    LockByte = 8
    MaxInt64 = 14
    MaxLogical = 14
    PageSizes <- MCPageSizes
    Byte = {1}
INVARIANT ShortReadsZeroFill
