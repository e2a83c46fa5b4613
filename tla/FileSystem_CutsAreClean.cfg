SPECIFICATION Spec
CONSTANTS
    BlocksCount = 16
    BlocksPerGroup = 16
    InodesCount = 5
    InodesPerGroup = 5
    FirstInode = 3
    BlockSize = 1
    Direct = 1
    TableSize = 7
    SectorsPerBlock = 8
    ExtraSize = 5
    DirSpan = 6
    Span <- MCSpan
    Seeds <- MCLongSeeds
    Programs = {1}
    Paths <- MCLongPaths
    Writes <- MCWrites
CHECK_DEADLOCK FALSE
INVARIANT
    CutsAreClean
