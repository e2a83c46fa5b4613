SPECIFICATION Spec
CONSTANTS
    BlocksCount = 4
    BlocksPerGroup = 3
    InodesCount = 4
    InodesPerGroup = 3
    FirstInode = 3
    BlockSize = 2
    Direct = 2
    TableSize = 1
    SectorsPerBlock = 1
    ExtraSize = 1
    DirSpan = 4
    Span <- MCSpan
    Seeds <- MCSeeds
    Programs = {1, 2}
    Paths <- MCPaths
    Writes <- MCWrites
CHECK_DEADLOCK FALSE
INVARIANTS
    BlocksAccounted
    TreeOK
    FilesKeepTheirText
    UndoneIsUntouched
