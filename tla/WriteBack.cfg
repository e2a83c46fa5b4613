SPECIFICATION LiveSpec
CONSTANTS
    Programs = {main, child}
    Blocks = {data, inode}
    INDICES = 3
    MaxWrites = 3
    MaxErrors = 1
    MaxTimeouts = 1
INVARIANTS
    SavedIsOnDisk
    DeviceWorksForTheClaim
PROPERTIES
    CloseReturns
