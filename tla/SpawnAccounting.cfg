SPECIFICATION Spec
CONSTANTS
    Frames = 10
    Capacity = 3
    MaxDepth = 2
    MaxHeap = 1
    MaxTables = 3
    MaxStarts = 3
    MaxShared = 1
INVARIANTS
    DifferenceIsOwn
    SpaceIsCollected
    CrossedIsOverlap
    NobodyRefused
CHECK_DEADLOCK FALSE
