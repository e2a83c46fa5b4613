SPECIFICATION Spec
CONSTANTS
    CAP = 3
    MemoryMaps <- MCMemoryMaps
    FrameNumbers <- MCFrameNumbers
    Counts = {2, 3}
    Alignments = {2, 4}
INVARIANTS
    RangesAreMerged
    OneOwnerPerFrame
PROPERTIES
    PoolOK
CHECK_DEADLOCK FALSE
