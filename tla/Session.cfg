SPECIFICATION LiveSpec
CONSTANTS
    CAPACITY = 2
    PAUSE_TRAILING_BYTES = 1
    Keys <- MCKeys
    ReadSizes = {1}
    Durations <- MCDurations
    HZ = 2
    NANOS_PER_SECOND = 4
    U64_MAX = 7
    MaxDepth <- MCMaxDepth
INVARIANTS
    SleepersHaveNothingToWakeFor
    RequestIsForThoseRunning
    DecodersAgree
PROPERTIES
    SpinnerIsStopped
    WokenTaskRuns
