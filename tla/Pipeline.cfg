SPECIFICATION LiveSpec
CONSTANTS
    RingSize = 2
    MaxStarts = 2
    MaxSent = 4
INVARIANTS
    PipeAccounting
    NoLostWakeUp
    AnswerIsTheChildsEnding
PROPERTIES
    StreamOK
    EntryReturns
    WaitReturns
    ReadReturns
    WriteReturns
