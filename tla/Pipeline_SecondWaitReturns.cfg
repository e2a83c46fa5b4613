SPECIFICATION LiveSpec
CONSTANTS
    RingSize = 1
    MaxStarts = 1
    MaxSent = 1
PROPERTY
    SecondWaitReturns
