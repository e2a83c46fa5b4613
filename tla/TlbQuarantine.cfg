SPECIFICATION LiveSpec
CONSTANTS
    c0 = c0
    c1 = c1
    c2 = c2
    f1 = f1
    f2 = f2
    f3 = f3
    none = none
    Cpus = {c0, c1, c2}
    Bsp = c0
    NoCpu = none
    Frames = {f1, f2}
    Capacity = 1
    MaxGeneration = 3
INVARIANTS
    NoStaleFree
    FlushDiscipline
PROPERTIES
    HeldIsRetired
