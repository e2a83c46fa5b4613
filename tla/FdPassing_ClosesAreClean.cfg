SPECIFICATION Spec
CONSTANTS
    t1 = t1
    t2 = t2
    f1 = f1
    f2 = f2
    none = none
    Tasks = {t1, t2}
    Conns = {0}
    Shms = {0}
    ShmFrames = {f1}
    NoShm = none
    SocketRing = 1
    MaxFds = 2
    MaxBinds = 2
    MaxMessages = 1
SYMMETRY Symmetry
CHECK_DEADLOCK FALSE
INVARIANT
    ClosesAreClean
