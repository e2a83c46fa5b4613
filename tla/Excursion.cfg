SPECIFICATION Spec
CONSTANT MaxDepth = 2
INVARIANTS
    TypeOK
    UserMachine
    NothingStops
    NoDeadRoot
    OutcomeIsTrue
