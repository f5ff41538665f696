SPECIFICATION Spec
CONSTANTS
    Pallets = {p1}
    Threads = {t1, t2}
    NoPallet = NoPallet
    NoThread = NoThread
    Elsewhere = {}
    MaxToken = 2
    MaxEdits = 1
    RetryLimit = 0
INVARIANTS
    OneCoordinator
    ProgramEndsBeforeTransfer
PROPERTIES
    OverIsOver
SYMMETRY Interchangeable
CHECK_DEADLOCK FALSE
