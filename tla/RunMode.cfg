SPECIFICATION Spec
CONSTANTS
    Pallets = {p1, p2}
    Threads = {t1}
    NoPallet = NoPallet
    NoThread = NoThread
    Elsewhere = {away}
    MaxToken = 1
    MaxEdits = 1
    RetryLimit = 1
INVARIANTS
    RunTypeOK
PROPERTIES
    CompletionIsEarned
    OneRunPerRequest
    StoppedThreadEnds
CHECK_DEADLOCK FALSE
