SPECIFICATION FairSpec
CONSTANTS
    Messages = {1, 2}
    Modes = {"collect", "steer", "interrupt"}
    Workers = {p1, p2}
    NoOwner = NoOwner
    NoSignal = NoSignal
    Cap = 1
    Policies = {"drop_oldest", "drop_newest", "summarize_dropped"}
    MaxBatch = 2
    MaxFaults = 1
    LeaseMayLapse = FALSE
INVARIANTS
    OneTurnAtATime
    Accounted
PROPERTIES
    SettledOnce
    EveryMessageSettles
CHECK_DEADLOCK FALSE
