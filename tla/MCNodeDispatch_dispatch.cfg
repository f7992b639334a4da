SPECIFICATION FairSpec
CONSTANTS
    Edges = {e1, e2}
    Everyone = Everyone
    MaxExtra = 1
    Tasks = {t1}
    Callers = {e1}
    Conns = {c1, c2}
    NoEdge = NoEdge
    NoConn = NoConn
    Wirings = {TRUE, FALSE}
INVARIANTS
    OnlyOvertakenSkipped
    AnswerIsRecorded
PROPERTIES
    NoReplay
    LocalCallEnds
    WiredRemoteCallEnds
CHECK_DEADLOCK FALSE
