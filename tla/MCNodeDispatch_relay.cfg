SPECIFICATION FairSpec
CONSTANTS
    Edges = {e1, e2}
    Everyone = Everyone
    MaxExtra = 0
    Tasks = {t1}
    Callers = {e1}
    Conns = {c1}
    NoEdge = NoEdge
    NoConn = NoConn
    Wirings = {FALSE}
PROPERTY RemoteCallEnds
CHECK_DEADLOCK FALSE
