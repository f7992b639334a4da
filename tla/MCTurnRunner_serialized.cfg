SPECIFICATION Spec
CONSTANTS
    Loops = {l1, l2}
    FirstLoops = {l1}
    NoOwner = NoOwner
    MaxTurns = 2
    MaxApprovals = 1
    MaxFaults = 1
    LeaseMayLapse = FALSE
INVARIANT SerializedPerConversation
CHECK_DEADLOCK FALSE
