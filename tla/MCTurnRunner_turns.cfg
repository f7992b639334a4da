SPECIFICATION FairSpec
CONSTANTS
    Loops = {l1, l2}
    FirstLoops = {l1}
    NoOwner = NoOwner
    MaxTurns = 2
    MaxApprovals = 1
    MaxFaults = 1
    LeaseMayLapse = FALSE
INVARIANTS
    PausedTurnCanResume
    SerializedUndisturbed
PROPERTIES
    LateOutcomeIgnored
    TerminalTurnIsFinal
    TurnSettles
    DecidedTurnMovesOn
CHECK_DEADLOCK FALSE
