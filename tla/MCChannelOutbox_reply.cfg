SPECIFICATION FairSpec
CONSTANTS
    Workers = {p1, p2}
    NoOwner = NoOwner
    NChunks = 2
    MaxFaults = 1
INVARIANTS
    DuplicatesNeedFaults
    GatedIsNotSent
PROPERTIES
    MessageLeaves
CHECK_DEADLOCK FALSE
