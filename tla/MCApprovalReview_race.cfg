SPECIFICATION FairSpec
CONSTANTS
    Gateways = {g1, g2}
    NoGateway = NoGateway
    MaxEngineAttempts = 2
    Faults = TRUE
    Creators = {c1}
    Humans = {h1}
    Origins <- AllOrigins
INVARIANTS
    ReviewMatchesStatus
    OverrideIsApproved
    OneReviewer
    SucceededWasApplied
PROPERTIES
    SettledActionIsFinal
    KeepsPromise
    ReviewEnds
    ActionIsRetried
CHECK_DEADLOCK FALSE
