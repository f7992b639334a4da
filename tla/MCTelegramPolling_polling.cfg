SPECIFICATION FairSpec
CONSTANTS
    w1 = w1
    w2 = w2
    w3 = w3
    procA = procA
    procB = procB
    b1 = b1
    b2 = b2
    s1 = s1
    s2 = s2
    s3 = s3
    webhook = webhook
    Workers = {w1, w2, w3}
    OwnerOf <- OwnerNames
    NoOwner = NoOwner
    NoWorker = NoWorker
    Settings = {s1, s2, webhook}
    BotOf <- Tokens
    NoBot = NoBot
    Updates <- UpdateIds
    MaxEvents = 1
INVARIANTS
    NothingForgotten
PROPERTIES
    EveryUpdateHandled
CHECK_DEADLOCK FALSE
