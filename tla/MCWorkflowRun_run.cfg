SPECIFICATION FairSpec
CONSTANTS
    Workers = {w1, w2}
    NoOwner = NoOwner
    MaxSteps = 2
    StepCounts = {0, 2}
    MaxAttempts = 2
    Retryable = {1}
    CliSteps = {1}
    LlmSteps = {2}
    PostSteps = {}
    PolicyOf <- GatedLast
    HasBudget = TRUE
    AttemptBound = 4
    MaxFaults = 1
INVARIANTS
    LeaseIffRunning
    ActivityNeedsFaults
    ExecutorHoldsLease
    StepsInOrder
    BudgetOverrideIsApproved
PROPERTIES
    RunSettles
    TerminalRunIsFinal
    KeepsRunPromise
CHECK_DEADLOCK FALSE
