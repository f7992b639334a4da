SPECIFICATION FairSpec
CONSTANTS
    Workers = {w1, w2}
    NoOwner = NoOwner
    MaxSteps = 2
    StepCounts = {2}
    MaxAttempts = 1
    Retryable = {1}
    CliSteps = {}
    LlmSteps = {}
    PostSteps = {1}
    PolicyOf <- MixedPolicy
    HasBudget = FALSE
    AttemptBound = 3
    MaxFaults = 1
PROPERTY SucceededStepIsFinal
CHECK_DEADLOCK FALSE
