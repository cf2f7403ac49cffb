SPECIFICATION Spec
CONSTANTS
    Worker = {w1}
    Message = {m1}
    OrgSms = {}
    InApp = {}
    Sensitive = {m1}
    Payment = {}
    Pack = 1
    Allowance = 1
    MaxMonth = 1
    Costs = {1}
    MaxAttempts = 2
    RetryDelay = 1
    StaleAfter = 1
    LossyProvider = FALSE
    PromptWorkers = TRUE
    MaxFailures = 1
    None = none
INVARIANTS SecretsForgotten
CHECK_DEADLOCK FALSE
