SPECIFICATION Spec
CONSTANTS
    Worker = {w1}
    Message = {m1}
    OrgSms = {m1}
    InApp = {}
    Sensitive = {}
    Payment = {}
    Pack = 1
    Allowance = 1
    MaxMonth = 2
    Costs = {1}
    MaxAttempts = 2
    RetryDelay = 1
    StaleAfter = 1
    LossyProvider = FALSE
    PromptWorkers = TRUE
    MaxFailures = 0
    None = none
INVARIANTS AllowanceExpires
CHECK_DEADLOCK FALSE
