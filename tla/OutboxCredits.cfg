SPECIFICATION Spec
CONSTANTS
    Worker = {w1, w2}
    Message = {m1, m2}
    OrgSms = {m1, m2}
    InApp = {}
    Sensitive = {}
    Payment = {p}
    Pack = 1
    Allowance = 1
    MaxMonth = 2
    Costs = {1, 2}
    MaxAttempts = 2
    RetryDelay = 1
    StaleAfter = 1
    LossyProvider = TRUE
    PromptWorkers = FALSE
    MaxFailures = 1
    None = none
SYMMETRY SmsSymmetry
INVARIANTS NoOverdraft TopUpsKept ChargeMatchesRow OneSender
PROPERTIES ChargedOnce
CHECK_DEADLOCK FALSE
