SPECIFICATION FairSpec
CONSTANTS
    Worker = {w1, w2}
    Message = {sms, code, bell}
    OrgSms = {sms}
    InApp = {bell}
    Sensitive = {code}
    Payment = {p}
    Pack = 1
    Allowance = 1
    MaxMonth = 1
    Costs = {1}
    MaxAttempts = 2
    RetryDelay = 1
    StaleAfter = 1
    LossyProvider = FALSE
    PromptWorkers = TRUE
    MaxFailures = 1
    None = none
INVARIANTS NeverSentTwice
PROPERTIES KeepsPromise AllSettled
CHECK_DEADLOCK FALSE
