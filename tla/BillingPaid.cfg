\* Two settlements hold both connections of the pool while each activates its subscription.
SPECIFICATION Spec
CONSTANTS
    Handler = {h1, h2}
    Reader = {}
    Payment = {p, q}
    PoolMax = 2
    MaxSubs = 1
    MaxRequests = 3
    MaxFailures = 0
    None = none
SYMMETRY BillingSymmetry
INVARIANTS PaidIsActivated
CHECK_DEADLOCK FALSE
