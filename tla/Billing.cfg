SPECIFICATION FairSpec
CONSTANTS
    Handler = {h1, h2}
    Reader = {r}
    Payment = {p}
    PoolMax = 2
    MaxSubs = 2
    MaxRequests = 3
    MaxFailures = 1
    None = none
INVARIANTS TypeOK CreditsOnce OnlyPaidIsActive BookedOnce OneActive StaleExplained
PROPERTIES KeepsPromise NobodyStarves
CHECK_DEADLOCK FALSE
