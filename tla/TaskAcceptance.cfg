\* No database error: a recovery that runs while the upstream is still answering.
SPECIFICATION Spec
CONSTANTS
    Balance <- SmallBalance
    Total = 1
    Order <- SubscriptionFirst
    Quota = 1
    Targets = {1, 2}
    Actuals = {0, 1}
    BillsToken = TRUE
    TokenUnlimited = FALSE
    Pollers = {p1}
    SlowReserve = FALSE
    MaxTries = 2
    MaxFaults = 0
    MaxForgiven = 0
CHECK_DEADLOCK FALSE
INVARIANT
    AcceptanceDurable
