\* One task: retries, database errors, crashes, recovery, pollers, other spending.
SPECIFICATION FairSpec
CONSTANTS
    Balance <- SmallBalance
    Total = 1
    Order <- SubscriptionFirst
    Quota = 1
    Targets = {2}
    Actuals = {0, 1}
    BillsToken = TRUE
    TokenUnlimited = FALSE
    Pollers = {p1, p2}
    SlowReserve = FALSE
    MaxTries = 2
    MaxFaults = 2
    MaxForgiven = 1
CONSTRAINT SecondFaultAlone
CHECK_DEADLOCK FALSE
INVARIANTS
    TaskInv Conserved TakenOnce RefundJustified FailedNotClosedCharged
PROPERTIES
    ResultStands ChargeFollowsTask FailureRefunded HoldDecided
