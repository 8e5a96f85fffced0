\* A plain and an image playground request: fallbacks in both directions, a limited subscription that resets and expires.
SPECIFICATION FairSpec
CONSTANTS
    r1 = r1  r2 = r2
    Requests <- Two
    ImageRequests <- Second
    PlaygroundRequests <- Second
    ForcedRequests <- Second
    Preferences = {"subscription_first", "wallet_first"}
    WalletInit = 4
    TokenInit = 5
    TokenUnlimited = FALSE
    TrustQuota = 3
    HasSubscription = TRUE
    AllowWalletOverflow = TRUE
    SubTotal = 3
    PreQuotas = {0, 2}
    Targets = {3}
    Actuals = {0, 4}
    MaxReserves = 1
    MaxFailures = 1
    MaxResets = 1
    MayExpire = TRUE
INVARIANTS
    SettledCostsActual SettledTokenMatches FailedCostsNothing NeverOverRefunded Accounting
PROPERTIES
    HeldQuotaResolved
