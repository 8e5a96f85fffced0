\* A subscription refund whose record could not be saved is retried.
SPECIFICATION Spec
CONSTANTS
    r1 = r1  r2 = r2
    Requests <- One
    ImageRequests <- Nobody
    PlaygroundRequests <- Nobody
    ForcedRequests <- Nobody
    Preferences = {"subscription_only"}
    WalletInit = 5
    TokenInit = 5
    TokenUnlimited = FALSE
    TrustQuota = 0
    HasSubscription = TRUE
    AllowWalletOverflow = FALSE
    SubTotal = 5
    PreQuotas = {0, 2, 3}
    Targets = {3, 4}
    Actuals = {0, 2, 5}
    MaxReserves = 2
    MaxFailures = 1
    MaxResets = 0
    MayExpire = FALSE
INVARIANTS
    SubscriptionRefundIdempotent
