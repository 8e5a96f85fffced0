\* An image request whose reservation was raised and that then fails.
SPECIFICATION Spec
CONSTANTS
    r1 = r1  r2 = r2
    Requests <- One
    ImageRequests <- One
    PlaygroundRequests <- Nobody
    ForcedRequests <- Nobody
    Preferences = {"wallet_only"}
    WalletInit = 5
    TokenInit = 5
    TokenUnlimited = FALSE
    TrustQuota = 0
    HasSubscription = FALSE
    AllowWalletOverflow = FALSE
    SubTotal = 0
    PreQuotas = {0, 2, 3}
    Targets = {3, 4}
    Actuals = {0, 2, 5}
    MaxReserves = 2
    MaxFailures = 0
    MaxResets = 0
    MayExpire = FALSE
INVARIANTS
    RefundReturnsAll
