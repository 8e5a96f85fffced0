\* The claim on SQLite, without a transaction: the row may change between its SELECT and its UPDATE.
SPECIFICATION Spec
CONSTANTS
    w1 = w1  w2 = w2  a = a  k1 = k1  k2 = k2
    NoAggregate = NoAggregate  NoKey = NoKey  Hidden = Hidden
    Workers <- TwoWorkers
    Events <- TwoEvents
    Aggregate <- OneAggregate
    Handles <- Both
    Held = {}
    RedriveKeys = {k1}
    Redacted = {}
    RowLocks = FALSE
    Pauses = FALSE
    MaxAttempts = 2
    MaxClaims = 3
    MaxDefers = 0
    MaxFaults = 0
    MaxCrashes = 0
    MaxRedrives = 1
PROPERTIES
    ClaimTakesSelectedRow
