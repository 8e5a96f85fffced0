\* Two events of one aggregate, two workers, expiring locks, crashes and redrives.
SPECIFICATION Spec
SYMMETRY Symmetric
CONSTANTS
    w1 = w1  w2 = w2  a = a  k1 = k1  k2 = k2
    NoAggregate = NoAggregate  NoKey = NoKey  Hidden = Hidden
    Workers <- TwoWorkers
    Events <- TwoEvents
    Aggregate <- OneAggregate
    Handles <- Both
    Held = {}
    RedriveKeys = {k1, k2}
    Redacted = {k2}
    RowLocks = TRUE
    Pauses = TRUE
    MaxAttempts = 2
    MaxClaims = 3
    MaxDefers = 1
    MaxFaults = 1
    MaxCrashes = 1
    MaxRedrives = 2
INVARIANTS
    OutboxInv AggregateOrder
PROPERTIES
    RedriveReplayIgnored DeliversInOrder
