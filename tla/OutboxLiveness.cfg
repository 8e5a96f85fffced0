\* Two lanes, kept heartbeats, no row locks: every event settles.
SPECIFICATION FairSpec
CONSTANTS
    w1 = w1  w2 = w2  a = a  k1 = k1  k2 = k2
    NoAggregate = NoAggregate  NoKey = NoKey  Hidden = Hidden
    Workers <- TwoWorkers
    Events <- TwoEvents
    Aggregate <- OneAggregate
    Handles <- Lanes
    Held = {}
    RedriveKeys = {k1}
    Redacted = {}
    RowLocks = FALSE
    Pauses = FALSE
    MaxAttempts = 2
    MaxClaims = 8
    MaxDefers = 0
    MaxFaults = 1
    MaxCrashes = 1
    MaxRedrives = 0
INVARIANTS
    HandledOnceUnlessExpired
PROPERTIES
    EventsSettle
