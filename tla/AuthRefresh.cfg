\* Two tabs, two sessions one after the other, one fault.
SPECIFICATION FairSpec
CONSTANTS
    t1 = t1  t2 = t2
    None = None  Anonymous = Anonymous
    Tabs <- TwoTabs
    Busy <- OneTab
    Sids <- TwoSids
    Locks = TRUE
    MaxGen = 1
    MaxFaults = 1
INVARIANTS
    ReuseMeansLoss
PROPERTIES
    NeverBackToEnded RefreshEnds EndIsNoticed
CHECK_DEADLOCK FALSE
