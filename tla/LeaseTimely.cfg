\* Leaders that renew in time: one process at a time runs the jobs, leadership returns, stopping ends.
SPECIFICATION FairSpec
CONSTANTS
    n1 = n1  n2 = n2  n3 = n3  j1 = j1  j2 = j2
    NoHolder = NoHolder
    Nodes <- ThreeNodes
    Jobs = {j1}
    Timely = TRUE
    MaxTerms = 5
    MaxFaults = 1
    MaxCrashes = 1
INVARIANTS
    OneLeaderRunsJobs
PROPERTIES
    LeaderReturns StopEnds
