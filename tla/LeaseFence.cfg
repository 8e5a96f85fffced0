\* Leases that expire at any moment; jobs that ignore cancellation.
SPECIFICATION Spec
SYMMETRY SymTwo
CONSTANTS
    n1 = n1  n2 = n2  n3 = n3  j1 = j1  j2 = j2
    NoHolder = NoHolder
    Nodes <- TwoNodes
    Jobs = {j1, j2}
    Timely = FALSE
    MaxTerms = 3
    MaxFaults = 1
    MaxCrashes = 1
INVARIANTS
    FenceNamesOneTerm OwnedUntilCommit LeaseInv
PROPERTIES
    WritesAreFenced HandoverIsClean
