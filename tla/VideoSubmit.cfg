\* Two tabs, one of them signing out and in again, the other remounting and
\* meeting storage faults; two users taking turns, or two attempts at the
\* same request by one of them.
SPECIFICATION Spec
CONSTANTS
    t1 = t1  t2 = t2  u1 = u1  u2 = u2  c1 = c1
    NoUser = NoUser  NotReady = NotReady
    Tabs <- TwoTabs
    Users <- TwoUsers
    Contents <- OneContent
    Ops <- TwoOps
    PendingLimit = 2
    AcceptedKept = 0
    FaultyTabs = {t2}
    MaxEpoch <- LeaveAndReturn
    MaxMount <- OneRemount
CONSTRAINT TwoUsersOrTwoAttempts
INVARIANTS
    SubmissionInv PostedAsSubmitter OwnRecordsOnly
PROPERTIES
    GuardsSubmissions AcceptedIsFinal
