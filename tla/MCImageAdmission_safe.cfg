SPECIFICATION FairSpec
CONSTANTS
    r1 = r1
    r2 = r2
    r3 = r3
    r4 = r4
    Requests = {r1, r2, r3, r4}
    UserOf <- TwoUsers
    SyncWait = {r3}
    Free = {r2}
    Databases = {"postgres", "sqlite"}
    GlobalLimit = 3
    SyncLimit = 2
    PerUserLimit = 2
    MaxFaults = 1
INVARIANT TypeOK
INVARIANT ChargeFollowsRow
PROPERTY AdmittedWithinLimits
PROPERTY EveryRequestAnswered
CHECK_DEADLOCK FALSE
