SPECIFICATION FairSpec
CONSTANTS
    Nodes = {n1, n2}
    Routines = {g1, g2}
    NoKey = NoKey
    NoFlush = NoFlush
    NoTask = NoTask
    Start = 1
    Amounts = {1}
    MaxOps = 2
    MaxFaults = 2
INVARIANT TypeOK
INVARIANT QuotaConserved
PROPERTY CacheConverges
CHECK_DEADLOCK FALSE
