SPECIFICATION FairSpec
CONSTANTS
    n1 = n1
    n2 = n2
    w2 = w2
    s2 = s2
    Tasks = {t1}
    Nodes = {n1, n2}
    Workers = {w1, w2}
    Sweepers = {s1}
    NodeOf <- TwoNodes
    Legacy = {}
    UseRedis = TRUE
    QueueCapacity = 1
    MaxAttempts = 1
    MaxNotify = 1
    MaxExpiries = 1
    MaxFaults = 1
    MaxCrashes = 1
INVARIANTS  ClaimIsExclusive TaskMoneyExact
PROPERTY FinishedIsFinal
PROPERTY EveryTaskEnds
CHECK_DEADLOCK FALSE
