SPECIFICATION Spec
CONSTANTS
    n1 = n1
    n2 = n2
    w2 = w2
    s2 = s2
    Tasks = {t1, t2}
    Nodes = {n1}
    Workers = {w1, w2}
    Sweepers = {s1}
    NodeOf <- OneNode
    Legacy = {t2}
    UseRedis = FALSE
    QueueCapacity = 1
    MaxAttempts = 1
    MaxNotify = 2
    MaxExpiries = 1
    MaxFaults = 1
    MaxCrashes = 0
INVARIANTS TypeOK QueuedIsBacked
PROPERTY ImplementsLedger
CHECK_DEADLOCK FALSE
