SPECIFICATION FairSpec
CONSTANTS
    o1 = o1
    o2 = o2
    h1 = h1
    h2 = h2
    n1 = n1
    n2 = n2
    NoOrder = NoOrder
    Orders = {o1, o2}
    Handlers = {h1, h2}
    Nodes = {n1, n2}
    Deployments <- SoundDeployments
    Portfolios <- AnyOrderAndSub
    MaxPurchase = 1
    QuotaPerUnit = 2
    MaxFaults = 2
INVARIANT TypeOK
INVARIANT CreditedOnce
INVARIANT StatusTellsCredit
PROPERTY PaidIsCredited
CHECK_DEADLOCK FALSE
