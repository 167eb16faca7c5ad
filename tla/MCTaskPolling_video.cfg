SPECIFICATION FairSpec
CONSTANTS
    c1 = c1
    Tasks = {1, 2}
    Pollers = {p1, p2}
    Viewers = {}
    Channels = {c1}
    Platform <- AllVideo
    ChannelOf <- OneChannel
    Realtime = {}
    Deletable = {}
    Legacy = {}
    Quota = 2
    Actuals = {1, 3}
    Reports <- SteadyReports
    SweepOn = TRUE
    SweepLimit = 1
    QueryLimit = 1
    MaxViews = 0
    MaxFaults = 1
INVARIANT TypeOK
INVARIANT TaskMoneyExact
PROPERTY ImplementsLedger
PROPERTY EveryTaskEnds
