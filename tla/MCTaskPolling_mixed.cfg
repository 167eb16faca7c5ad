SPECIFICATION Spec
CONSTANTS
    c1 = c1
    Tasks = {1, 2}
    Pollers = {p1}
    Viewers = {v1}
    Channels = {c1}
    Platform <- Mixed
    ChannelOf <- OneChannel
    Realtime = {1}
    Deletable = {c1}
    Legacy = {1}
    Quota = 2
    Actuals = {1}
    Reports <- OddReports
    SweepOn = TRUE
    SweepLimit = 2
    QueryLimit = 2
    MaxViews = 2
    MaxFaults = 1
INVARIANT LedgersAgree
