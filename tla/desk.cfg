SPECIFICATION RiskSpec
CONSTANTS
    a1 = a1
    a2 = a2
    a3 = a3
    e1 = e1
    mA = mA
    mB = mB
    ev = ev
    set = set
    quote = quote
    Proposals = {a1, a2, a3, e1}
    Markets = {mA, mB}
    TickersOf <- MCTickersOf
    NamedOf <- MCNamedOf
    EventOf <- MCEventOf
    SourceOf <- MCSourceOf
    Manual = manual
    LegCost <- MCLegCost
    Loss <- MCLoss
    Lots = 1
    MaxPending = 2
    MarketCap = 2
    TotalCap = 3
    Bankroll = 100
    Makers = {k1, k2}
    Sessions = {s1, s2}
    MaxAborts = 1
    None = none
    Pnl <- MCPnl
    CloseFee = 1
    After = 2
    Cooldown = 2
    LossLimit = 7
    StreakWindow = 3
    Lateness = 1
    HoursOfDay = 2
    LastHour = 3
    MaxCloses = 4
    MaxScratches = 1
INVARIANTS
    QueueGuarded
    
    LossesHalt

    
CHECK_DEADLOCK FALSE
