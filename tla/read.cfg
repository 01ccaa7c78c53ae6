SPECIFICATION Spec
CONSTANTS
    t1 = t1
    t2 = t2
    Tickers = {t1, t2}
    HealMinStale = 2
    MaxChanges = 1
    MaxFaults = 2
    NoSeq = 0
    x1 = x1
    x2 = x2
    x3 = x3
    Trades = {x1, x2, x3}
    MinuteOf <- MCMinuteOf
    bid = bid
    ask1 = ask1
    Columns = {bid, ask1}
    MaxMinute = 1
    MaxQuotes = 2
    MaxSlips = 1
    m1 = m1
    m2 = m2
    s1 = s1
    s2 = s2
    Markets = {m1, m2}
    SeriesOf <- MCSeriesOf
    TickerOf <- MCTickerOf
    Whole = 100
    Quotes = {48, 50}
    FeeEach = 2
    Deltas <- MCDeltas
    WindowEnd = 2
    CloseTimes = {1, 2}
    MinMarkets = 2
    MinSettled = 1
    MinSpan = 2
    MinSeries = 2
    Tolerated = 1
    MinTrades = 2
    MaxSnapshots = 3
    MaxNet = 2
    MaxFills = 3
    p1 = p1
    p2 = p2
    p3 = p3
    arb = arb
    whale = whale
    sim = sim
    demo = demo
    k1 = k1
    k2 = k2
    Decisions = {p1, p2, p3}
    Manual = manual
    SourceOf <- MCSourceOf
    RouteOf <- MCRouteOf
    Exchanges = {sim, demo}
    Contracts = {k1, k2}
    Amounts = {3}
    RowFee = 2
    MaxRows = 4
    leg1 = leg1
    leg2 = leg2
    half = half
    plain = plain
    Listed <- MCListed
    DefaultTaker = 2
    DefaultMaker = 0
    Legs = {leg1, leg2}
    LegSeries = half
    LegBooks <- MCLegBooks
    CandidateSizes = {1, 2}
    MinEdge = 100
    Slippage = 1
    TicketSeries = {half, plain}
    TicketPrices = {40, 57, 70}
    TicketSizes = {1, 3}
    Fairs = {20, 52, 75}
    Slips = {0, 2}
    TicketBooks <- MCTicketBooks
    MarketQuotes <- MCMarketQuotes
    Probe = 3
    MinTicketEdge = 100
    Bankroll = 1000
    KellyDivisor = 4
    MarketShare = 8
    Headrooms = {0, 90, 500}
    w1 = w1
    r1 = r1
    r2 = r2
    Requests = {w1, r1, r2}
    Writes = {w1}
    MaxRetries = 2
    Capacity = 2
    MaxRate = 2
    MinRate = 1
    SuccessesPerIncrease = 1
    TokenCost = 2
    MaxBackoff = 1
    MaxTicks = 2
    c1 = c1
    c2 = c2
    Listing = {c1, c2}
    Overlap = 1
    MaxTime = 3
    MaxBreaks = 1
    b1 = b1
    b2 = b2
    Clients = {b1, b2}
    Watchable = {m1}
    Urgent = Urgent
    h1 = h1
    h2 = h2
    Pumps = {h1, h2}
    NoPump = NoPump
    QueueMax = 1
    MaxMessages = 3
INVARIANTS
    AnsweringBookIsRight
    StaleIsAwaited
    NothingHandledIsForgotten
    CandleIsItsMinute
    CashExplainsEquity
    SettledIsFinal
    AcceptedDataIsDense
    EventsAreTheirRows
    SetEdgeIsWorstCase
    TicketIsHonest
    SizedWithinCaps
    WriteReachesOnce
    WithinBudget
    CatalogMissesNothing
    EveryBrowserIsServed
PROPERTIES
    BooksHeal
    QuotesOnlyAdvance
    ImplementsView
CHECK_DEADLOCK FALSE
