SPECIFICATION BacktestSpec
CONSTANTS
    m1 = m1
    m2 = m2
    s1 = s1
    s2 = s2
    Markets = {m1, m2}
    SeriesOf <- MCSeriesOf
    TickerOf <- MCTickerOf
    Whole = 100
    Quotes = {48, 50}
    FeeEach = 2
    Deltas <- MCDeltas
    WindowEnd = 2
    CloseTimes = {1, 2}
    MinMarkets = 2
    MinSettled = 1
    MinSpan = 2
    MinSeries = 2
    Tolerated = 1
    MinTrades = 2
    MaxSnapshots = 3
    MaxNet = 2
    MaxFills = 4
INVARIANT EdgeIsNetOfFees
CHECK_DEADLOCK FALSE
