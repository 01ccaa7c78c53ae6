SPECIFICATION SetSpec
CONSTANTS
    leg1 = leg1
    leg2 = leg2
    half = half
    Listed <- MCListed
    DefaultTaker = 2
    DefaultMaker = 0
    Legs = {leg1, leg2}
    LegSeries = half
    LegBooks <- MCLegBooks
    CandidateSizes = {1, 2}
    MinEdge = 100
    Slippage = 1
INVARIANT SetFillsAsPriced
CHECK_DEADLOCK FALSE
