SPECIFICATION SettlingSpec
CONSTANTS
    f1 = f1
    f2 = f2
    f3 = f3
    f4 = f4
    t1 = t1
    t2 = t2
    One = 100
    Tickers = {t1, t2}
    Fills = {f1, f2, f4}
    FillOf <- MCFillOf
    Payout <- MCPayout
    Traders = {s1, s2}
    Settler = settler
    MaxAborts = 2
    q1 = q1
    q2 = q2
    Surveyed = {q1, q2}
    sw1 = sw1
    sw2 = sw2
    Sweepers = {sw1, sw2}
    MaxCandidates = 1
    MaxBackfill = 1
    MaxMoves = 2
    MaxSlipped = 1
INVARIANTS
    ExactUnlessRaced
    DayIsSumUnlessRaced
CHECK_DEADLOCK FALSE
PROPERTIES
    OpenPositionSettles
    NoObservationStarves
