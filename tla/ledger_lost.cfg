SPECIFICATION Spec
CONSTANTS
    f1 = f1
    f2 = f2
    f3 = f3
    f4 = f4
    t1 = t1
    t2 = t2
    One = 100
    Tickers = {t1, t2}
    Fills = {f1, f2, f3, f4}
    FillOf <- MCFillOf
    Payout <- MCPayout
    Traders = {s1, s2}
    Settler = settler
    MaxAborts = 0
INVARIANTS
    EveryFillFolded
CHECK_DEADLOCK FALSE
