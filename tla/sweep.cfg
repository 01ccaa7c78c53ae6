SPECIFICATION Spec
CONSTANTS
    p1 = p1
    p2 = p2
    p3 = p3
    d1 = d1
    d2 = d2
    m1 = m1
    m2 = m2
    Proposals = {p1, p2}
    Detectors = {d1}
    DetectorOf <- MCDetectorOf
    MarketOf <- MCMarketOf
    Loss <- MCLoss
    Manual = manual
    Hour = 2
    DayLength = 5
    MinAge = 1
    MaxReportAge = 1
    MaxConsentAge = 1
    Cooldown = 2
    MaxTrades = 1
    MaxOfDetector = 1
    MaxDailyRisk = 2
    MaxCandidates = 2
    Horizon = 5
    MaxFaults = 1
    None = none
INVARIANTS
    HourlyAllowance
    DailyRiskBounded
    SentOnConsent
    LatchStops
CHECK_DEADLOCK FALSE
