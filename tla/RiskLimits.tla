------------------------------ MODULE RiskLimits ------------------------------
(***************************************************************************)
(* The arithmetic of backend/app/trading/risk.py: what a losing streak is  *)
(* and when its cooldown ends, and what each limit refuses.  Money is in   *)
(* whole cents.                                                            *)
(***************************************************************************)
EXTENDS Integers, Sequences, FiniteSets

\* consecutive_losses: values are the closes, newest first.  A break-even close
\* neither extends a streak nor ends it.
ConsecutiveLosses_EvenEnds(values) ==
    Cardinality({i \in DOMAIN values : \A j \in 1 .. i : values[j] < 0})
ConsecutiveLosses(values) ==
    Cardinality({i \in DOMAIN values : values[i] < 0 /\ \A j \in 1 .. i : values[j] <= 0})

\* snapshot: found are records of when and how much, newest first; the streak's
\* cooldown runs from the newest close that _recent_losses returns.
CooldownUntil(found, after, minutes, Never) ==
    LET streak == ConsecutiveLosses([i \in DOMAIN found |-> found[i].pnl])
    IN  IF streak > 0 /\ streak >= after THEN found[1].at + minutes ELSE Never

\* RiskState.daily_loss_breached, of realised P&L after fees.
DailyLossBreached(realized, fees, limit) == limit > 0 /\ realized - fees <= -limit

\* check_exposure: open positions plus this trade, against the total.
ExposureAllows(open, extra, limit) == limit <= 0 \/ open + extra <= limit

\* The per-market cap, in _guard_market_size and in guard_approval.
MarketAllows(committed, extra, limit, bankroll) ==
    bankroll <= 0 \/ committed + extra <= limit

===============================================================================
