------------------------------- MODULE Backtest --------------------------------
(***************************************************************************)
(* One backtest of backend/app/backtest: engine.run_backtest audits what   *)
(* the tape holds (coverage.audit), replays it through a strategy          *)
(* (replay.replay) and scores the trades (stats.expectancy, verdict).      *)
(*                                                                         *)
(* The audit and the replay read the same stored snapshots by two queries. *)
(* The strategy is arbitrary; of a fill the model keeps the signed YES     *)
(* contracts, the YES price and the fee. Prices are whole cents, and of    *)
(* the fills those whose averages are whole too, as the Decimals of the    *)
(* code are exact.                                                         *)
(***************************************************************************)
EXTENDS Sums, Integers, FiniteSets, Functions

CONSTANTS
    Markets,
    SeriesOf,       \* the series of each market
    TickerOf,       \* the ticker of each market, as its place in their order
    Whole,          \* a dollar, in cents: what a YES contract pays at most
    Quotes,         \* the YES prices at which the filler can fill
    FeeEach,        \* cents of taker fee per contract
    Deltas,         \* signed YES contracts of a fill
    WindowEnd,      \* the window is 0 .. WindowEnd
    CloseTimes,     \* when a market may have closed
    MinMarkets, MinSettled, MinSpan, MinSeries, Tolerated,  \* audit thresholds
    MinTrades,      \* verdict's floor
    MaxSnapshots,   \* ceiling of load_observations
    MaxNet,         \* bound: contracts held in a market
    MaxFills        \* bound: fills of a behaviour

ASSUME BacktestAssumption ==
    /\ Markets # {} /\ IsFiniteSet(Markets)
    /\ TickerOf \in Injection(Markets, Nat)
    /\ Whole \in Nat \ {0} /\ Quotes \subseteq 1 .. Whole - 1
    /\ Deltas \subseteq Int \ {0}
    /\ FeeEach \in Nat /\ WindowEnd \in Nat /\ MinTrades \in Nat \ {0}
    /\ CloseTimes \subseteq Nat /\ MaxSnapshots \in Nat
    /\ MinMarkets \in Nat /\ MinSettled \in Nat \ {0} /\ MinSeries \in Nat
    \* A month of data, and a gap of minutes in it (coverage.py:145, :165).
    /\ Tolerated \in Nat /\ MinSpan \in Nat /\ Tolerated < MinSpan

VARIABLES
    stage,          \* "audit", "next", "act", "raised", "refused" or "scored"
    ignoring,       \* ignore_coverage
    snaps,          \* the times of each market's stored snapshots
    outcomes,       \* how each market resolved: "yes", "no" or "open", and when
    rest,           \* the observations the replay has yet to read
    obs,            \* the observation being processed
    ledger,         \* _Book: net YES contracts and average YES price of each market
    realized, fees, \* its running totals, in cents
    trades,         \* every ClosedTrade: the fill or the market it is of, its pnl
    filled,         \* how many fills there were, and each market's last one
    verdict,        \* "none" until scored
    cash            \* history: cents that changed hands, fees apart

btVars == <<stage, ignoring, snaps, outcomes, rest, obs, ledger, realized, fees,
            trades, filled, verdict, cash>>

Window == 0 .. WindowEnd
Flat == [net |-> 0, avg |-> 0]
AbsVal(n) == IF n < 0 THEN -n ELSE n
Least(S) == CHOOSE a \in S : \A b \in S : a <= b
Most(S) == CHOOSE a \in S : \A b \in S : a >= b

-------------------------------------------------------------------------------
(* The audit *)

\* collect_coverage: one row per market with a snapshot in the window, the
\* widest gap measured between neighbours; a lone snapshot has none to measure.
Holes(T) == {w \in 1 .. WindowEnd : \E a, b \in T :
                b - a = w /\ ~ \E e \in T : a < e /\ e < b}
Covered == {m \in Markets : snaps[m] # {}}

\* audit: a market seen once counts as a hole as wide as the window.
GapOf_LoneIsNone(m) == IF Cardinality(snaps[m]) < 2 THEN 0 ELSE Most(Holes(snaps[m]))
GapOf(m) == IF Cardinality(snaps[m]) < 2 THEN WindowEnd ELSE Most(Holes(snaps[m]))

\* The k-th smallest gap: the smallest that k markets do not exceed.
NoWider(m) == {n \in Covered : GapOf(n) <= GapOf(m)}
GapRanked(k) == Least({GapOf(m) : m \in {n \in Covered : Cardinality(NoWider(n)) >= k}})

\* Twice the median, so that the mean of the two middle gaps stays whole.
TwiceMedianGap ==
    LET n == Cardinality(Covered) IN GapRanked((n + 1) \div 2) + GapRanked(n \div 2 + 1)

Resolved(m) == outcomes[m].result # "open"
ObservedSpan == LET seen == UNION {snaps[m] : m \in Covered}
                IN Most(seen) - Least(seen)

\* audit: the refusals, all collected; without data NO_DATA stands alone.
Refusals ==
    IF Covered = {} THEN {"no_data"}
    ELSE {code \in {"too_few_markets", "window_too_short", "too_few_settled",
                    "survivorship", "single_series", "gaps_too_large"} :
            \/ code = "too_few_markets" /\ Cardinality(Covered) < MinMarkets
            \/ code = "window_too_short" /\ ObservedSpan < MinSpan
            \/ code = "too_few_settled"
               /\ Cardinality({m \in Covered : Resolved(m)}) < MinSettled
            \/ code = "survivorship" /\ \A m \in Covered : Resolved(m)
            \/ code = "single_series"
               /\ Cardinality({SeriesOf[m] : m \in Covered}) < MinSeries
            \/ code = "gaps_too_large" /\ TwiceMedianGap > 2 * Tolerated}

\* load_observations: all of the window in order of time and ticker, cut at
\* MaxSnapshots without a word.
Snapshot == [at : Window, market : Markets]
Observations == {o \in Snapshot : o.at \in snaps[o.market]}
Sooner(o, p) ==
    o.at < p.at \/ (o.at = p.at /\ TickerOf[o.market] < TickerOf[p.market])
Loaded ==
    {R \in SUBSET Observations :
        /\ Cardinality(R) = Least({Cardinality(Observations), MaxSnapshots})
        /\ \A o \in R, p \in Observations \ R : Sooner(o, p)}

-------------------------------------------------------------------------------
(* The arithmetic of the replay *)

Adds(pos, delta) == pos.net = 0 \/ (pos.net > 0) = (delta > 0)
Held(pos, delta) == AbsVal(pos.net) + AbsVal(delta)
Paid(pos, delta, price) == pos.avg * AbsVal(pos.net) + price * AbsVal(delta)

\* _realized_from_fill: the position and the cents realized by one fill.
FromFill_Averaged(pos, delta, price) ==
    LET net == pos.net + delta
        adds == Adds(pos, delta)
        closed == Least({AbsVal(delta), AbsVal(pos.net)})
    IN [net |-> net,
        avg |-> IF net = 0 THEN 0
                ELSE IF adds THEN Paid(pos, delta, price) \div Held(pos, delta)
                ELSE pos.avg,
        closed |-> IF adds THEN 0 ELSE closed,
        won |-> IF adds THEN 0
                ELSE (price - pos.avg) * closed * (IF pos.net > 0 THEN 1 ELSE -1)]
FromFill(pos, delta, price) ==
    LET net == pos.net + delta
        adds == Adds(pos, delta)
        closed == Least({AbsVal(delta), AbsVal(pos.net)})
    IN [net |-> net,
        avg |-> IF net = 0 THEN 0
                ELSE IF adds THEN Paid(pos, delta, price) \div Held(pos, delta)
                ELSE IF (net > 0) = (pos.net > 0) THEN pos.avg ELSE price,
        closed |-> IF adds THEN 0 ELSE closed,
        won |-> IF adds THEN 0
                ELSE (price - pos.avg) * closed * (IF pos.net > 0 THEN 1 ELSE -1)]

\* The fills whose average this arithmetic does not round.
WholeAverage(pos, delta, price) ==
    Adds(pos, delta) => Paid(pos, delta, price) % Held(pos, delta) = 0

Payout(m) == IF outcomes[m].result = "yes" THEN Whole ELSE 0
\* _realized_from_settlement, without an exit fee.
FromSettlement(m) == (Payout(m) - ledger[m].avg) * ledger[m].net

\* The markets whose settlement replay time has reached.
Due_After(now) == {m \in Markets : Resolved(m) /\ outcomes[m].at < now}
Due(now) == {m \in Markets : Resolved(m) /\ outcomes[m].at <= now}

-------------------------------------------------------------------------------
(* The run *)

Outcome == [result : {"open"}, at : {0}]
           \cup [result : {"yes", "no"}, at : CloseTimes]

BacktestInit ==
    /\ stage = "audit" /\ ignoring \in BOOLEAN
    /\ snaps \in [Markets -> SUBSET Window]
    /\ outcomes \in [Markets -> Outcome]
    /\ rest = {} /\ obs = [at |-> 0, market |-> CHOOSE m \in Markets : TRUE]
    /\ ledger = [m \in Markets |-> Flat]
    /\ realized = 0 /\ fees = 0 /\ trades = {}
    /\ filled = [count |-> 0, last |-> [m \in Markets |-> -1]]
    /\ verdict = "none" /\ cash = 0

\* run_backtest up to the replay: refused data is replayed only on demand.
Audit ==
    /\ stage = "audit"
    /\ IF Refusals # {} /\ ~ignoring
       THEN stage' = "refused" /\ rest' = rest
       ELSE stage' = "next" /\ rest' \in Loaded
    /\ UNCHANGED <<ignoring, snaps, outcomes, obs, ledger, realized, fees, trades,
                   filled, verdict, cash>>

\* The next observation: every due market leaves the ledger at its payout, before
\* the strategy is asked; flat ones leave no trade.
Observe ==
    /\ stage = "next"
    /\ \E o \in rest : /\ \A p \in rest : ~Sooner(p, o)
                      /\ obs' = o /\ rest' = rest \ {o}
    /\ LET held == {m \in Due(obs'.at) : ledger[m].net # 0}
       IN /\ realized' = realized + TotalOver([m \in Markets |-> FromSettlement(m)], held)
          /\ cash' = cash + TotalOver([m \in Markets |-> Payout(m) * ledger[m].net], held)
          /\ trades' = trades \cup {[of |-> <<"market", m>>, pnl |-> FromSettlement(m)] : m \in held}
          /\ ledger' = [m \in Markets |-> IF m \in held THEN Flat ELSE ledger[m]]
    /\ stage' = "act"
    /\ UNCHANGED <<ignoring, snaps, outcomes, fees, filled, verdict>>

\* One checked fill of an intent on the observed market. (Every fill of an
\* intent is checked before the first is applied; nothing else runs between.)
Apply(delta, price) ==
    /\ stage = "act" /\ filled.count < MaxFills
    /\ obs.market \notin Due(obs.at)
    /\ AbsVal(ledger[obs.market].net + delta) <= MaxNet
    /\ WholeAverage(ledger[obs.market], delta, price)
    /\ LET after == FromFill(ledger[obs.market], delta, price) IN
        /\ ledger' = [ledger EXCEPT ![obs.market] = [net |-> after.net, avg |-> after.avg]]
        /\ realized' = realized + after.won
        /\ trades' = IF after.closed = 0 THEN trades
                     ELSE trades \cup {[of |-> <<"fill", filled.count>>, pnl |-> after.won]}
    /\ fees' = fees + FeeEach * AbsVal(delta)
    /\ filled' = [count |-> filled.count + 1,
                  last |-> [filled.last EXCEPT ![obs.market] = obs.at]]
    /\ cash' = cash - price * delta
    /\ UNCHANGED <<stage, ignoring, snaps, outcomes, rest, obs, verdict>>

\* LookAheadError, FillMismatch and the other refusals: no result at all. An
\* intent on a market already settled is among them.
Raise ==
    /\ stage = "act" /\ stage' = "raised"
    /\ UNCHANGED <<ignoring, snaps, outcomes, rest, obs, ledger, realized, fees,
                   trades, filled, verdict, cash>>

\* The strategy is done with this instant: its equity point is recorded.
Point ==
    /\ stage = "act" /\ stage' = "next"
    /\ UNCHANGED <<ignoring, snaps, outcomes, rest, obs, ledger, realized, fees,
                   trades, filled, verdict, cash>>

Pnl == [t \in trades |-> t.pnl]

\* verdict, over the interval of expectancy.
VerdictOf(n, low, high) ==
    IF n < MinTrades \/ n < 2 THEN "insufficient_evidence"
    ELSE IF low > 0 THEN "edge_shown"
    ELSE IF high < 0 THEN "losing" ELSE "no_edge_shown"

\* The replay is over and its trades are scored. The bootstrap interval is any
\* one around the mean that stays within the sample.
Score ==
    /\ stage = "next" /\ rest = {}
    /\ LET n == Cardinality(trades) IN
        IF n = 0 THEN verdict' = VerdictOf(0, 0, 0)
        ELSE \E low, high \in {t.pnl : t \in trades} :
                /\ low * n <= TotalOver(Pnl, trades) /\ TotalOver(Pnl, trades) <= high * n
                /\ verdict' = VerdictOf(n, low, high)
    /\ stage' = "scored"
    /\ UNCHANGED <<ignoring, snaps, outcomes, rest, obs, ledger, realized, fees,
                   trades, filled, cash>>

BacktestNext ==
    \/ Audit \/ Observe \/ Raise \/ Point \/ Score
    \/ \E delta \in Deltas, price \in Quotes : Apply(delta, price)

BacktestSpec == BacktestInit /\ [][BacktestNext]_btVars

-------------------------------------------------------------------------------
(* Properties *)

\* What the replay books is what the money did: the cents that changed hands
\* plus the cost of what is still open, at every instant and across flips and
\* settlements; and the trades that are scored add up to the P&L of the curve.
CashExplainsEquity ==
    /\ realized = cash + TotalOver([m \in Markets |-> ledger[m].net * ledger[m].avg], Markets)
    /\ realized = TotalOver(Pnl, trades)

\* Nothing is traded at or after the instant its outcome was known, and nothing
\* is still held then once the strategy is asked.
SettledIsFinal ==
    /\ \A m \in Markets : Resolved(m) => filled.last[m] < outcomes[m].at
    /\ stage = "act" => \A m \in Markets :
        Resolved(m) /\ outcomes[m].at <= obs.at => ledger[m].net = 0

\* Data that was accepted is dense where it counts: at least half of its markets
\* were seen more than once, with no two neighbouring snapshots further apart
\* than tolerated; and it holds both outcomes and open markets.
AcceptedDataIsDense ==
    stage \in {"next", "act", "scored"} /\ ~ignoring =>
        LET dense == {m \in Covered : Cardinality(snaps[m]) > 1 /\ \A t \in snaps[m] :
                        \/ \A u \in snaps[m] : u <= t
                        \/ \E u \in snaps[m] : t < u /\ u <= t + Tolerated}
        IN /\ 2 * Cardinality(dense) >= Cardinality(Covered)
           /\ \E m, n \in Covered : Resolved(m) /\ ~Resolved(n)

\* stats.py:132 says every P&L it scores "already accounts for a centicent-
\* rounded fee": with nothing left open, an edge is shown only of a run that
\* ended above where it began. run_backtest scores the gross trades.
EdgeIsNetOfFees ==
    verdict = "edge_shown" /\ (\A m \in Markets : ledger[m].net = 0)
        => realized - fees > 0

===============================================================================
