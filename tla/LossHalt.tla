-------------------------------- MODULE LossHalt --------------------------------
(***************************************************************************)
(* The halts of backend/app/trading/risk.py on one route: the limit on a   *)
(* day's loss and the cooldown after consecutive losing closes, computed   *)
(* by snapshot and asked by check_halted before every approval and every   *)
(* creation.                                                               *)
(*                                                                         *)
(* A close carries the time its transaction BEGAN (fills.ts and            *)
(* settlements.created_at default to now() in the database): it becomes    *)
(* visible later than that, and the closes of one transaction have the     *)
(* same time, in which no query orders them.                               *)
(***************************************************************************)
EXTENDS RiskLimits, SequencesExt, Sums

CONSTANTS
    Pnl,            \* realised P&L of a close; a settlement may break even
    CloseFee,       \* fee of a close
    After,          \* risk.cooldown_after_consecutive_losses
    Cooldown,       \* risk.cooldown_minutes
    LossLimit,      \* risk.daily_loss_limit_pct of the bankroll
    StreakWindow,   \* STREAK_WINDOW
    Lateness,       \* bound: how long a transaction runs
    HoursOfDay,     \* length of a day
    LastHour,       \* bound: end of time
    MaxCloses,      \* bound: closes
    MaxScratches    \* bound: break-even ones

ASSUME HaltAssumption ==
    /\ Pnl \subseteq Int
    /\ {After, HoursOfDay} \subseteq Nat \ {0}
    /\ {CloseFee, Cooldown, LossLimit, Lateness, LastHour, MaxCloses, MaxScratches} \subseteq Nat
    \* The window holds a whole streak and what may lie between.
    /\ StreakWindow >= After + MaxScratches

VARIABLES
    hour,       \* the clock
    closes,     \* fills that realised P&L and settlements, as committed
    dayRows     \* pnl_daily of the route: P&L and fees of each day

haltVars == <<hour, closes, dayRows>>

DayAt(t) == t \div HoursOfDay
CloseDays == 0 .. DayAt(LastHour)

HaltInit ==
    /\ hour = 0
    /\ closes = <<>>
    /\ dayRows = [d \in CloseDays |-> [realized |-> 0, fees |-> 0]]

HourPasses ==
    /\ hour < LastHour
    /\ hour' = hour + 1
    /\ UNCHANGED <<closes, dayRows>>

Scratches == {i \in DOMAIN closes : closes[i].pnl = 0}

\* The commit of a close whose transaction began at the hour began, booked on day.
Booked(kind, pnl, began, day) ==
    /\ Len(closes) < MaxCloses
    /\ began <= hour /\ hour <= began + Lateness
    /\ pnl = 0 => Cardinality(Scratches) < MaxScratches
    /\ closes' = Append(closes, [kind |-> kind, pnl |-> pnl, at |-> began, day |-> day])
    /\ dayRows' = [dayRows EXCEPT ![day] = [realized |-> @.realized + pnl,
                                            fees |-> @.fees + CloseFee]]
    /\ UNCHANGED hour

\* apply_fill of a fill that reduced a position: its day is that of its ts.
FillCloses(pnl, began) == Booked("fill", pnl, began, DayAt(began))

\* apply_settlement: its day is that of the exchange's settled_at, or today.
SettlementCloses(pnl, began, day) ==
    day <= DayAt(hour) /\ Booked("settlement", pnl, began, day)

HaltNext ==
    \/ HourPasses
    \/ \E pnl \in Pnl, began \in 0 .. hour : FillCloses(pnl, began)
    \/ \E pnl \in Pnl, began \in 0 .. hour, day \in CloseDays :
           SettlementCloses(pnl, began, day)

HaltSpec == HaltInit /\ [][HaltNext]_haltVars

-------------------------------------------------------------------------------
(* What an approval finds *)

\* The two queries: a fill counts if it realised anything, a settlement always.
Closing(kind) ==
    {i \in DOMAIN closes : closes[i].kind = kind /\ (kind = "fill" => closes[i].pnl # 0)}

\* ORDER BY time DESC LIMIT STREAK_WINDOW: which of equal times it drops is open.
Kept(found) ==
    {K \in SUBSET found :
        /\ Cardinality(K) = IF Cardinality(found) < StreakWindow THEN Cardinality(found)
                            ELSE StreakWindow
        /\ \A i \in K, j \in found \ K : closes[i].at >= closes[j].at}

\* events.sort, stable and newest first: fills precede settlements of their time,
\* and equal ones stay as the query had them.
Sorted(q) ==
    \A a, b \in DOMAIN q : a < b =>
        LET newer == closes[q[a]]  older == closes[q[b]]
        IN  \/ newer.at > older.at
            \/ newer.at = older.at /\ ~(newer.kind = "settlement" /\ older.kind = "fill")

\* _recent_losses: every sequence of closes that a snapshot may find now.
Readings ==
    LET Merged(F, S) == {q \in SetToSeqs(F \cup S) : Sorted(q)}
    IN  {[i \in DOMAIN q |-> closes[q[i]]] : q \in
            UNION {Merged(F, S) : F \in Kept(Closing("fill")), S \in Kept(Closing("settlement"))}}

\* check_halted.
Today == dayRows[DayAt(hour)]
Halts(reading) ==
    \/ DailyLossBreached(Today.realized, Today.fees, LossLimit)
    \/ hour < CooldownUntil(reading, After, Cooldown, 0)
Halted == \A reading \in Readings : Halts(reading)

-------------------------------------------------------------------------------
(* Properties *)

\* Losses stop the desk, whatever order a snapshot finds the closes of one
\* transaction in, however late they were committed and whatever broke even among
\* them: with After losses since the last win the newest of which is younger than
\* the cooldown, or with the day's limit lost after fees, no approval passes.
LossesHalt ==
    LET Wins == {i \in DOMAIN closes : closes[i].pnl > 0}
        Streak == {i \in DOMAIN closes : closes[i].pnl < 0 /\
                       \A w \in Wins : closes[w].at < closes[i].at}
        OfToday == {i \in DOMAIN closes : closes[i].day = DayAt(hour)}
        net == TotalOver([i \in DOMAIN closes |-> closes[i].pnl - CloseFee], OfToday)
    IN  /\ Cardinality(Streak) >= After /\ (\E i \in Streak : hour < closes[i].at + Cooldown)
              => Halted
        /\ LossLimit > 0 /\ net <= -LossLimit => Halted

\* risk.py:367 says the second result is "when its most recent loss happened". It
\* is when the newest close happened, and a break-even settlement is one.
AnchoredAtLoss ==
    \A reading \in Readings :
        ConsecutiveLosses([i \in DOMAIN reading |-> reading[i].pnl]) > 0 => reading[1].pnl < 0

===============================================================================
