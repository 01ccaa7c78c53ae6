---------------------------- MODULE PositionLedger -----------------------------
(***************************************************************************)
(* The positions and the daily P&L of one route (positions.py,             *)
(* settlements.py), as the transactions that write them see them.  Fills   *)
(* are folded in by approvals in the API process and by the worker's order *)
(* sweep, settlements by the worker's settlement loop; each reads a row    *)
(* with a plain SELECT, computes, and writes the columns that changed with *)
(* an UPDATE (an INSERT if it saw no row).  PostgreSQL, at READ COMMITTED, *)
(* holds the written row until the writer commits.                         *)
(*                                                                         *)
(* positions, daily, booked and settlements are COMMITTED state; what a    *)
(* transaction has written is in txn.  A row it wrote is a row it has      *)
(* locked, so locks are derived.  One day, and fees, which accumulate like *)
(* the counts, are left out.                                               *)
(***************************************************************************)
EXTENDS PositionMath, FiniteSets, Sums

CONSTANTS
    Tickers,
    Fills,
    FillOf,     \* [Fills -> record of ticker, side, action, contracts, price]
    Payout,     \* [Tickers -> Price]: what a YES contract pays in the end
    Traders,    \* transactions that fold fills in: approvals, the order sweep
    Settler,    \* the settlement loop: there is one
    MaxAborts   \* bound: transactions lost to a crash or an error elsewhere

FillRecord == [ticker : Tickers, side : Side, action : Action,
               contracts : Nat \ {0}, price : Price]

ASSUME LedgerAssumption ==
    /\ IsFiniteSet(Tickers) /\ IsFiniteSet(Fills)
    /\ FillOf \in [Fills -> FillRecord]
    /\ Payout \in [Tickers -> Price]
    /\ Settler \notin Traders
    /\ MaxAborts \in Nat

VARIABLES
    positions,   \* committed positions rows
    daily,       \* the committed pnl_daily row
    booked,      \* committed Fill rows
    settlements, \* committed settlements rows
    resolved,    \* EXTERNAL: markets that have a result
    txn,         \* the open transactions
    aborts,      \* bounded by MaxAborts
    raced        \* history: rows written from a copy that was out of date

vars == <<positions, daily, booked, settlements, resolved, txn, aborts, raced>>

Sessions == Traders \cup {Settler}

Absent == [row |-> "absent"]
Position == [net : Int, avg : Price, realized : Int]
Flat == [net |-> 0, avg |-> 0, realized |-> 0]
Day == [realized : Int, trades : Nat, settlements : Nat]
NewDay == [realized |-> 0, trades |-> 0, settlements |-> 0]
Settlement == [net : Int, avg : Price]

DailyRow == "pnl_daily"    \* its name among the rows that can be raced

\* kind, ticker, and what a fill brings: the operation in progress.
Op == [kind : {"fill", "settlement"}, ticker : Tickers, delta : Int, price : Price]
NoOp == [kind |-> "none"]

Idle == [pc |-> "ready", op |-> NoOp, view |-> Absent, dayView |-> Absent,
         realized |-> 0, rows |-> [t \in Tickers |-> Absent], day |-> Absent,
         booked |-> {}, settlements |-> [t \in Tickers |-> Absent]]

Txn == [pc : {"ready", "position", "day"}, op : Op \cup {NoOp},
        view : Position \cup {Absent}, dayView : Day \cup {Absent}, realized : Int,
        rows : [Tickers -> Position \cup {Absent}], day : Day \cup {Absent},
        booked : SUBSET Fills, settlements : [Tickers -> Settlement \cup {Absent}]]

TypeOK ==
    /\ positions \in [Tickers -> Position \cup {Absent}]
    /\ daily \in Day \cup {Absent}
    /\ booked \subseteq Fills
    /\ settlements \in [Tickers -> Settlement \cup {Absent}]
    /\ resolved \subseteq Tickers
    /\ txn \in [Sessions -> Txn]
    /\ aborts \in Nat
    /\ raced \subseteq Tickers \cup {DailyRow}

-------------------------------------------------------------------------------
(* What a transaction sees and may write *)

Over(new, old) == IF new # Absent THEN new ELSE old

Visible(s, t) == Over(txn[s].rows[t], positions[t])
VisibleDay(s) == Over(txn[s].day, daily)

PositionLocked(s, t) == \E x \in Sessions \ {s} : txn[x].rows[t] # Absent
DayLocked(s) == \E x \in Sessions \ {s} : txn[x].day # Absent

\* The row after a flush: new computed from view, over what is there by now.  An
\* UPDATE names the columns that changed.
Written(view, new, now) ==
    IF view = Absent THEN new
    ELSE [c \in DOMAIN new |-> IF new[c] # view[c] THEN new[c] ELSE now[c]]

\* An INSERT meets a row committed since the SELECT.
Collides(view, now) == view = Absent /\ now # Absent

-------------------------------------------------------------------------------
Init ==
    /\ positions = [t \in Tickers |-> Absent]
    /\ daily = Absent
    /\ booked = {}
    /\ settlements = [t \in Tickers |-> Absent]
    /\ resolved = {}
    /\ txn = [s \in Sessions |-> Idle]
    /\ aborts = 0
    /\ raced = {}

\* EXTERNAL: a market resolves.
Resolve(t) ==
    /\ t \notin resolved
    /\ resolved' = resolved \cup {t}
    /\ UNCHANGED <<positions, daily, booked, settlements, txn, aborts, raced>>

\* apply_fill: the caller has flushed the Fill row, whose unique id nobody else
\* holds; the position is read.
ReadFill(s, f) ==
    LET o == FillOf[f]
    IN
    /\ txn[s].pc = "ready"
    /\ f \notin booked
    /\ \A x \in Sessions : f \notin txn[x].booked
    /\ txn' = [txn EXCEPT ![s] = [txn[s] EXCEPT
                  !.pc = "position",
                  !.op = [kind |-> "fill", ticker |-> o.ticker,
                          delta |-> SignedContracts(o.side, o.action, o.contracts),
                          price |-> ToYesPrice(o.side, o.price)],
                  !.view = Visible(s, o.ticker),
                  !.booked = txn[s].booked \cup {f}]]
    /\ UNCHANGED <<positions, daily, booked, settlements, resolved, aborts, raced>>

\* apply_settlement: nothing to do without an open position or with a settlement
\* on record; otherwise the Settlement row is added.
Unsettled(t) == settlements[t] = Absent /\ txn[Settler].settlements[t] = Absent
Open_Long(row) == row # Absent /\ row.net > 0
Open(row) == row # Absent /\ row.net # 0

ReadSettlement(t) ==
    LET row == Visible(Settler, t)
    IN
    /\ txn[Settler].pc = "ready"
    /\ t \in resolved
    /\ Unsettled(t)
    /\ Open(row)
    /\ txn' = [txn EXCEPT ![Settler] = [txn[Settler] EXCEPT
                  !.pc = "position",
                  !.op = [kind |-> "settlement", ticker |-> t,
                          delta |-> -row.net, price |-> Payout[t]],
                  !.view = row,
                  !.settlements = [txn[Settler].settlements EXCEPT
                                      ![t] = [net |-> row.net, avg |-> row.avg]]]]
    /\ UNCHANGED <<positions, daily, booked, settlements, resolved, aborts, raced>>

\* The position after the operation, computed from the copy that was read.
Folded(op, row) ==
    IF op.kind = "settlement"
    THEN [net |-> 0, avg |-> 0,
          realized |-> row.realized + Settled(row.net, row.avg, op.price)]
    ELSE [net |-> row.net + op.delta,
          avg |-> AvgAfter(row.net, row.avg, op.delta, op.price),
          realized |-> row.realized + Realized(row.net, row.avg, op.delta, op.price)]

\* The next query flushes the position; it is roll_daily's SELECT.
FoldPosition(s) ==
    LET t == txn[s].op.ticker
        view == txn[s].view
        now == Visible(s, t)
        new == Folded(txn[s].op, Over(view, Flat))
    IN
    /\ txn[s].pc = "position"
    /\ ~PositionLocked(s, t)
    /\ ~Collides(view, now)
    /\ txn' = [txn EXCEPT ![s] = [txn[s] EXCEPT
                  !.pc = "day",
                  !.rows = [txn[s].rows EXCEPT ![t] = Written(view, new, now)],
                  !.realized = new.realized - Over(view, Flat).realized,
                  !.dayView = VisibleDay(s),
                  !.view = Absent]]
    /\ raced' = IF view = now THEN raced ELSE raced \cup {t}
    /\ UNCHANGED <<positions, daily, booked, settlements, resolved, aborts>>

\* roll_daily: the day's P&L and the count of its kind.
Rolled_AllTrades(kind, realized, row) ==
    [realized |-> row.realized + realized, trades |-> row.trades + 1,
     settlements |-> row.settlements]
Rolled(kind, realized, row) ==
    [realized |-> row.realized + realized,
     trades |-> row.trades + IF kind = "fill" THEN 1 ELSE 0,
     settlements |-> row.settlements + IF kind = "settlement" THEN 1 ELSE 0]

\* The next query, or the commit, flushes the day.
FoldDay(s) ==
    LET view == txn[s].dayView
        now == VisibleDay(s)
        new == Rolled(txn[s].op.kind, txn[s].realized, Over(view, NewDay))
    IN
    /\ txn[s].pc = "day"
    /\ ~DayLocked(s)
    /\ ~Collides(view, now)
    /\ txn' = [txn EXCEPT ![s] = [txn[s] EXCEPT
                  !.pc = "ready",
                  !.day = Written(view, new, now),
                  !.op = NoOp, !.realized = 0, !.dayView = Absent]]
    /\ raced' = IF view = now THEN raced ELSE raced \cup {DailyRow}
    /\ UNCHANGED <<positions, daily, booked, settlements, resolved, aborts>>

Commit(s) ==
    /\ txn[s].pc = "ready"
    /\ txn[s] # Idle
    /\ positions' = [t \in Tickers |-> Visible(s, t)]
    /\ daily' = VisibleDay(s)
    /\ booked' = booked \cup txn[s].booked
    /\ settlements' = [t \in Tickers |-> Over(txn[s].settlements[t], settlements[t])]
    /\ txn' = [txn EXCEPT ![s] = Idle]
    /\ UNCHANGED <<resolved, aborts, raced>>

RollBack(s) ==
    /\ txn' = [txn EXCEPT ![s] = Idle]
    /\ UNCHANGED <<positions, daily, booked, settlements, resolved, raced>>

\* A unique constraint (uq_position, uq_pnl_day) refuses the INSERT: the error
\* leaves the session, and its transaction with it.
Conflict(s) ==
    /\ \/ /\ txn[s].pc = "position"
          /\ ~PositionLocked(s, txn[s].op.ticker)
          /\ Collides(txn[s].view, Visible(s, txn[s].op.ticker))
       \/ txn[s].pc = "day" /\ ~DayLocked(s) /\ Collides(txn[s].dayView, VisibleDay(s))
    /\ RollBack(s)
    /\ UNCHANGED aborts

\* Whom s waits for: the transaction that holds the row s wants to write.
WaitsFor(s, x) ==
    /\ x # s
    /\ \/ txn[s].pc = "position" /\ txn[x].rows[txn[s].op.ticker] # Absent
       \/ txn[s].pc = "day" /\ txn[x].day # Absent

\* Sets of transactions that wait for one another in a ring.
Ring(D) ==
    /\ D # {}
    /\ \A s \in D : \E x \in D : WaitsFor(s, x)
    /\ \A x \in D : \E s \in D : WaitsFor(s, x)

\* PostgreSQL breaks a ring at one of its members.
Victim(s) ==
    /\ \E D \in SUBSET Sessions : s \in D /\ Ring(D)
    /\ RollBack(s)
    /\ UNCHANGED aborts

\* The process dies, or another error ends the transaction.
Abort(s) ==
    /\ txn[s] # Idle
    /\ aborts < MaxAborts
    /\ aborts' = aborts + 1
    /\ RollBack(s)

Next ==
    \/ \E t \in Tickers : Resolve(t) \/ ReadSettlement(t)
    \/ \E s \in Traders, f \in Fills : ReadFill(s, f)
    \/ \E s \in Sessions :
          FoldPosition(s) \/ FoldDay(s) \/ Commit(s) \/ Conflict(s) \/ Victim(s) \/ Abort(s)

Spec == Init /\ [][Next]_vars

\* A transaction that may go on does: lock queues are first come first served,
\* and the handlers behind them are bounded by timeouts.  PostgreSQL breaks every
\* ring, at whichever member it likes.  The settlement loop comes round every few
\* minutes.
Fairness ==
    /\ \A s \in Sessions :
          /\ SF_vars(FoldPosition(s)) /\ SF_vars(FoldDay(s))
          /\ WF_vars(Commit(s)) /\ WF_vars(Conflict(s))
    /\ WF_vars(\E s \in Sessions : Victim(s))
    /\ \A t \in Tickers : WF_vars(ReadSettlement(t))

FairSpec == Spec /\ Fairness

-------------------------------------------------------------------------------
(* What must hold *)

DeltaOf(f) == SignedContracts(FillOf[f].side, FillOf[f].action, FillOf[f].contracts)
PaidFor(f) == DeltaOf(f) * ToYesPrice(FillOf[f].side, FillOf[f].price)

Deltas == [f \in Fills |-> DeltaOf(f)]
Payments == [f \in Fills |-> PaidFor(f)]
Volumes == [f \in Fills |-> FillOf[f].contracts]
On(t) == {f \in booked : FillOf[f].ticker = t}
ClosedAt(t) == Over(settlements[t], [net |-> 0, avg |-> 0]).net

\* The contracts held are those bought less those settled.
NetIsFills(t) ==
    Over(positions[t], Flat).net = TotalOver(Deltas, On(t)) - ClosedAt(t)

\* What was realized, less what the open contracts cost, is the cash that came in
\* less the cash that went out - up to the rounding of stored averages, of which
\* each is off by half a unit per contract at most.
CashBalances(t) ==
    LET row == Over(positions[t], Flat)
        cash == ClosedAt(t) * Payout[t] - TotalOver(Payments, On(t))
        volume == TotalOver(Volumes, On(t))
    IN  2 * Abs(row.realized - row.net * row.avg - cash) <= volume * Cardinality(On(t))

Exact(t) == NetIsFills(t) /\ CashBalances(t)

\* Rolled back transactions, insert conflicts, deadlock victims, fills that arrive
\* after the settlement, rows of several markets written in one transaction: none
\* of it makes a position differ from its fills.  Only a row written from a copy
\* that another commit has outdated does (apply_fill reads without a lock).
ExactUnlessRaced == \A t \in Tickers \ raced : Exact(t)

\* The day's totals are those of the positions, unless the day itself or one of
\* the positions was written from an outdated copy.
DayIsSumUnlessRaced ==
    raced = {} =>
        LET row == Over(daily, NewDay)
            realized == [t \in Tickers |-> Over(positions[t], Flat).realized]
        IN  /\ row.realized = TotalOver(realized, Tickers)
            /\ row.trades = Cardinality(booked)
            /\ row.settlements = Cardinality({t \in Tickers : settlements[t] # Absent})

Holding(t) == Over(positions[t], Flat).net # 0

\* An open position in a market that has resolved is settled sooner or later, or
\* closed by a fill (the settlement loop; a market is settled once per book).
OpenPositionSettles ==
    \A t \in Tickers :
        (t \in resolved /\ settlements[t] = Absent /\ Holding(t))
            ~> (settlements[t] # Absent \/ ~Holding(t))

(* What comments of the code say of it, and it does not do *)

\* apply_fill: fold the fill into the position for the route.
EveryFillFolded == \A t \in Tickers : NetIsFills(t)

===============================================================================
