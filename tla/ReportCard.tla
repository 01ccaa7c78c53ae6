------------------------------ MODULE ReportCard -------------------------------
(***************************************************************************)
(* The attribution of backend/app/backtest/report.py: which detector every *)
(* cent of a history belongs to, and into how many observations it falls.  *)
(*                                                                         *)
(* attribute_events is a function of the rows it reads; a history grows by *)
(* a fill or a settlement at a time and the operators below are what the   *)
(* report of that moment would say. P&L and fees are small integers.       *)
(***************************************************************************)
EXTENDS Sums, Integers, Sequences, FiniteSets, Functions

CONSTANTS
    Decisions,      \* proposals of the report's window
    Manual,         \* stands for a fill no known proposal caused
    SourceOf,       \* the detector of each decision
    RouteOf,        \* the route of each decision's orders
    Exchanges,      \* the routes
    Contracts,      \* the markets
    Amounts,        \* realized P&L a row may carry
    RowFee,         \* fee of a fill
    MaxRows         \* bound: rows of a history

ASSUME ReportAssumption ==
    /\ Manual \notin Decisions /\ RouteOf \in [Decisions -> Exchanges]
    /\ IsFiniteSet(Decisions) /\ IsFiniteSet(Contracts) /\ IsFiniteSet(Exchanges)
    /\ Amounts \subseteq Int /\ RowFee \in Nat

VARIABLES
    fillRows,       \* fills in order of time
    settledRows     \* settlements; at most one per market and route

rcVars == <<fillRows, settledRows>>

Detectors == {SourceOf[p] : p \in Decisions}
Keyed == Contracts \X Exchanges

ReportInit == fillRows = <<>> /\ settledRows = {}

\* A fill of a decision's order, or of a manual ticket on any route.
Traded(by, ticker, route, realized) ==
    /\ Len(fillRows) + Cardinality(settledRows) < MaxRows
    /\ by \in Decisions => route = RouteOf[by]
    /\ fillRows' = Append(fillRows,
           [by |-> by, ticker |-> ticker, route |-> route, realized |-> realized, fee |-> RowFee])
    /\ UNCHANGED settledRows

\* A position held to resolution: settled once, after its fills.
SettledAt(ticker, route, realized) ==
    /\ Len(fillRows) + Cardinality(settledRows) < MaxRows
    /\ \E i \in DOMAIN fillRows : fillRows[i].ticker = ticker /\ fillRows[i].route = route
    /\ \A s \in settledRows : <<s.ticker, s.route>> # <<ticker, route>>
    /\ settledRows' = settledRows \cup {[ticker |-> ticker, route |-> route, realized |-> realized]}
    /\ UNCHANGED fillRows

ReportNext ==
    \E ticker \in Contracts, route \in Exchanges, realized \in Amounts :
        \/ \E by \in Decisions \cup {Manual} : Traded(by, ticker, route, realized)
        \/ SettledAt(ticker, route, realized)

ReportSpec == ReportInit /\ [][ReportNext]_rcVars

-------------------------------------------------------------------------------
(* attribute_events *)

FillsOn_AnyRoute(ticker, route) == {i \in DOMAIN fillRows : fillRows[i].ticker = ticker}
FillsOn(ticker, route) ==
    {i \in DOMAIN fillRows : fillRows[i].ticker = ticker /\ fillRows[i].route = route}

\* touched: the detectors that traded a market on a route.
Touched(ticker, route) ==
    {SourceOf[fillRows[i].by] : i \in {j \in FillsOn(ticker, route) : fillRows[j].by # Manual}}

\* sole_proposal: set by the first fill and cleared by the first of another
\* decision, a manual one included, for good.
Sole(ticker, route) ==
    LET by == {fillRows[i].by : i \in FillsOn(ticker, route)}
    IN IF Cardinality(by) = 1 THEN CHOOSE p \in by : TRUE ELSE Manual

\* The observation a row is merged into: its decision's, or, when nobody can say
\* whose the position was, one of its own.
KeyOf(s) ==
    IF Sole(s.ticker, s.route) # Manual THEN <<"proposal", Sole(s.ticker, s.route)>>
    ELSE <<"settlement", s.ticker, s.route>>

Attributed == {s \in settledRows : Cardinality(Touched(s.ticker, s.route)) = 1}

Traders == {fillRows[i].by : i \in DOMAIN fillRows} \ {Manual}
EventKeys == {<<"proposal", p>> : p \in Traders} \cup {KeyOf(s) : s \in Attributed}

\* An event is its key, its owner (the first row to create it: fills go first)
\* and the sum of its rows, net of fees.
FillRowsOf(key) == {i \in DOMAIN fillRows : <<"proposal", fillRows[i].by>> = key}
SettledRowsOf(key) == {s \in Attributed : KeyOf(s) = key}
OwnerOf(key) ==
    IF key[1] = "proposal" THEN <<SourceOf[key[2]], RouteOf[key[2]]>>
    ELSE LET s == CHOOSE r \in SettledRowsOf(key) : TRUE
         IN <<CHOOSE d \in Touched(s.ticker, s.route) : TRUE, s.route>>
FillNet == [i \in DOMAIN fillRows |-> fillRows[i].realized - fillRows[i].fee]
SettledNet == [s \in settledRows |-> s.realized]
NetOf(key) == TotalOver(FillNet, FillRowsOf(key)) + TotalOver(SettledNet, SettledRowsOf(key))

Events(detector, route) == {key \in EventKeys : OwnerOf(key) = <<detector, route>>}

-------------------------------------------------------------------------------
(* Properties *)

\* Routes are never merged and no cent is counted twice or dropped: the events
\* of a detector on a route sum to the net of its own fills there and of the
\* settlements there that it alone touched.
EventsAreTheirRows ==
    \A detector \in Detectors, route \in Exchanges :
        TotalOver([key \in EventKeys |-> NetOf(key)], Events(detector, route)) =
            TotalOver(FillNet, {i \in DOMAIN fillRows :
                /\ fillRows[i].by # Manual /\ SourceOf[fillRows[i].by] = detector
                /\ fillRows[i].route = route})
            + TotalOver(SettledNet, {s \in settledRows :
                /\ s.route = route
                /\ {detector} = {SourceOf[f.by] : f \in
                        {g \in Range(fillRows) : /\ g.ticker = s.ticker /\ g.route = route
                                                /\ g.by # Manual}}})

\* report.py:36 says "One approval, one observation, however many legs it had":
\* a detector has at most as many observations as decisions that traded. A
\* market two of its decisions traded settles as an observation of its own.
ObservationsAreDecisions ==
    \A detector \in Detectors :
        Cardinality(UNION {Events(detector, route) : route \in Exchanges})
            <= Cardinality({p \in Traders : SourceOf[p] = detector})

===============================================================================
