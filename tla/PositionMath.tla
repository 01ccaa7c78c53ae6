----------------------------- MODULE PositionMath ------------------------------
(***************************************************************************)
(* The arithmetic of backend/app/trading/positions.py, direction.py and    *)
(* settlements.py: one signed position per market, in YES contracts.       *)
(*                                                                         *)
(* Prices are integers in units of the database's price column (a millionth*)
(* of a dollar), contracts in units of its quantity column, P&L in their   *)
(* product, which is the unit of its cents column: everything but an       *)
(* average is exact, and an average is rounded when it is stored.          *)
(***************************************************************************)
EXTENDS Integers

CONSTANT One        \* a dollar, in price units: what a YES contract pays at most

ASSUME OneAssumption == One \in Nat \ {0}

Price == 0 .. One
Side == {"yes", "no"}
Action == {"buy", "sell"}

Abs(n) == IF n < 0 THEN -n ELSE n

\* to_yes_price, which is its own inverse from_yes_price.
ToYesPrice(side, price) == IF side = "yes" THEN price ELSE One - price

\* signed_contracts: buying YES and selling NO add, the other two take away.
SignedContracts(side, action, contracts) ==
    IF (side = "yes") = (action = "buy") THEN contracts ELSE -contracts

\* A quotient as a NUMERIC column stores it: half away from zero (a >= 0, b > 0).
Stored(a, b) == (2 * a + b) \div (2 * b)

\* realized_from_fill: opening or adding moves the average and realizes nothing;
\* reducing realizes against an average that stays; crossing through zero
\* realizes the closed part and opens the rest at the price of the fill.
Adds(net, delta) == net = 0 \/ (net > 0) = (delta > 0)

WeightedAvg(net, avg, delta, price) ==
    Stored(avg * Abs(net) + price * Abs(delta), Abs(net) + Abs(delta))

Closed(net, delta) == IF Abs(delta) < Abs(net) THEN Abs(delta) ELSE Abs(net)
Direction(net) == IF net > 0 THEN 1 ELSE -1

Kept_Basis(net, avg, delta, price) == IF net + delta = 0 THEN 0 ELSE avg
Kept(net, avg, delta, price) ==
    IF net + delta = 0 THEN 0
    ELSE IF (net + delta > 0) = (net > 0) THEN avg ELSE price

AvgAfter(net, avg, delta, price) ==
    IF delta = 0 THEN avg
    ELSE IF Adds(net, delta) THEN WeightedAvg(net, avg, delta, price)
    ELSE Kept(net, avg, delta, price)

Realized(net, avg, delta, price) ==
    IF delta = 0 \/ Adds(net, delta) THEN 0
    ELSE (price - avg) * Closed(net, delta) * Direction(net)

\* realized_from_settlement: every contract bought back at what it paid.
Settled(net, avg, payout) == (payout - avg) * net

===============================================================================
