--------------------------- MODULE MCPositionLedger ----------------------------
(* Two markets.  On the first a long position, a trade that crosses to short   *)
(* and one that adds to it at a price whose average must be rounded.           *)
EXTENDS PositionLedger, TLC

CONSTANTS f1, f2, f3, f4, t1, t2

AllFills ==
    f1 :> [ticker |-> t1, side |-> "yes", action |-> "buy", contracts |-> 2, price |-> 30] @@
    f2 :> [ticker |-> t1, side |-> "no", action |-> "buy", contracts |-> 3, price |-> 40] @@
    f3 :> [ticker |-> t1, side |-> "yes", action |-> "sell", contracts |-> 2, price |-> 50] @@
    f4 :> [ticker |-> t2, side |-> "no", action |-> "buy", contracts |-> 1, price |-> 70]

MCFillOf == [f \in Fills |-> AllFills[f]]

MCPayout == t1 :> 100 @@ t2 :> 0

===============================================================================
