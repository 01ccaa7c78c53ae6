---------------------------- MODULE MCTradingDesk ----------------------------
(***************************************************************************)
(* TradingDesk with two single-leg proposals of one detector on one        *)
(* market, a hand-written one on the other market, and a two-leg one that  *)
(* is named for the other market and reaches the first with its second leg.*)
(* The halts have state of their own: a behaviour is one of the queue or   *)
(* one of the closes that halt it.                                         *)
(***************************************************************************)
EXTENDS TradingDesk, LossHalt

CONSTANTS a1, a2, a3, e1, mA, mB, ev, set, quote

MCTickersOf == [p \in Proposals |->
    IF p = e1 THEN {mA, mB} ELSE IF p = a3 THEN {mB} ELSE {mA}]
MCNamedOf == [p \in Proposals |-> IF p \in {e1, a3} THEN mB ELSE mA]
MCEventOf == [p \in Proposals |-> IF p = e1 THEN ev ELSE None]
MCSourceOf == [p \in Proposals |-> IF p = e1 THEN set ELSE IF p = a3 THEN Manual ELSE quote]
MCLoss == [p \in Proposals |-> IF p \in {a2, a3} THEN 2 ELSE 1]
MCLegCost == [p \in Proposals |->
    [m \in Markets |-> IF m \in MCTickersOf[p] THEN MCLoss[p] ELSE 0]]

MCPnl == {-2, 0, 1}

VARIABLE aspect

RiskVars == <<aspect, vars, haltVars>>

RiskInit == aspect \in {"queue", "halts"} /\ Init /\ HaltInit

RiskNext ==
    /\ UNCHANGED aspect
    /\ \/ aspect = "queue" /\ Next /\ UNCHANGED haltVars
       \/ aspect = "halts" /\ HaltNext /\ UNCHANGED vars

RiskSpec ==
    /\ RiskInit /\ [][RiskNext]_RiskVars
    /\ aspect = "queue" => Fairness

===============================================================================
