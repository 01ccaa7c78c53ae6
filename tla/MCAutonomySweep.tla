---------------------------- MODULE MCAutonomySweep ----------------------------
(***************************************************************************)
(* AutonomySweep with two proposals of one detector on one market, a day   *)
(* boundary inside the horizon and windows of a few ticks.                 *)
(***************************************************************************)
EXTENDS AutonomySweep

CONSTANTS p1, p2, p3, d1, d2, m1, m2

MCDetectorOf == [p \in Proposals |-> IF p = p3 THEN d2 ELSE d1]
MCMarketOf == [p \in Proposals |-> IF p = p3 THEN m2 ELSE m1]
MCLoss == [p \in Proposals |-> IF p = p1 THEN 2 ELSE 1]

===============================================================================
