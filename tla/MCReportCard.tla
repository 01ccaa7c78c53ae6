----------------------------- MODULE MCReportCard ------------------------------
(* Two detectors: one with two decisions on the paper route, one on demo.     *)
EXTENDS ReportCard, TLC

CONSTANTS p1, p2, p3, arb, whale, sim, demo, k1, k2

MCSourceOf == (p1 :> arb) @@ (p2 :> arb) @@ (p3 :> whale)
MCRouteOf == (p1 :> sim) @@ (p2 :> sim) @@ (p3 :> demo)
===============================================================================
