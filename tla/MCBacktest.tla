------------------------------ MODULE MCBacktest -------------------------------
(* Two markets of two series; prices two cents apart, so that the averages of *)
(* up to three contracts are whole.                                           *)
EXTENDS Backtest, TLC

CONSTANTS m1, m2, s1, s2

MCDeltas == {-2, 1}
MCSeriesOf == (m1 :> s1) @@ (m2 :> s2)
MCTickerOf == (m1 :> 1) @@ (m2 :> 2)
===============================================================================
