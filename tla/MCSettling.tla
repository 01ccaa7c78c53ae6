------------------------------ MODULE MCSettling -------------------------------
(* The two loops of the worker that wait for markets to resolve share no state: *)
(* a behaviour is one of one of them.                                           *)
EXTENDS MCPositionLedger, CalibrationLoop

CONSTANTS q1, q2, sw1, sw2

VARIABLE loop

SettlingVars == <<loop, vars, calVars>>

SettlingInit == loop \in {"settlements", "calibration"} /\ Init /\ CalibrationInit

SettlingNext ==
    /\ UNCHANGED loop
    /\ \/ loop = "settlements" /\ Next /\ UNCHANGED calVars
       \/ loop = "calibration" /\ CalibrationNext /\ UNCHANGED vars

SettlingSpec ==
    /\ SettlingInit /\ [][SettlingNext]_SettlingVars
    /\ loop = "settlements" => Fairness
    /\ loop = "calibration" => CalibrationFairness
===============================================================================
