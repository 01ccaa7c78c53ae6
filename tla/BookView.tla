------------------------------- MODULE BookView -------------------------------
(***************************************************************************)
(* What the ingest service promises about the order books it answers from, *)
(* with connections, numbering, gaps and healing left out.  A book's       *)
(* content is the number of changes it reflects.  A local book falls       *)
(* silent at any time; it speaks again only from a snapshot, follows the   *)
(* exchange one change at a time, is never ahead of it and never goes back *)
(* - but for a snapshot sent again, which takes it back, and it is astray  *)
(* until the next new one.                                                 *)
(*                                                                         *)
(* BookFeed is shown to implement this module.                             *)
(***************************************************************************)
EXTENDS Integers

CONSTANT Tickers

VARIABLES
    real,           \* the exchange's books
    shown,          \* the local books, as they last answered
    answering,      \* the markets whose local book answers
    astray          \* those whose local book was taken back

vars == <<real, shown, answering, astray>>

Init ==
    /\ real = [t \in Tickers |-> 0]
    /\ shown = [t \in Tickers |-> 0]
    /\ answering = {} /\ astray = {}

Change(t) ==
    /\ real' = [real EXCEPT ![t] = @ + 1]
    /\ UNCHANGED <<shown, answering, astray>>

Hush ==
    /\ answering' \subseteq answering
    /\ UNCHANGED <<real, shown, astray>>

\* One change is taken in, and the exchange has it already.
Advance(t) ==
    /\ t \in answering /\ shown[t] < real[t]
    /\ shown' = [shown EXCEPT ![t] = @ + 1]
    /\ UNCHANGED <<real, answering, astray>>

\* A snapshot makes its book answer, and no other.
Speaks(t) == t \in answering' /\ answering' \subseteq answering \cup {t}

Refresh(t) ==
    /\ Speaks(t)
    /\ \E v \in shown[t] .. real[t] : shown' = [shown EXCEPT ![t] = v]
    /\ astray' = astray \ {t}
    /\ UNCHANGED real

TakeBack(t) ==
    /\ Speaks(t)
    /\ \E v \in 0 .. real[t] : shown' = [shown EXCEPT ![t] = v]
    /\ astray' = astray \cup {t}
    /\ UNCHANGED real

Next ==
    \/ Hush
    \/ \E t \in Tickers : Change(t) \/ Advance(t) \/ Refresh(t) \/ TakeBack(t)

Spec == Init /\ [][Next]_vars

===============================================================================
