--------------------------------- MODULE Sums ----------------------------------
(***************************************************************************)
(* The sums that the queries and the loops of trading/ take over rows: of  *)
(* what f says of each member of a finite set.                             *)
(***************************************************************************)
EXTENDS Integers, Functions

TotalOver(f, S) == FoldFunctionOnSet(LAMBDA a, b : a + b, 0, f, S)

===============================================================================
