---------------------------- MODULE MCApprovalRail ----------------------------
(***************************************************************************)
(* ApprovalRail on a small instance: a single-leg proposal and a two-leg   *)
(* one, so that both a lone order and a batch are placed.  A configuration *)
(* that leaves out c2b has two single-leg proposals.                       *)
(***************************************************************************)
EXTENDS ApprovalRail

CONSTANTS p1, p2, c1, c2a, c2b

MCProposalOf == [c \in Coids |-> IF c = c1 THEN p1 ELSE p2]

===============================================================================
