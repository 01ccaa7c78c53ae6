--------------------------- MODULE ProposalDecision ---------------------------
(***************************************************************************)
(* What the approval rail promises about proposals, with the requests,     *)
(* transactions and wire calls that keep the promise left out: a proposal  *)
(* is decided once, a decision is final, and orders reach the exchange     *)
(* only together with an approval.  The one way back is a transaction lost *)
(* between placing and committing, and the orders it orphans are known.    *)
(*                                                                         *)
(* ApprovalRail is shown to implement this module.                         *)
(***************************************************************************)

CONSTANTS
    Proposals,      \* the proposals that may ever be created
    Coids,          \* client order ids, one per leg of a proposal
    ProposalOf      \* [Coids -> Proposals]

VARIABLES
    status,         \* [Proposals -> Status], the decision as a reader sees it
    placed,         \* the client order ids the exchange holds an order under
    lost            \* those of them that no committed approval stands for

vars == <<status, placed, lost>>

Outcome == {"executed", "partial", "failed"}
Status == {"absent", "pending", "approved", "rejected", "expired"} \cup Outcome

Legs(p) == {c \in Coids : ProposalOf[c] = p}

Init ==
    /\ status = [p \in Proposals |-> "absent"]
    /\ placed = {}
    /\ lost = {}

Create(p) ==
    /\ status[p] = "absent"
    /\ status' = [status EXCEPT ![p] = "pending"]
    /\ UNCHANGED <<placed, lost>>

\* A pending proposal is refused by a person, runs out of time, or is approved
\* together with the orders its one placement attempt put on the exchange.
Decline(P) ==
    /\ \A p \in P : status[p] = "pending"
    /\ \E d \in {"rejected", "expired"} :
          status' = [p \in Proposals |-> IF p \in P THEN d ELSE status[p]]
    /\ UNCHANGED <<placed, lost>>

Approve(p) ==
    /\ status[p] = "pending"
    /\ status' = [status EXCEPT ![p] = "approved"]
    /\ \E C \in SUBSET Legs(p) : placed' = placed \cup C
    /\ UNCHANGED lost

Conclude(p) ==
    /\ status[p] = "approved"
    /\ \E o \in Outcome : status' = [status EXCEPT ![p] = o]
    /\ UNCHANGED <<placed, lost>>

Lose(p) ==
    /\ status[p] = "approved"
    /\ status' = [status EXCEPT ![p] = "pending"]
    /\ lost' = lost \cup (placed \cap Legs(p))
    /\ UNCHANGED placed

Next ==
    \/ \E p \in Proposals : Create(p) \/ Approve(p) \/ Conclude(p) \/ Lose(p)
    \/ \E P \in SUBSET Proposals : Decline(P)

Spec == Init /\ [][Next]_vars

===============================================================================
