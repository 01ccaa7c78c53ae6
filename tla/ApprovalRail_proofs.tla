-------------------------- MODULE ApprovalRail_proofs --------------------------
(***************************************************************************)
(* Theorems about ApprovalRail, for every set of proposals, legs and       *)
(* concurrent requests.                                                    *)
(***************************************************************************)
EXTENDS ApprovalRail, TLAPS

-------------------------------------------------------------------------------
(* Values of the rows *)

\* A row that reports n contracts filled on arrival is a row.
LEMMA SettledIsRow ==
    ASSUME NEW p, NEW n \in 0 .. Contracts, NEW id \in BOOLEAN
    PROVE  Settled(p, n, id) \in Row
<1>1. SettleStatus(p, n) \in OrderStatus
  BY DEF SettleStatus, OrderStatus
<1> QED
  BY <1>1 DEF Settled, Row

\* So is one that reports nothing, whatever its status.
LEMMA UnlinkedIsRow ==
    ASSUME RailAssumption, NEW st \in OrderStatus
    PROVE  Unlinked(st) \in Row
  BY DEF RailAssumption, Unlinked, Row

\* And one whose result could not be told.
LEMMA NotAppliedIsRow ==
    ASSUME RailAssumption, NEW id \in BOOLEAN
    PROVE  NotApplied(id) \in Row
  BY DEF RailAssumption, NotApplied, Row, OrderStatus

\* The absence of a row is not a row.
LEMMA NoRowIsNoRow == NoRow \notin Row
  BY DEF NoRow, Row, OrderStatus

-------------------------------------------------------------------------------
(* What placing does, whichever way the legs go out *)

\* A row by which the worker can find an order: it has the exchange's id, or a
\* status recover_orphaned_orders asks about.
FollowableRow(r) == r.linked \/ r.status \in {"pending", "rejected"}

\* The effect of Place that the invariants are about: session s has an answer,
\* every leg of its proposal has a row, the legs in A and no others went on, the
\* exchange held none of them before, and if it always names its orders the rows
\* of these can be followed.
PlaceEffect(s, A) ==
    LET p == txn[s].proposal IN
    /\ A \subseteq CoidsOf(p)
    /\ exch' \in [Coids -> (0 .. Contracts) \cup {Missing}]
    /\ \A c \in A : exch[c] = Missing /\ exch'[c] # Missing
    /\ \A c \in Coids \ A : exch'[c] = exch[c]
    /\ \E a \in {"reply", "refused", "unclear"}, R \in [Coids -> Row \cup {NoRow}] :
          /\ \A c \in CoidsOf(p) : R[c] \in Row
          /\ ~IdMayBeOmitted => \A c \in A : FollowableRow(R[c])
          /\ txn' = [txn EXCEPT ![s] =
                       [pc |-> "answered", proposal |-> p, answer |-> a, rows |-> R]]
    /\ UNCHANGED <<status, due, rows, audit, kill, aborts, abandoned>>

LEMMA DeliverEffect ==
    ASSUME RailAssumption, TypeOK, NEW s \in Sessions, Deliver(s),
           UNCHANGED <<status, due, rows, audit, kill, aborts, abandoned>>
    PROVE  \E A \in SUBSET Coids : PlaceEffect(s, A)
<1> DEFINE p == txn[s].proposal
           C == CoidsOf(p)
<1>1. PICK A \in SUBSET {c \in C : ~Taken(c)}, B \in SUBSET C :
      \E id \in SUBSET (A \ B), f \in [A -> 0 .. Contracts] :
      \E R \in [B -> (UNION {Applied(p, f[c]) : c \in A}) \cup NotOn(p)] :
        /\ \A c, d \in id : c = d
        /\ SingleLeg(p) => B \cup id \subseteq A
        /\ \A c \in B : IF c \in A THEN R[c] \in Applied(p, f[c]) ELSE R[c] \in NotOn(p)
        /\ exch' = [c \in Coids |-> IF c \in A THEN f[c] ELSE exch[c]]
        /\ Answered(s, IF B = C THEN "reply" ELSE "unclear",
                    [c \in Coids |-> IF c \in B THEN R[c]
                                     ELSE IF c \in C THEN NotApplied(c \in id)
                                     ELSE NoRow])
  BY DEF Deliver
<1>2. PICK id \in SUBSET (A \ B), f \in [A -> 0 .. Contracts] :
      \E R \in [B -> (UNION {Applied(p, f[c]) : c \in A}) \cup NotOn(p)] :
        /\ \A c, d \in id : c = d
        /\ SingleLeg(p) => B \cup id \subseteq A
        /\ \A c \in B : IF c \in A THEN R[c] \in Applied(p, f[c]) ELSE R[c] \in NotOn(p)
        /\ exch' = [c \in Coids |-> IF c \in A THEN f[c] ELSE exch[c]]
        /\ Answered(s, IF B = C THEN "reply" ELSE "unclear",
                    [c \in Coids |-> IF c \in B THEN R[c]
                                     ELSE IF c \in C THEN NotApplied(c \in id)
                                     ELSE NoRow])
  BY <1>1
<1>3. PICK R \in [B -> (UNION {Applied(p, f[c]) : c \in A}) \cup NotOn(p)] :
        /\ \A c, d \in id : c = d
        /\ SingleLeg(p) => B \cup id \subseteq A
        /\ \A c \in B : IF c \in A THEN R[c] \in Applied(p, f[c]) ELSE R[c] \in NotOn(p)
        /\ exch' = [c \in Coids |-> IF c \in A THEN f[c] ELSE exch[c]]
        /\ Answered(s, IF B = C THEN "reply" ELSE "unclear",
                    [c \in Coids |-> IF c \in B THEN R[c]
                                     ELSE IF c \in C THEN NotApplied(c \in id)
                                     ELSE NoRow])
  BY <1>2
<1> DEFINE RR == [c \in Coids |-> IF c \in B THEN R[c]
                                  ELSE IF c \in C THEN NotApplied(c \in id)
                                  ELSE NoRow]
           a == IF B = C THEN "reply" ELSE "unclear"
<1>4. \A c \in B : R[c] \in Row
  <2>1. SUFFICES ASSUME NEW c \in B PROVE R[c] \in Row
    OBVIOUS
  <2>2. CASE c \in A
    <3>1. R[c] \in Applied(p, f[c]) /\ f[c] \in 0 .. Contracts
      BY <1>3, <2>2
    <3>2. PICK n \in 0 .. Contracts, b \in BOOLEAN : R[c] = Settled(p, n, b)
      BY <3>1 DEF Applied
    <3> QED
      BY <3>2, SettledIsRow
  <2>3. CASE c \notin A
    <3>1. R[c] \in NotOn(p)
      BY <1>3, <2>3
    <3>2. SettleStatus(p, 0) \in OrderStatus /\ "rejected" \in OrderStatus
      BY DEF SettleStatus, OrderStatus
    <3> QED
      BY <3>1, <3>2, UnlinkedIsRow DEF NotOn
  <2> QED
    BY <2>2, <2>3
<1>5. \A c \in C : RR[c] \in Row
  <2>1. SUFFICES ASSUME NEW c \in C PROVE RR[c] \in Row
    OBVIOUS
  <2>2. c \in Coids /\ (c \in id) \in BOOLEAN
    BY DEF CoidsOf
  <2>3. NotApplied(c \in id) \in Row
    BY <2>2, NotAppliedIsRow
  <2>4. RR[c] = IF c \in B THEN R[c] ELSE NotApplied(c \in id)
    BY <2>2
  <2> QED
    BY <1>4, <2>3, <2>4
<1>6. RR \in [Coids -> Row \cup {NoRow}]
  BY <1>4, <1>5
<1>7. txn' = [txn EXCEPT ![s] = [pc |-> "answered", proposal |-> p, answer |-> a,
                                 rows |-> RR]]
  BY <1>3 DEF Answered
<1>8. A \subseteq C /\ C \subseteq Coids
  BY DEF CoidsOf
<1>9. /\ exch' \in [Coids -> (0 .. Contracts) \cup {Missing}]
      /\ \A c \in Coids \ A : exch'[c] = exch[c]
  BY <1>3, <1>8 DEF TypeOK
<1>10. \A c \in A : exch[c] = Missing /\ exch'[c] # Missing
  BY <1>3, <1>8 DEF Taken, Missing
<1>11. a \in {"reply", "refused", "unclear"}
  OBVIOUS
<1>12. ~IdMayBeOmitted => \A c \in A : FollowableRow(RR[c])
  <2>1. SUFFICES ASSUME ~IdMayBeOmitted, NEW c \in A PROVE FollowableRow(RR[c])
    OBVIOUS
  <2>2. CASE c \in B
    <3>1. RR[c] \in Applied(p, f[c])
      BY <1>3, <1>8, <2>2
    <3> HIDE DEF RR
    <3>2. RR[c].linked
      BY <2>1, <3>1 DEF Applied, Settled
    <3> QED
      BY <3>2 DEF FollowableRow
  <2>3. CASE c \notin B
    <3>1. RR[c] = NotApplied(c \in id)
      BY <1>8, <2>3
    <3> QED
      BY <3>1 DEF NotApplied, FollowableRow
  <2> QED
    BY <2>2, <2>3
<1>13. PlaceEffect(s, A)
  <2> HIDE DEF RR, a
  <2> QED
    BY <1>5, <1>6, <1>7, <1>8, <1>9, <1>10, <1>11, <1>12 DEF PlaceEffect
<1> QED
  BY <1>8, <1>13

LEMMA RefuseEffect ==
    ASSUME RailAssumption, TypeOK, NEW s \in Sessions, Refuse(s),
           UNCHANGED <<status, due, rows, audit, kill, aborts, abandoned>>
    PROVE  PlaceEffect(s, {})
<1> DEFINE p == txn[s].proposal
           RR == FlushedRows(p, Unlinked("rejected"))
<1>1. Unlinked("rejected") \in Row
  BY UnlinkedIsRow DEF OrderStatus
<1>2. RR \in [Coids -> Row \cup {NoRow}] /\ \A c \in CoidsOf(p) : RR[c] \in Row
  BY <1>1 DEF FlushedRows, CoidsOf
<1>3. txn' = [txn EXCEPT ![s] = [pc |-> "answered", proposal |-> p,
                                 answer |-> "refused", rows |-> RR]]
  BY DEF Refuse, Answered
<1>4. exch' = exch
  BY DEF Refuse
<1> HIDE DEF RR
<1> QED
  BY <1>2, <1>3, <1>4 DEF PlaceEffect, TypeOK

LEMMA SimulateEffect ==
    ASSUME RailAssumption, TypeOK, NEW s \in Sessions, Simulate(s),
           UNCHANGED <<status, due, rows, audit, kill, aborts, abandoned>>
    PROVE  PlaceEffect(s, {})
<1> DEFINE p == txn[s].proposal
           C == CoidsOf(p)
           Fill == {Settled(p, n, FALSE) : n \in 0 .. Contracts} \cup {Unlinked("resting")}
<1>0. PICK B \in SUBSET C : \E R \in [B -> Fill] :
        /\ Answered(s, IF B = C THEN "reply" ELSE "unclear",
                    [c \in Coids |-> IF c \in B THEN R[c]
                                     ELSE IF c \in C THEN NotApplied(FALSE)
                                     ELSE NoRow])
        /\ UNCHANGED exch
  BY DEF Simulate
<1>1. PICK R \in [B -> Fill] :
        /\ Answered(s, IF B = C THEN "reply" ELSE "unclear",
                    [c \in Coids |-> IF c \in B THEN R[c]
                                     ELSE IF c \in C THEN NotApplied(FALSE)
                                     ELSE NoRow])
        /\ UNCHANGED exch
  BY <1>0
<1> DEFINE RR == [c \in Coids |-> IF c \in B THEN R[c]
                                  ELSE IF c \in C THEN NotApplied(FALSE)
                                  ELSE NoRow]
           a == IF B = C THEN "reply" ELSE "unclear"
<1>2. Fill \subseteq Row
  <2>1. Unlinked("resting") \in Row
    BY UnlinkedIsRow DEF OrderStatus
  <2> QED
    BY <2>1, SettledIsRow, ZenonT(60)
<1>3. NotApplied(FALSE) \in Row
  BY NotAppliedIsRow
<1>4. RR \in [Coids -> Row \cup {NoRow}] /\ \A c \in C : RR[c] \in Row
  BY <1>2, <1>3 DEF CoidsOf
<1>5. txn' = [txn EXCEPT ![s] = [pc |-> "answered", proposal |-> p, answer |-> a,
                                 rows |-> RR]]
  BY <1>1 DEF Answered
<1>6. a \in {"reply", "refused", "unclear"} /\ exch' = exch
  BY <1>1
<1> HIDE DEF RR, a
<1> QED
  BY <1>4, <1>5, <1>6 DEF PlaceEffect, TypeOK

\* Simulated or at the exchange, answered, refused or silent: one effect.
LEMMA PlacingEffect ==
    ASSUME RailAssumption, TypeOK, NEW s \in Sessions, Place(s)
    PROVE  \E A \in SUBSET Coids : PlaceEffect(s, A)
<1> USE DEF Place
<1>1. CASE Simulate(s)
  BY <1>1, SimulateEffect
<1>2. CASE Deliver(s)
  BY <1>2, DeliverEffect
<1>3. CASE Refuse(s)
  BY <1>3, RefuseEffect
<1> QED
  BY <1>1, <1>2, <1>3

-------------------------------------------------------------------------------
(* The inductive invariant *)

\* A row lock has one holder, and what it holds is still to be decided.
OneHolder ==
    /\ \A s \in Sessions : Busy(s) =>
          /\ txn[s].proposal \in Proposals
          /\ status[txn[s].proposal] = "pending"
          /\ \A c \in CoidsOf(txn[s].proposal) : txn[s].rows[c] \in Row
    /\ \A s, t \in Sessions :
          Busy(s) /\ Busy(t) /\ txn[s].proposal = txn[t].proposal => s = t

\* Order rows are committed with the decision, and only with an approval.
RowsWithDecision ==
    \A c \in Coids : rows[c] # NoRow <=> status[ProposalOf[c]] \in Outcome

\* Why an order is at the exchange.
OrderAccountedFor ==
    \A c \in Coids : Taken(c) =>
        \/ c \in abandoned
        \/ status[ProposalOf[c]] \in Outcome
        \/ InFlight(ProposalOf[c])

RailInv ==
    TypeOK /\ OneHolder /\ RowsWithDecision /\ OrderAccountedFor /\ DecidedOnce

LEMMA OutcomeIsOutcome ==
    ASSUME NEW p, NEW R
    PROVE  OutcomeOf(p, R) \in Outcome
  BY DEF OutcomeOf, Outcome

LEMMA LogIsAudit ==
    ASSUME TypeOK, NEW p \in Proposals, NEW K
    PROVE  /\ Log(p, K) \in [Proposals -> [AuditKind -> Nat]]
           /\ \A q \in Proposals \ {p} : Log(p, K)[q] = audit[q]
           /\ \A k \in AuditKind :
                Log(p, K)[p][k] = audit[p][k] + (IF k \in K THEN 1 ELSE 0)
  BY DEF TypeOK, Log

LEMMA RailInvInit ==
    ASSUME RailAssumption, Init
    PROVE  RailInv
<1>1. TypeOK
  BY DEF RailAssumption, Init, TypeOK, Status, NoRows, Missing, Idle, Txn, Row
<1>2. \A s \in Sessions : ~Busy(s)
  BY DEF Init, Busy, Idle
<1>3. OneHolder
  BY <1>2 DEF OneHolder
<1>4. RowsWithDecision
  BY DEF RailAssumption, Init, RowsWithDecision, NoRows, Outcome
<1>5. OrderAccountedFor
  BY DEF Init, OrderAccountedFor, Taken
<1>6. DecidedOnce
  BY DEF Init, DecidedOnce, AuditKind, Outcome
<1> QED
  BY <1>1, <1>3, <1>4, <1>5, <1>6 DEF RailInv

-------------------------------------------------------------------------------
(* The queue keeps the invariant *)

\* Steps that leave the transactions, the rows and the exchange alone keep the
\* parts about them, if a pending proposal that is held stays pending and no
\* approved one becomes anything else.
LEMMA QueueStep ==
    ASSUME RailAssumption, RailInv, TypeOK', DecidedOnce',
           UNCHANGED <<rows, exch, txn, abandoned>>,
           \A p \in Proposals : Locked(p) => status'[p] = status[p],
           \A p \in Proposals : status[p] \in Outcome <=> status'[p] \in Outcome
    PROVE  RailInv'
<1>1. OneHolder'
  BY DEF RailInv, OneHolder, Busy, Locked
<1>2. RowsWithDecision'
  BY DEF RailAssumption, RailInv, RowsWithDecision
<1>3. OrderAccountedFor'
  BY DEF RailAssumption, RailInv, OrderAccountedFor, InFlight, Taken
<1> QED
  BY <1>1, <1>2, <1>3 DEF RailInv

LEMMA CreateKeeps ==
    ASSUME RailAssumption, RailInv, NEW p \in Proposals, Create(p)
    PROVE  RailInv'
<1> USE DEF RailInv
<1>1. status' \in [Proposals -> Status] /\ status'[p] = "pending"
  BY DEF Create, TypeOK, Status
<1>2. TypeOK'
  BY <1>1 DEF Create, TypeOK
<1>3. DecidedOnce'
  BY <1>1 DEF Create, TypeOK, DecidedOnce, Outcome
<1>4. \A q \in Proposals : Locked(q) => status'[q] = status[q]
  BY DEF Create, OneHolder, Locked, TypeOK
<1>5. \A q \in Proposals : status[q] \in Outcome <=> status'[q] \in Outcome
  BY DEF Create, TypeOK, Outcome
<1> QED
  BY <1>2, <1>3, <1>4, <1>5, QueueStep DEF Create

LEMMA ElapseKeeps ==
    ASSUME RailAssumption, RailInv, NEW p \in Proposals, Elapse(p)
    PROVE  RailInv'
<1>1. TypeOK' /\ DecidedOnce'
  BY DEF Elapse, TypeOK, DecidedOnce, RailInv
<1> QED
  BY <1>1, QueueStep DEF Elapse

LEMMA ToggleKillKeeps ==
    ASSUME RailAssumption, RailInv, ToggleKill
    PROVE  RailInv'
<1>1. TypeOK' /\ DecidedOnce'
  BY DEF ToggleKill, TypeOK, DecidedOnce, RailInv
<1> QED
  BY <1>1, QueueStep DEF ToggleKill

LEMMA ExpireStaleKeeps ==
    ASSUME RailAssumption, RailInv, ExpireStale
    PROVE  RailInv'
<1> USE DEF RailInv
<1>1. \A p \in Proposals :
        /\ p \in Stale => status[p] = "pending" /\ status'[p] = "expired"
        /\ p \notin Stale => status'[p] = status[p]
  BY DEF ExpireStale, Stale
<1>2. \A p \in Proposals \ Stale : audit'[p] = audit[p]
  BY DEF ExpireStale
<1>3. \A p \in Stale :
        /\ audit'[p] \in [AuditKind -> Nat]
        /\ audit'[p]["expired"] = audit[p]["expired"] + 1
        /\ audit'[p]["approved"] = audit[p]["approved"]
        /\ audit'[p]["rejected"] = audit[p]["rejected"]
  <2>1. SUFFICES ASSUME NEW p \in Stale
                 PROVE  /\ audit'[p] \in [AuditKind -> Nat]
                        /\ audit'[p]["expired"] = audit[p]["expired"] + 1
                        /\ audit'[p]["approved"] = audit[p]["approved"]
                        /\ audit'[p]["rejected"] = audit[p]["rejected"]
    OBVIOUS
  <2>2. p \in Proposals /\ audit'[p] = Log(p, {"expired"})[p]
    BY DEF ExpireStale, Stale
  <2> QED
    BY <2>2, LogIsAudit DEF AuditKind, TypeOK
<1>4. audit' \in [Proposals -> [AuditKind -> Nat]]
  <2>1. \A p \in Proposals : audit'[p] \in [AuditKind -> Nat]
    BY <1>2, <1>3 DEF TypeOK
  <2> QED
    BY <2>1 DEF ExpireStale
<1>5. status' \in [Proposals -> Status]
  BY DEF ExpireStale, TypeOK, Status
<1>6. TypeOK'
  BY <1>4, <1>5 DEF ExpireStale, TypeOK
<1>7. DecidedOnce'
  BY <1>1, <1>2, <1>3 DEF DecidedOnce, Outcome, TypeOK, AuditKind
<1>8. \A p \in Proposals : Locked(p) => status'[p] = status[p]
  BY <1>1 DEF Stale
<1>9. \A p \in Proposals : status[p] \in Outcome <=> status'[p] \in Outcome
  BY <1>1 DEF Outcome
<1> QED
  BY <1>6, <1>7, <1>8, <1>9, QueueStep DEF ExpireStale

LEMMA RejectKeeps ==
    ASSUME RailAssumption, RailInv, NEW p \in Proposals, Reject(p)
    PROVE  RailInv'
<1> USE DEF RailInv
<1>1. /\ status' \in [Proposals -> Status] /\ status'[p] = "rejected"
      /\ \A q \in Proposals \ {p} : status'[q] = status[q]
  BY DEF Reject, TypeOK, Status
<1>2. TypeOK'
  BY <1>1, LogIsAudit DEF Reject, TypeOK
<1>3. DecidedOnce'
  BY <1>1, LogIsAudit DEF Reject, DecidedOnce, Outcome, AuditKind, TypeOK
<1>4. \A q \in Proposals : Locked(q) => status'[q] = status[q]
  BY <1>1 DEF Reject
<1>5. \A q \in Proposals : status[q] \in Outcome <=> status'[q] \in Outcome
  BY <1>1 DEF Reject, Outcome
<1> QED
  BY <1>2, <1>3, <1>4, <1>5, QueueStep DEF Reject

-------------------------------------------------------------------------------
(* The approval keeps the invariant *)

LEMMA ClearKeeps ==
    ASSUME RailAssumption, RailInv, NEW s \in Sessions, NEW p \in Proposals, Clear(s, p)
    PROVE  RailInv'
<1> USE DEF RailInv
<1> DEFINE R == FlushedRows(p, Unlinked("pending"))
           t == [pc |-> "cleared", proposal |-> p, answer |-> "none", rows |-> R]
<1>1. Unlinked("pending") \in Row
  BY UnlinkedIsRow DEF OrderStatus
<1>2. R \in [Coids -> Row \cup {NoRow}] /\ \A c \in CoidsOf(p) : R[c] \in Row
  BY <1>1 DEF FlushedRows, CoidsOf
<1>3. txn' = [txn EXCEPT ![s] = t] /\ t.pc = "cleared" /\ t.proposal = p /\ t.rows = R
  BY DEF Clear
<1>4. t \in Txn
  BY <1>2 DEF Txn
<1> HIDE DEF R, t
<1>5. txn' \in [Sessions -> Txn] /\ txn'[s] = t /\ \A u \in Sessions \ {s} : txn'[u] = txn[u]
  BY <1>3, <1>4 DEF TypeOK
<1>6. TypeOK'
  BY <1>5 DEF Clear, TypeOK
<1>7. OneHolder'
  BY <1>2, <1>3, <1>5 DEF Clear, OneHolder, Busy, Locked
<1>8. \A q \in Proposals : InFlight(q) => InFlight(q)'
  BY <1>5 DEF Clear, InFlight, Busy
<1>9. RowsWithDecision' /\ OrderAccountedFor' /\ DecidedOnce'
  BY <1>8 DEF Clear, RowsWithDecision, OrderAccountedFor, DecidedOnce, Taken,
              RailAssumption
<1> QED
  BY <1>6, <1>7, <1>9

LEMMA PlaceKeeps ==
    ASSUME RailAssumption, RailInv, NEW s \in Sessions, Place(s)
    PROVE  RailInv'
<1> USE DEF RailInv
<1>1. PICK A \in SUBSET Coids : PlaceEffect(s, A)
  BY PlacingEffect
<1> DEFINE p == txn[s].proposal
<1>2. PICK a \in {"reply", "refused", "unclear"}, R \in [Coids -> Row \cup {NoRow}] :
        /\ \A c \in CoidsOf(p) : R[c] \in Row
        /\ txn' = [txn EXCEPT ![s] =
                     [pc |-> "answered", proposal |-> p, answer |-> a, rows |-> R]]
  BY <1>1 DEF PlaceEffect
<1> DEFINE t == [pc |-> "answered", proposal |-> p, answer |-> a, rows |-> R]
<1>3. Busy(s) /\ p \in Proposals /\ status[p] = "pending"
  BY DEF Place, Busy, OneHolder
<1>4. t \in Txn /\ t.pc = "answered" /\ t.proposal = p /\ t.rows = R
  BY <1>3 DEF Txn
<1> HIDE DEF t
<1>5. txn' \in [Sessions -> Txn] /\ txn'[s] = t /\ \A u \in Sessions \ {s} : txn'[u] = txn[u]
  BY <1>2, <1>4 DEF TypeOK, t
<1>6. TypeOK'
  BY <1>1, <1>5 DEF PlaceEffect, TypeOK
<1>7. OneHolder'
  BY <1>1, <1>2, <1>3, <1>4, <1>5 DEF PlaceEffect, OneHolder, Busy
<1>8. InFlight(p)' /\ \A q \in Proposals : InFlight(q) => InFlight(q)'
  BY <1>4, <1>5 DEF InFlight
<1>9. OrderAccountedFor'
  <2>1. SUFFICES ASSUME NEW c \in Coids, Taken(c)'
                 PROVE  \/ c \in abandoned
                        \/ status[ProposalOf[c]] \in Outcome
                        \/ InFlight(ProposalOf[c])'
    BY <1>1 DEF OrderAccountedFor, PlaceEffect
  <2>2. CASE c \in A
    BY <1>1, <1>8, <2>2 DEF PlaceEffect, CoidsOf
  <2>3. CASE c \notin A
    BY <1>1, <1>8, <2>1, <2>3 DEF PlaceEffect, OrderAccountedFor, Taken, RailAssumption
  <2> QED
    BY <2>2, <2>3
<1>10. RowsWithDecision' /\ DecidedOnce'
  BY <1>1 DEF PlaceEffect, RowsWithDecision, DecidedOnce
<1> QED
  BY <1>6, <1>7, <1>9, <1>10

LEMMA FinishKeeps ==
    ASSUME RailAssumption, RailInv, NEW s \in Sessions, Finish(s)
    PROVE  RailInv'
<1> USE DEF RailInv
<1> DEFINE p == txn[s].proposal
           K == {"approved"} \cup
                  (CASE txn[s].answer = "unclear" -> {"submit_ambiguous"}
                     [] txn[s].answer = "refused" -> {"order_failed"}
                     [] OTHER -> {})
<1>1. /\ Busy(s) /\ p \in Proposals /\ status[p] = "pending"
      /\ \A c \in CoidsOf(p) : txn[s].rows[c] \in Row
  BY DEF Finish, Busy, OneHolder
<1>2. /\ status' \in [Proposals -> Status] /\ status'[p] \in Outcome
      /\ \A q \in Proposals \ {p} : status'[q] = status[q]
  <2>1. \A R : OutcomeOf(p, R) \in Outcome
    BY OutcomeIsOutcome
  <2>2. "failed" \in Outcome /\ Outcome \subseteq Status
    BY DEF Outcome, Status
  <2>3. \E o \in Outcome : status' = [status EXCEPT ![p] = o]
    BY <2>1, <2>2 DEF Finish
  <2> QED
    BY <1>1, <2>2, <2>3 DEF TypeOK
<1>3. /\ audit' = Log(p, K)
      /\ "approved" \in K /\ "rejected" \notin K /\ "expired" \notin K
  BY DEF Finish
<1> HIDE DEF K
<1>4. /\ rows' \in [Coids -> Row \cup {NoRow}]
      /\ \A c \in CoidsOf(p) : rows'[c] \in Row
      /\ \A c \in Coids \ CoidsOf(p) : rows'[c] = rows[c]
  BY <1>1 DEF Finish, Committed, TypeOK, CoidsOf
<1>5. /\ txn' \in [Sessions -> Txn] /\ txn'[s].pc = "idle"
      /\ \A u \in Sessions \ {s} : txn'[u] = txn[u]
  <2>1. Idle \in Txn /\ Idle.pc = "idle"
    BY DEF Idle, Txn, NoRows
  <2> QED
    BY <2>1 DEF Finish, TypeOK
<1>6. TypeOK'
  BY <1>1, <1>2, <1>3, <1>4, <1>5, LogIsAudit DEF Finish, TypeOK
<1>7. OneHolder'
  BY <1>1, <1>2, <1>5 DEF OneHolder, Busy
<1>8. RowsWithDecision'
  <2>1. SUFFICES ASSUME NEW c \in Coids
                 PROVE  rows'[c] # NoRow <=> status'[ProposalOf[c]] \in Outcome
    BY DEF RowsWithDecision
  <2>2. CASE c \in CoidsOf(p)
    BY <1>2, <1>4, <2>2, NoRowIsNoRow DEF CoidsOf
  <2>3. CASE c \notin CoidsOf(p)
    BY <1>2, <1>4, <2>3 DEF CoidsOf, RowsWithDecision, RailAssumption
  <2> QED
    BY <2>2, <2>3
<1>9. \A q \in Proposals \ {p} : InFlight(q) => InFlight(q)'
  BY <1>5 DEF InFlight
<1>10. OrderAccountedFor'
  BY <1>2, <1>9 DEF Finish, OrderAccountedFor, Taken, RailAssumption
<1>11. DecidedOnce'
  BY <1>1, <1>2, <1>3, LogIsAudit DEF DecidedOnce, Outcome, AuditKind, TypeOK
<1> QED
  BY <1>6, <1>7, <1>8, <1>10, <1>11

LEMMA AbortKeeps ==
    ASSUME RailAssumption, RailInv, NEW s \in Sessions, Abort(s)
    PROVE  RailInv'
<1> USE DEF RailInv
<1>1. /\ txn' \in [Sessions -> Txn] /\ txn'[s].pc = "idle"
      /\ \A u \in Sessions \ {s} : txn'[u] = txn[u]
  <2>1. Idle \in Txn /\ Idle.pc = "idle"
    BY DEF Idle, Txn, NoRows
  <2> QED
    BY <2>1 DEF Abort, TypeOK
<1>2. TypeOK'
  BY <1>1 DEF Abort, TypeOK, CoidsOf
<1>3. OneHolder'
  BY <1>1 DEF Abort, OneHolder, Busy
<1>4. \A q \in Proposals : InFlight(q) => InFlight(q)' \/ q = txn[s].proposal
  BY <1>1 DEF InFlight
<1>5. OrderAccountedFor'
  BY <1>4 DEF Abort, OrderAccountedFor, Taken, RailAssumption, CoidsOf
<1>6. RowsWithDecision' /\ DecidedOnce'
  BY DEF Abort, RowsWithDecision, DecidedOnce
<1> QED
  BY <1>2, <1>3, <1>5, <1>6

-------------------------------------------------------------------------------
(* The safety theorems *)

LEMMA RailInvNext ==
    ASSUME RailAssumption, RailInv, [Next]_vars
    PROVE  RailInv'
<1>1. CASE UNCHANGED vars
  BY <1>1 DEF vars, RailInv, TypeOK, OneHolder, Busy, RowsWithDecision,
              OrderAccountedFor, InFlight, Taken, DecidedOnce
<1>2. ASSUME NEW p \in Proposals, Create(p) \/ Elapse(p) \/ Reject(p)
      PROVE  RailInv'
  BY <1>2, CreateKeeps, ElapseKeeps, RejectKeeps
<1>3. ASSUME NEW s \in Sessions, NEW p \in Proposals, Clear(s, p)
      PROVE  RailInv'
  BY <1>3, ClearKeeps
<1>4. ASSUME NEW s \in Sessions, Place(s) \/ Finish(s) \/ Abort(s)
      PROVE  RailInv'
  BY <1>4, PlaceKeeps, FinishKeeps, AbortKeeps
<1> QED
  BY <1>1, <1>2, <1>3, <1>4, ExpireStaleKeeps, ToggleKillKeeps DEF Next

\* The inductive invariant holds throughout: the row lock has one holder at a
\* time, and orders, rows and audit trail agree with the proposal's status.
THEOREM RailInvariant == Spec => []RailInv
<1>1. Init => RailInv
  BY RailAssumption, RailInvInit
<1>2. RailInv /\ [Next]_vars => RailInv'
  BY RailAssumption, RailInvNext
<1> QED
  BY <1>1, <1>2, PTL DEF Spec

\* Types are kept, for any number of proposals, legs, contracts and requests.
THEOREM TypeCorrect == Spec => []TypeOK
<1>1. RailInv => TypeOK
  BY DEF RailInv
<1> QED
  BY <1>1, RailInvariant, PTL

\* Approvals, rejections and expiry sweeps that race for a proposal leave one
\* decision in the audit trail, the one its status shows (executor.py's row lock,
\* expire_stale's conditional UPDATE).
THEOREM OneDecision == Spec => []DecidedOnce
<1>1. RailInv => DecidedOnce
  BY DEF RailInv
<1> QED
  BY <1>1, RailInvariant, PTL

\* No order at the exchange without a committed row, an open request or a lost
\* transaction behind it (approve_and_execute and its callers' commit).
THEOREM OrdersRecorded == Spec => []EveryOrderRecorded
<1>1. RailInv => EveryOrderRecorded
  BY DEF RailInv, OrderAccountedFor, RowsWithDecision, EveryOrderRecorded
<1> QED
  BY <1>1, RailInvariant, PTL

\* Nothing at the exchange for a proposal that was not approved.
THEOREM ApprovalFirst == Spec => []NoTradeWithoutApproval
<1>1. RailInv => NoTradeWithoutApproval
  BY DEF RailInv, OrderAccountedFor, OneHolder, InFlight, Busy, NoTradeWithoutApproval
<1> QED
  BY <1>1, RailInvariant, PTL

-------------------------------------------------------------------------------
(* Orders that can be followed *)

\* An answered request that names its orders has flushed a row the worker can
\* follow for every order of its proposal the exchange holds, lost ones aside.
FlushedFollowable ==
    \A s \in Sessions : txn[s].pc = "answered" =>
        \A c \in CoidsOf(txn[s].proposal) :
            Taken(c) /\ c \notin abandoned => FollowableRow(txn[s].rows[c])

FollowInv == ~IdMayBeOmitted => StillFollowed /\ FlushedFollowable

LEMMA FollowInvInit ==
    ASSUME Init
    PROVE  FollowInv
  BY DEF Init, FollowInv, StillFollowed, FlushedFollowable, Taken, Idle

\* Steps that send nothing and answer nothing: whatever is answered afterwards
\* was answered before, with the same rows.
LEMMA FollowStep ==
    ASSUME FollowInv, UNCHANGED <<rows, exch>>, abandoned \subseteq abandoned',
           \A s \in Sessions : txn'[s].pc = "answered" => txn'[s] = txn[s]
    PROVE  FollowInv'
<1>1. StillFollowed => StillFollowed'
  BY DEF StillFollowed, Taken
<1>2. FlushedFollowable => FlushedFollowable'
  BY DEF FlushedFollowable, Taken
<1> QED
  BY <1>1, <1>2 DEF FollowInv

LEMMA QueueFollowed ==
    ASSUME FollowInv, NEW p \in Proposals, Create(p) \/ Elapse(p) \/ Reject(p)
    PROVE  FollowInv'
  BY FollowStep DEF Create, Elapse, Reject

LEMMA ClearFollowed ==
    ASSUME RailInv, FollowInv, NEW s \in Sessions, NEW p \in Proposals, Clear(s, p)
    PROVE  FollowInv'
<1>1. txn'[s].pc = "cleared" /\ \A u \in Sessions \ {s} : txn'[u] = txn[u]
  BY DEF Clear, RailInv, TypeOK
<1> QED
  BY <1>1, FollowStep DEF Clear

LEMMA AbortFollowed ==
    ASSUME RailInv, FollowInv, NEW s \in Sessions, Abort(s)
    PROVE  FollowInv'
<1>1. txn'[s].pc = "idle" /\ \A u \in Sessions \ {s} : txn'[u] = txn[u]
  BY DEF Abort, RailInv, TypeOK, Idle
<1> QED
  BY <1>1, FollowStep DEF Abort

\* Nothing of the proposal was at the exchange when its request was sent, lost
\* orders aside, and its committed rows are still to come.
LEMMA PlaceFollowed ==
    ASSUME RailAssumption, RailInv, FollowInv, ~IdMayBeOmitted,
           NEW s \in Sessions, Place(s)
    PROVE  StillFollowed' /\ FlushedFollowable'
<1> DEFINE p == txn[s].proposal
<1>1. PICK A \in SUBSET Coids : PlaceEffect(s, A)
  BY PlacingEffect DEF RailInv
<1>2. PICK a \in {"reply", "refused", "unclear"}, R \in [Coids -> Row \cup {NoRow}] :
        /\ \A c \in A : FollowableRow(R[c])
        /\ txn' = [txn EXCEPT ![s] =
                     [pc |-> "answered", proposal |-> p, answer |-> a, rows |-> R]]
  BY <1>1 DEF PlaceEffect
<1>3. /\ txn[s].pc = "cleared" /\ Busy(s) /\ p \in Proposals
      /\ status[p] = "pending" /\ ~InFlight(p)
      /\ \A u \in Sessions \ {s} : Busy(u) => txn[u].proposal # p
  BY DEF Place, Busy, RailInv, OneHolder, InFlight
<1>4. /\ txn'[s].proposal = p /\ txn'[s].rows = R
      /\ \A u \in Sessions \ {s} : txn'[u] = txn[u]
  BY <1>2 DEF RailInv, TypeOK
<1>5. /\ A \subseteq CoidsOf(p) /\ UNCHANGED <<rows, abandoned>>
      /\ \A c \in Coids \ A : exch'[c] = exch[c]
  BY <1>1 DEF PlaceEffect
<1>6. \A c \in CoidsOf(p) : c \in Coids /\ (Taken(c) => c \in abandoned)
  BY <1>3 DEF RailInv, OrderAccountedFor, CoidsOf, Outcome
<1>7. \A c \in A : rows[c] = NoRow
  BY <1>3, <1>5 DEF RailInv, RowsWithDecision, CoidsOf, Outcome
<1>8. StillFollowed'
  BY <1>5, <1>7 DEF FollowInv, StillFollowed, Taken, FollowableRow
<1>9. ASSUME NEW u \in Sessions, txn'[u].pc = "answered", NEW c \in CoidsOf(txn'[u].proposal),
             exch'[c] # Missing, c \notin abandoned
      PROVE  FollowableRow(txn'[u].rows[c])
  <2>1. CASE u = s
    BY <1>2, <1>4, <1>5, <1>6, <1>9, <2>1 DEF Taken
  <2>2. CASE u # s
    <3>1. txn'[u] = txn[u] /\ Busy(u) /\ c \in Coids /\ c \notin A
      BY <1>3, <1>4, <1>5, <1>9, <2>2 DEF Busy, CoidsOf
    <3> QED
      BY <1>5, <1>9, <3>1 DEF FollowInv, FlushedFollowable, Taken
  <2> QED
    BY <2>1, <2>2
<1>10. FlushedFollowable'
  BY <1>5, <1>9 DEF FlushedFollowable, Taken, CoidsOf
<1> QED
  BY <1>8, <1>10

\* The commit makes the flushed rows visible, and no other request is open on
\* the proposal.
LEMMA FinishFollowed ==
    ASSUME RailInv, FollowInv, NEW s \in Sessions, Finish(s)
    PROVE  FollowInv'
<1>1. SUFFICES ASSUME ~IdMayBeOmitted PROVE StillFollowed' /\ FlushedFollowable'
  BY DEF FollowInv
<1>2. txn'[s].pc = "idle" /\ \A u \in Sessions \ {s} : txn'[u] = txn[u]
  BY DEF Finish, RailInv, TypeOK, Idle
<1>3. /\ UNCHANGED <<exch, abandoned>> /\ txn[s].pc = "answered"
      /\ \A c \in Coids : rows'[c] = IF c \in CoidsOf(txn[s].proposal)
                                      THEN txn[s].rows[c] ELSE rows[c]
  BY DEF Finish, Committed
<1>4. StillFollowed'
  BY <1>1, <1>3 DEF FollowInv, StillFollowed, FlushedFollowable, Taken, FollowableRow
<1>5. FlushedFollowable'
  BY <1>1, <1>2, <1>3 DEF FollowInv, FlushedFollowable, Taken
<1> QED
  BY <1>4, <1>5

\* While the exchange names every order it takes, whatever approve_and_execute
\* leaves behind for an order it holds is something the worker can still follow:
\* an order id, or a status that recover_orphaned_orders asks about.
THEOREM OrdersFollowed == ~IdMayBeOmitted /\ Spec => []StillFollowed
<1>1. Init => FollowInv
  BY FollowInvInit
<1>2. ASSUME RailInv, FollowInv, [Next]_vars
      PROVE  FollowInv'
  <2>1. CASE UNCHANGED vars \/ ExpireStale \/ ToggleKill
    BY <1>2, <2>1, FollowStep DEF vars, ExpireStale, ToggleKill
  <2>2. ASSUME NEW s \in Sessions, Place(s)
        PROVE  FollowInv'
    BY <1>2, <2>2, RailAssumption, PlaceFollowed DEF FollowInv
  <2> QED
    BY <1>2, <2>1, <2>2, QueueFollowed, ClearFollowed, AbortFollowed, FinishFollowed
    DEF Next
<1>3. ~IdMayBeOmitted /\ FollowInv => StillFollowed
  BY DEF FollowInv
<1>4. Spec => []FollowInv
  BY <1>1, <1>2, RailInvariant, PTL DEF Spec
<1>5. CASE IdMayBeOmitted
  BY <1>5
<1>6. CASE ~IdMayBeOmitted
  <2>1. FollowInv => StillFollowed
    BY <1>3, <1>6
  <2> QED
    BY <1>4, <2>1, PTL
<1> QED
  BY <1>5, <1>6

-------------------------------------------------------------------------------
(* The rail implements ProposalDecision *)

LEMMA DecisionInit ==
    ASSUME RailAssumption, Init
    PROVE  Decision!Init
<1>1. \A p \in Proposals : ~InFlight(p)
  BY DEF Init, InFlight, Idle
<1>2. DecisionStatus = [p \in Proposals |-> "absent"]
  BY <1>1 DEF Init, DecisionStatus
<1>3. {c \in Coids : Taken(c)} = {}
  BY DEF Init, Taken
<1> QED
  BY <1>2, <1>3 DEF Init, Decision!Init

\* What a reader of the abstract status sees of a held and of a free proposal.
LEMMA DecisionStatusOf ==
    ASSUME RailInv, NEW p \in Proposals
    PROVE  /\ InFlight(p) => DecisionStatus[p] = "approved" /\ status[p] = "pending"
           /\ ~InFlight(p) => DecisionStatus[p] = status[p]
           /\ InFlight(p) => Locked(p)
  BY DEF RailInv, OneHolder, DecisionStatus, InFlight, Busy, Locked

\* A step that changes neither what is in flight, nor the status, nor what the
\* exchange holds is not seen.
LEMMA Unseen ==
    ASSUME \A p \in Proposals : InFlight(p)' <=> InFlight(p),
           UNCHANGED <<status, exch, abandoned>>
    PROVE  UNCHANGED Decision!vars
<1>1. DecisionStatus' = DecisionStatus
  BY DEF DecisionStatus
<1>2. {c \in Coids : Taken(c)}' = {c \in Coids : Taken(c)}
  BY DEF Taken
<1> QED
  BY <1>1, <1>2 DEF Decision!vars

LEMMA CreateDecides ==
    ASSUME RailInv, NEW p \in Proposals, Create(p)
    PROVE  Decision!Create(p)
<1>1. ~InFlight(p) /\ status[p] = "absent"
  BY DEF Create, RailInv, OneHolder, InFlight, Busy
<1>2. \A q \in Proposals : InFlight(q)' <=> InFlight(q)
  BY DEF Create, InFlight
<1>3. status' = [status EXCEPT ![p] = "pending"] /\ status \in [Proposals -> Status]
  BY DEF Create, RailInv, TypeOK
<1>4. DecisionStatus' = [DecisionStatus EXCEPT ![p] = "pending"]
  BY <1>1, <1>2, <1>3 DEF DecisionStatus
<1>5. DecisionStatus[p] = "absent"
  BY <1>1 DEF DecisionStatus
<1>6. {c \in Coids : Taken(c)}' = {c \in Coids : Taken(c)} /\ abandoned' = abandoned
  BY DEF Create, Taken
<1> QED
  BY <1>4, <1>5, <1>6 DEF Decision!Create

\* Rejection and expiry decline exactly the proposals they change.
LEMMA DeclineDecides ==
    ASSUME RailInv, NEW P \in SUBSET Proposals, NEW d \in {"rejected", "expired"},
           \A p \in P : status[p] = "pending" /\ ~Locked(p),
           status' = [p \in Proposals |-> IF p \in P THEN d ELSE status[p]],
           UNCHANGED <<exch, txn, abandoned>>
    PROVE  Decision!Decline(P)
<1>1. \A p \in Proposals : InFlight(p)' <=> InFlight(p)
  BY DEF InFlight
<1>2. \A p \in P : ~InFlight(p)
  BY DecisionStatusOf
<1>3. \A p \in P : DecisionStatus[p] = "pending"
  BY <1>2 DEF DecisionStatus
<1>4. DecisionStatus' = [p \in Proposals |-> IF p \in P THEN d ELSE DecisionStatus[p]]
  BY <1>1, <1>2 DEF DecisionStatus
<1>5. {c \in Coids : Taken(c)}' = {c \in Coids : Taken(c)}
  BY DEF Taken
<1> QED
  BY <1>3, <1>4, <1>5 DEF Decision!Decline

LEMMA PlaceDecides ==
    ASSUME RailInv, NEW s \in Sessions, Place(s),
           NEW p \in Proposals, txn[s].proposal = p
    PROVE  Decision!Approve(p)
<1>1. PICK A \in SUBSET Coids : PlaceEffect(s, A)
  BY RailAssumption, PlacingEffect DEF RailInv
<1>2. txn[s].pc = "cleared" /\ p \in Proposals /\ status[p] = "pending"
  BY DEF Place, RailInv, OneHolder, Busy
<1>3. ~InFlight(p)
  BY <1>2 DEF RailInv, OneHolder, InFlight, Busy
<1>4. /\ txn'[s].pc = "answered" /\ txn'[s].proposal = p
      /\ \A u \in Sessions \ {s} : txn'[u] = txn[u]
  BY <1>1 DEF PlaceEffect, RailInv, TypeOK
<1>5. InFlight(p)' /\ \A q \in Proposals \ {p} : InFlight(q)' <=> InFlight(q)
  BY <1>4 DEF InFlight
<1>6. DecisionStatus[p] = "pending"
  BY <1>2, <1>3 DEF DecisionStatus
<1>7. DecisionStatus' = [DecisionStatus EXCEPT ![p] = "approved"]
  BY <1>1, <1>2, <1>5 DEF DecisionStatus, PlaceEffect
<1>8. {c \in Coids : Taken(c)}' = {c \in Coids : Taken(c)} \cup A
  BY <1>1 DEF PlaceEffect, Taken, RailInv, TypeOK
<1>9. A \in SUBSET Decision!Legs(p) /\ abandoned' = abandoned
  BY <1>1 DEF PlaceEffect, CoidsOf, Decision!Legs
<1> QED
  BY <1>6, <1>7, <1>8, <1>9 DEF Decision!Approve

LEMMA FinishDecides ==
    ASSUME RailInv, NEW s \in Sessions, Finish(s),
           NEW p \in Proposals, txn[s].proposal = p
    PROVE  Decision!Conclude(p)
<1>1. InFlight(p) /\ p \in Proposals
  BY DEF Finish, RailInv, OneHolder, InFlight, Busy
<1>2. txn'[s].pc = "idle" /\ \A u \in Sessions \ {s} : txn'[u] = txn[u]
  BY DEF Finish, RailInv, TypeOK, Idle
<1>3. ~InFlight(p)' /\ \A q \in Proposals \ {p} : InFlight(q)' <=> InFlight(q)
  BY <1>2 DEF Finish, RailInv, OneHolder, InFlight, Busy
<1>4. PICK o \in Outcome : status' = [status EXCEPT ![p] = o]
  <2>1. "failed" \in Outcome
    BY DEF Outcome
  <2> QED
    BY <2>1, OutcomeIsOutcome DEF Finish
<1>5. DecisionStatus' = [DecisionStatus EXCEPT ![p] = o]
  BY <1>1, <1>3, <1>4 DEF DecisionStatus, RailInv, TypeOK
<1>6. DecisionStatus[p] = "approved" /\ o \in Decision!Outcome
  BY <1>1, <1>4 DEF DecisionStatus, Decision!Outcome, Outcome
<1>7. {c \in Coids : Taken(c)}' = {c \in Coids : Taken(c)} /\ abandoned' = abandoned
  BY DEF Finish, Taken
<1> QED
  BY <1>5, <1>6, <1>7 DEF Decision!Conclude

\* A transaction lost before anything was sent is not seen; one lost with its
\* answer takes the approval back and gives up the orders it placed.
LEMMA AbortDecides ==
    ASSUME RailInv, NEW s \in Sessions, Abort(s),
           NEW p \in Proposals, txn[s].proposal = p
    PROVE  Decision!Lose(p) \/ UNCHANGED Decision!vars
<1>1. Busy(s) /\ p \in Proposals /\ status[p] = "pending"
  BY DEF Abort, RailInv, OneHolder
<1>2. txn'[s].pc = "idle" /\ \A u \in Sessions \ {s} : txn'[u] = txn[u]
  BY DEF Abort, RailInv, TypeOK, Idle
<1>3. ~InFlight(p)' /\ \A q \in Proposals \ {p} : InFlight(q)' <=> InFlight(q)
  BY <1>1, <1>2 DEF RailInv, OneHolder, InFlight, Busy
<1>4. {c \in Coids : Taken(c)}' = {c \in Coids : Taken(c)} /\ status' = status
  BY DEF Abort, Taken
<1>5. CASE InFlight(p)
  <2>1. DecisionStatus[p] = "approved"
    BY <1>1, <1>5 DEF DecisionStatus
  <2>2. DecisionStatus' = [DecisionStatus EXCEPT ![p] = "pending"]
    BY <1>1, <1>3, <1>4 DEF DecisionStatus
  <2>3. abandoned' = abandoned \cup ({c \in Coids : Taken(c)} \cap Decision!Legs(p))
    BY DEF Abort, CoidsOf, Decision!Legs
  <2> QED
    BY <1>4, <2>1, <2>2, <2>3 DEF Decision!Lose
<1>6. CASE ~InFlight(p)
  <2>1. abandoned' = abandoned
    BY <1>1, <1>6 DEF Abort, RailInv, OrderAccountedFor, CoidsOf, Outcome
  <2>2. \A q \in Proposals : InFlight(q)' <=> InFlight(q)
    BY <1>3, <1>6
  <2> QED
    BY <1>4, <2>1, <2>2, Unseen DEF Abort
<1> QED
  BY <1>5, <1>6

LEMMA DecisionNext ==
    ASSUME RailInv, [Next]_vars
    PROVE  [Decision!Next]_(Decision!vars)
<1> USE DEF Decision!Next
<1>1. CASE UNCHANGED vars
  <2>1. \A p \in Proposals : InFlight(p)' <=> InFlight(p)
    BY <1>1 DEF InFlight, vars
  <2> QED
    BY <1>1, <2>1, Unseen DEF vars
<1>2. ASSUME NEW p \in Proposals, Create(p)
      PROVE  Decision!Next
  BY <1>2, CreateDecides
<1>3. ASSUME NEW p \in Proposals, NEW s \in Sessions, Clear(s, p)
      PROVE  UNCHANGED Decision!vars
  <2>1. /\ txn[s].pc # "answered" /\ txn'[s].pc # "answered"
        /\ \A u \in Sessions \ {s} : txn'[u] = txn[u]
    BY <1>3 DEF Clear, Busy, RailInv, TypeOK
  <2>2. \A q \in Proposals : InFlight(q)' <=> InFlight(q)
    BY <2>1 DEF InFlight
  <2> QED
    BY <1>3, <2>2, Unseen DEF Clear
<1>4. ASSUME NEW p \in Proposals, Reject(p)
      PROVE  Decision!Next
  <2>1. status' = [q \in Proposals |-> IF q \in {p} THEN "rejected" ELSE status[q]]
    BY <1>4 DEF Reject, RailInv, TypeOK
  <2>2. Decision!Decline({p})
    BY <1>4, <2>1, DeclineDecides DEF Reject
  <2> QED
    BY <2>2
<1>5. CASE ExpireStale
  <2>1. Decision!Decline(Stale)
    BY <1>5, DeclineDecides DEF ExpireStale, Stale
  <2>2. Stale \in SUBSET Proposals
    BY DEF Stale
  <2> QED
    BY <2>1, <2>2
<1>6. ASSUME NEW s \in Sessions, Place(s) \/ Finish(s) \/ Abort(s)
      PROVE  Decision!Next \/ UNCHANGED Decision!vars
  <2>1. PICK p \in Proposals : txn[s].proposal = p
    BY <1>6 DEF Place, Finish, Abort, RailInv, OneHolder, Busy
  <2> QED
    BY <1>6, <2>1, PlaceDecides, FinishDecides, AbortDecides
<1>7. ASSUME ToggleKill \/ \E p \in Proposals : Elapse(p)
      PROVE  UNCHANGED Decision!vars
  <2>1. UNCHANGED <<txn, status, exch, abandoned>>
    BY <1>7 DEF ToggleKill, Elapse
  <2> QED
    BY <2>1, Unseen DEF InFlight
<1> QED
  BY <1>1, <1>2, <1>3, <1>4, <1>5, <1>6, <1>7 DEF Next

\* Every behaviour of the rail, with its concurrent requests, lost answers and
\* lost transactions, is one that ProposalDecision allows.
THEOREM RailImplementsDecision == Spec => ImplementsDecision
<1>1. Init => Decision!Init
  BY RailAssumption, DecisionInit
<1>2. RailInv /\ [Next]_vars => [Decision!Next]_(Decision!vars)
  BY DecisionNext
<1> QED
  BY <1>1, <1>2, RailInvariant, PTL DEF Spec, ImplementsDecision, Decision!Spec

===============================================================================
