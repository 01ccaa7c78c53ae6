----------------------------- MODULE ApprovalRail -----------------------------
(***************************************************************************)
(* The execution rail of backend/app/trading/executor.py: how concurrent   *)
(* requests (the approve endpoint, the autonomy sweep) turn a pending      *)
(* proposal into orders, against rejections, expiry, the kill switch, an   *)
(* exchange that may answer, refuse or stay silent, and a process that may *)
(* die or roll back with its transaction open.                             *)
(*                                                                         *)
(* status, rows and audit are COMMITTED database state.  What a request    *)
(* has flushed but not committed lives in txn and is lost by Abort.  The   *)
(* row lock a request takes (SELECT ... FOR UPDATE) is held exactly while  *)
(* its txn is not idle, so it is derived, not stored.                      *)
(***************************************************************************)
EXTENDS Integers, FiniteSets

CONSTANTS
    Proposals,
    Coids,          \* client order ids: one per leg, derived from (proposal, seq)
    ProposalOf,     \* [Coids -> Proposals]
    Sessions,       \* requests that may be approving at the same time
    Contracts,      \* contracts in every leg
    TimeInForce,    \* config trading.order.time_in_force, for a single leg
    Simulated,      \* the proposals resolve_route sends to the simulated book
    IdMayBeOmitted, \* EXTERNAL: a create response may carry no order_id
    MaxAborts,      \* bound: transactions lost after the row lock was taken
    NoProposal

ASSUME RailAssumption ==
    /\ ProposalOf \in [Coids -> Proposals]
    /\ Contracts \in Nat \ {0}
    /\ TimeInForce \in {"gtc", "ioc"}
    /\ Simulated \subseteq Proposals
    /\ IdMayBeOmitted \in BOOLEAN
    /\ MaxAborts \in Nat
    /\ NoProposal \notin Proposals

VARIABLES
    status,     \* committed ProposalStatus, or "absent" before it is created
    due,        \* expires_at has passed
    rows,       \* committed Order rows, by client order id
    audit,      \* committed audit rows: how many of each kind per proposal
    kill,       \* the kill switch flag in Redis
    exch,       \* EXTERNAL: contracts filled on arrival, of the orders taken
    txn,        \* the open transaction of each session
    aborts,     \* transactions lost so far (bounded by MaxAborts)
    abandoned   \* history: ids the exchange holds whose transaction was lost

vars == <<status, due, rows, audit, kill, exch, txn, aborts, abandoned>>

-------------------------------------------------------------------------------
(* Values *)

Outcome == {"executed", "partial", "failed"}
Status == {"absent", "pending", "rejected", "expired"} \cup Outcome
OrderStatus == {"pending", "resting", "partially_filled", "filled", "canceled", "rejected"}

Missing == -1

Row == [status : OrderStatus, linked : BOOLEAN, filled : 0 .. Contracts]
NoRow == [status |-> "none", linked |-> FALSE, filled |-> 0]
Unlinked(st) == [status |-> st, linked |-> FALSE, filled |-> 0]

AuditKind == {"approved", "rejected", "expired", "order_failed", "submit_ambiguous"}

NoRows == [c \in Coids |-> NoRow]
Idle == [pc |-> "idle", proposal |-> NoProposal, answer |-> "none", rows |-> NoRows]
Txn == [pc : {"idle", "cleared", "answered"}, proposal : Proposals \cup {NoProposal},
        answer : {"none", "reply", "refused", "unclear"},
        rows : [Coids -> Row \cup {NoRow}]]

TypeOK ==
    /\ status \in [Proposals -> Status]
    /\ due \in [Proposals -> BOOLEAN]
    /\ rows \in [Coids -> Row \cup {NoRow}]
    /\ audit \in [Proposals -> [AuditKind -> Nat]]
    /\ kill \in BOOLEAN
    /\ exch \in [Coids -> (0 .. Contracts) \cup {Missing}]
    /\ txn \in [Sessions -> Txn]
    /\ aborts \in Nat
    /\ abandoned \subseteq Coids

-------------------------------------------------------------------------------
(* The proposal's legs, its lock and its outcome *)

CoidsOf(p) == {c \in Coids : ProposalOf[c] = p}
SingleLeg(p) == \A c, d \in CoidsOf(p) : c = d
Tif(p) == IF SingleLeg(p) THEN TimeInForce ELSE "ioc"

Busy(s) == txn[s].pc # "idle"
Locked_Never(p) == FALSE
Locked(p) == \E s \in Sessions : Busy(s) /\ txn[s].proposal = p

Taken(c) == exch[c] # Missing

Log(p, K) == [audit EXCEPT ![p] = [k \in AuditKind |-> @[k] + IF k \in K THEN 1 ELSE 0]]

\* _settle_status: an order's status from what filled on arrival.
SettleStatus(p, n) ==
    IF n >= Contracts THEN "filled"
    ELSE IF Tif(p) = "ioc" THEN "canceled"
    ELSE IF n > 0 THEN "partially_filled" ELSE "resting"

\* Rows of p that all look like r.
FlushedRows(p, r) == [c \in Coids |-> IF c \in CoidsOf(p) THEN r ELSE NoRow]

\* A leg whose result the failure branch of _place_legs cannot tell.
NotApplied_Closed(id) == [status |-> "canceled", linked |-> id, filled |-> 0]
NotApplied(id) == [status |-> "pending", linked |-> id, filled |-> 0]

Settled(p, n, id) == [status |-> SettleStatus(p, n), linked |-> id, filled |-> n]

\* _apply_response: the rows one result of a create request can lead to, for an
\* order the exchange took and filled n contracts of.
Applied(p, n) == {Settled(p, n, id) : id \in IF IdMayBeOmitted THEN BOOLEAN ELSE {TRUE}}

\* The row of a leg that did not go on: no result in the batch, or one with
\* neither an order id nor a fill.
NotOn(p) == {Unlinked("rejected"), Unlinked(SettleStatus(p, 0))}

\* _outcome: what the legs amount to together.
OutcomeOf(p, R) ==
    LET C == CoidsOf(p)
        Filled == {c \in C : R[c].filled > 0}
    IN  IF \A c \in C : R[c].status = "rejected" THEN "failed"
        ELSE IF SingleLeg(p) \/ Filled \in {{}, C} THEN "executed"
        ELSE "partial"

-------------------------------------------------------------------------------
Init ==
    /\ status = [p \in Proposals |-> "absent"]
    /\ due = [p \in Proposals |-> FALSE]
    /\ rows = NoRows
    /\ audit = [p \in Proposals |-> [k \in AuditKind |-> 0]]
    /\ kill = FALSE
    /\ exch = [c \in Coids |-> Missing]
    /\ txn = [s \in Sessions |-> Idle]
    /\ aborts = 0
    /\ abandoned = {}

(* The queue *)

\* create_proposal.  Its callers read the kill switch before they start, the
\* detector loop once per scan, so the insert may come after the flag is set.
Create(p) ==
    /\ status[p] = "absent"
    /\ status' = [status EXCEPT ![p] = "pending"]
    /\ UNCHANGED <<due, rows, audit, kill, exch, txn, aborts, abandoned>>

\* The clock passes a pending proposal's expires_at.
Elapse(p) ==
    /\ status[p] = "pending" /\ ~due[p]
    /\ due' = [due EXCEPT ![p] = TRUE]
    /\ UNCHANGED <<status, rows, audit, kill, exch, txn, aborts, abandoned>>

\* expire_stale, from the worker's sweep or GET /proposals: one conditional
\* UPDATE.  It waits for a row an approval holds and looks at it again after the
\* commit, which is the next ExpireStale step.
Stale_IgnoringLock == {p \in Proposals : status[p] = "pending" /\ due[p]}
Stale == {p \in Proposals : status[p] = "pending" /\ due[p] /\ ~Locked(p)}

ExpireStale ==
    /\ Stale # {}
    /\ status' = [p \in Proposals |-> IF p \in Stale THEN "expired" ELSE status[p]]
    /\ audit' = [p \in Proposals |->
                    IF p \in Stale THEN Log(p, {"expired"})[p] ELSE audit[p]]
    /\ UNCHANGED <<due, rows, kill, exch, txn, aborts, abandoned>>

\* reject: takes the same row lock, re-reads the status, commits.
Reject(p) ==
    /\ ~Locked(p)
    /\ status[p] = "pending"
    /\ status' = [status EXCEPT ![p] = "rejected"]
    /\ audit' = Log(p, {"rejected"})
    /\ UNCHANGED <<due, rows, kill, exch, txn, aborts, abandoned>>

\* POST /kill-switch, as far as approvals see it: the shared flag.
ToggleKill ==
    /\ kill' = ~kill
    /\ UNCHANGED <<status, due, rows, audit, exch, txn, aborts, abandoned>>

(* The approval *)

\* approve_and_execute up to the wire: take the row lock, read the committed
\* row, pass check_execution and guard_approval (which may refuse for reasons
\* this module leaves out: then the step is not taken), find no order yet.  The
\* APPROVED status, the Order rows and the audit rows are only flushed.
Clear(s, p) ==
    /\ ~Busy(s)
    /\ ~Locked(p)
    /\ ~kill
    /\ status[p] = "pending"
    /\ ~due[p]
    /\ \A c \in CoidsOf(p) : rows[c] = NoRow
    /\ txn' = [txn EXCEPT ![s] =
                 [pc |-> "cleared", proposal |-> p, answer |-> "none",
                  rows |-> FlushedRows(p, Unlinked("pending"))]]
    /\ UNCHANGED <<status, due, rows, audit, kill, exch, aborts, abandoned>>

\* The request is over: R are the rows its legs are flushed with.
Answered(s, a, R) ==
    txn' = [txn EXCEPT ![s] =
              [pc |-> "answered", proposal |-> txn[s].proposal, answer |-> a, rows |-> R]]

\* _fill_exchange(_batch) with the failure branch of _place_legs.  EXTERNAL: the
\* exchange takes the legs in A - never one whose client order id it already has
\* - and a batch is not atomic.  The code applies the results of the legs in B:
\* all of them, or none (no answer came: a timeout, a 5xx, a dropped connection),
\* or those before a result it cannot parse, whose order id it noted all the same
\* (id).  Whatever was not applied stays PENDING.  Nothing is ever sent twice.
Deliver(s) ==
    LET p == txn[s].proposal
        C == CoidsOf(p)
    IN
    \E A \in SUBSET {c \in C : ~Taken(c)}, B \in SUBSET C :
    \E id \in SUBSET (A \ B), f \in [A -> 0 .. Contracts] :
    \E R \in [B -> (UNION {Applied(p, f[c]) : c \in A}) \cup NotOn(p)] :
        /\ \A c, d \in id : c = d
        /\ SingleLeg(p) => B \cup id \subseteq A
        /\ \A c \in B : IF c \in A THEN R[c] \in Applied(p, f[c])
                        ELSE R[c] \in NotOn(p)
        /\ exch' = [c \in Coids |-> IF c \in A THEN f[c] ELSE exch[c]]
        /\ Answered(s, IF B = C THEN "reply" ELSE "unclear",
                    [c \in Coids |-> IF c \in B THEN R[c]
                                     ELSE IF c \in C THEN NotApplied(c \in id)
                                     ELSE NoRow])

\* EXTERNAL: a 4xx, the exchange saying it did not accept this (a bad price, or
\* a client order id it has already seen).
Refuse(s) ==
    /\ Answered(s, "refused", FlushedRows(txn[s].proposal, Unlinked("rejected")))
    /\ UNCHANGED exch

\* _fill_simulated, leg by leg: fills from the current book, rests if there is
\* no book, stays PENDING if an earlier leg or its own book read failed.
Simulate(s) ==
    LET p == txn[s].proposal
        C == CoidsOf(p)
        Fill == {Settled(p, n, FALSE) : n \in 0 .. Contracts} \cup {Unlinked("resting")}
    IN
    \E B \in SUBSET C : \E R \in [B -> Fill] :
        /\ Answered(s, IF B = C THEN "reply" ELSE "unclear",
                    [c \in Coids |-> IF c \in B THEN R[c]
                                     ELSE IF c \in C THEN NotApplied(FALSE)
                                     ELSE NoRow])
        /\ UNCHANGED exch

Place(s) ==
    /\ txn[s].pc = "cleared"
    /\ IF txn[s].proposal \in Simulated THEN Simulate(s) ELSE Deliver(s) \/ Refuse(s)
    /\ UNCHANGED <<status, due, rows, audit, kill, aborts, abandoned>>

\* The rows the caller's commit makes visible: it commits on success and on
\* ExecutionError alike.
Committed_OnSuccess(s) ==
    [c \in Coids |-> IF c \in CoidsOf(txn[s].proposal) /\ txn[s].answer = "reply"
                     THEN txn[s].rows[c] ELSE rows[c]]
Committed(s) ==
    [c \in Coids |-> IF c \in CoidsOf(txn[s].proposal) THEN txn[s].rows[c] ELSE rows[c]]

\* The rest of approve_and_execute and that commit.
Finish(s) ==
    LET t == txn[s]
        p == t.proposal
    IN
    /\ t.pc = "answered"
    /\ rows' = Committed(s)
    /\ status' = [status EXCEPT ![p] =
                    IF t.answer = "reply" THEN OutcomeOf(p, t.rows) ELSE "failed"]
    /\ audit' = Log(p, {"approved"} \cup
                       (CASE t.answer = "unclear" -> {"submit_ambiguous"}
                          [] t.answer = "refused" -> {"order_failed"}
                          [] OTHER -> {}))
    /\ txn' = [txn EXCEPT ![s] = Idle]
    /\ UNCHANGED <<due, kill, exch, aborts, abandoned>>

\* The process dies, or an exception rolls the transaction back: everything
\* flushed is gone and the lock is free.  What the exchange did stays done.
Abort(s) ==
    /\ Busy(s)
    /\ aborts < MaxAborts
    /\ aborts' = aborts + 1
    /\ abandoned' = abandoned \cup {c \in CoidsOf(txn[s].proposal) : Taken(c)}
    /\ txn' = [txn EXCEPT ![s] = Idle]
    /\ UNCHANGED <<status, due, rows, audit, kill, exch>>

Next ==
    \/ \E p \in Proposals : Create(p) \/ Elapse(p) \/ Reject(p)
    \/ ExpireStale
    \/ ToggleKill
    \/ \E s \in Sessions, p \in Proposals : Clear(s, p)
    \/ \E s \in Sessions : Place(s) \/ Finish(s) \/ Abort(s)

Spec == Init /\ [][Next]_vars

-------------------------------------------------------------------------------
(* What must hold *)

InFlight(p) == \E s \in Sessions : txn[s].pc = "answered" /\ txn[s].proposal = p

\* However many approvals, rejections and expiry sweeps race for a proposal, the
\* audit trail tells of one decision, the one its status shows: approve, reject
\* and expire_stale never both win (executor.py's row lock, expire_stale's
\* conditional UPDATE).
DecidedOnce ==
    \A p \in Proposals :
        /\ audit[p]["approved"] = IF status[p] \in Outcome THEN 1 ELSE 0
        /\ audit[p]["rejected"] = IF status[p] = "rejected" THEN 1 ELSE 0
        /\ audit[p]["expired"] = IF status[p] = "expired" THEN 1 ELSE 0

\* An order at the exchange has a committed Order row under its client order id,
\* or the request that placed it is still open - unless that request's
\* transaction was lost.  It needs the commit that the callers do on a failed
\* placement too (trading.py's approve route).
EveryOrderRecorded ==
    \A c \in Coids : Taken(c) =>
        rows[c] # NoRow \/ InFlight(ProposalOf[c]) \/ c \in abandoned

\* Whatever approve_and_execute leaves behind for an order the exchange holds is
\* something the worker can still follow: a row with the exchange's order id, or
\* one that recover_orphaned_orders asks about (PENDING or REJECTED without id).
StillFollowed ==
    \A c \in Coids :
        Taken(c) /\ rows[c] # NoRow /\ c \notin abandoned
            => rows[c].linked \/ rows[c].status \in {"pending", "rejected"}

\* A proposal nobody approved has nothing at the exchange: the legs of a pending,
\* rejected or expired proposal were never placed, except by the open request
\* that is about to decide it or by a lost one.  ImplementsDecision contains it.
NoTradeWithoutApproval ==
    \A c \in Coids :
        Taken(c) /\ status[ProposalOf[c]] \notin Outcome
            => \/ c \in abandoned
               \/ status[ProposalOf[c]] = "pending" /\ InFlight(ProposalOf[c])

\* The rail implements what it promises: a request that has its answer but has
\* not committed holds the proposal as "approved", for good unless it is lost.
DecisionStatus == [p \in Proposals |-> IF InFlight(p) THEN "approved" ELSE status[p]]

Decision == INSTANCE ProposalDecision
                WITH status <- DecisionStatus,
                     placed <- {c \in Coids : Taken(c)},
                     lost <- abandoned

ImplementsDecision == Decision!Spec

(* What the documentation says of the rail and the code does not do *)

\* executor.py: an order that may exist at the exchange has a record to find it
\* by even if the process dies between writing the Order row and placing: once no
\* request is open on the proposal any more, a committed row tells of the order.
RecordSurvivesCrash ==
    \A c \in Coids : Taken(c) /\ ~Locked(ProposalOf[c]) => rows[c] # NoRow

===============================================================================
