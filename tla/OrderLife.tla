------------------------------ MODULE OrderLife -------------------------------
(***************************************************************************)
(* One order after its placement was committed, on an exchange route: the  *)
(* worker's sweep (backend/app/worker/maintenance.py) recovers, reconciles *)
(* and retires it, while the operator's cancel and the kill switch in the  *)
(* API process (Executor.cancel) work on the same row, and the exchange    *)
(* goes on filling it.                                                     *)
(*                                                                         *)
(* The sweep is one long transaction of many awaits: it loads the row once *)
(* (base), changes its own copy (view) and writes back, at its commit, the *)
(* columns that differ - SQLAlchemy's UPDATE.                              *)
(***************************************************************************)
EXTENDS Integers, FiniteSets

CONSTANTS
    Size,           \* contracts ordered; the exchange fills them one by one
    Cancellers,     \* API requests that may be cancelling at the same time
    MaxAttempts,    \* MAX_ORPHAN_ATTEMPTS
    MaxFaults       \* bound: aborted sweeps and worker restarts

ASSUME OrderAssumption ==
    /\ Size \in Nat \ {0}
    /\ MaxAttempts \in Nat \ {0}
    /\ MaxFaults \in Nat

VARIABLES
    row,        \* the committed Order row
    imm,        \* contracts recorded at placement, under "<coid>-immediate"
    fills,      \* committed Fill rows that carry a fill id of the exchange
    exch,       \* EXTERNAL: the order at the exchange, and its fills 1..filled
    kill,       \* the kill switch flag
    aged,       \* older than order.auto_cancel_after_sec
    old,        \* older than ORPHAN_LOOKBACK_SEC
    attempts,   \* _orphan_attempts of the running worker process
    sweep,      \* the worker's sweep_orders, as far as it got
    cancel,     \* Executor.cancel in each API request
    known,      \* history: the row had the exchange's order id from the start
    faults      \* sweeps lost so far (bounded by MaxFaults)

record == <<row, imm, fills>>
clock == <<kill, aged, old, known>>
worker == <<sweep, attempts, faults>>
vars == <<record, exch, clock, worker, cancel>>

-------------------------------------------------------------------------------
(* Values *)

Live_WithoutPartial == {"pending", "resting"}
Live == {"pending", "resting", "partially_filled"}      \* LIVE_ORDER_STATUSES
OrderStatus == Live \cup {"filled", "canceled", "rejected"}

Contracts == 0 .. 2 * Size
Row == [status : OrderStatus, linked : BOOLEAN, filled : Contracts]
FillIds == 1 .. Size

ExchState == {"none", "resting", "executed", "canceled"}

SweepPc == {"idle", "lookup", "select", "fills", "status", "retire", "commit"}
Sweep == [pc : SweepPc, due : BOOLEAN, adopted : BOOLEAN, base : Row, view : Row,
          new : SUBSET FillIds]

CancelPc == {"idle", "delete", "commit"}

TypeOK ==
    /\ row \in Row
    /\ imm \in 0 .. Size
    /\ fills \subseteq FillIds
    /\ exch \in [state : ExchState, filled : 0 .. Size]
    /\ kill \in BOOLEAN /\ aged \in BOOLEAN /\ old \in BOOLEAN
    /\ known \in BOOLEAN
    /\ attempts \in 0 .. MaxAttempts
    /\ sweep \in Sweep
    /\ cancel \in [Cancellers -> CancelPc]
    /\ faults \in 0 .. MaxFaults

-------------------------------------------------------------------------------
(* What the rail leaves behind (executor.py: _apply_response, _settle_status *)
(* and the failure branch of _place_legs)                                    *)

Book(tif, n) ==
    [filled |-> n, state |-> IF n = Size THEN "executed"
                             ELSE IF tif = "ioc" THEN "canceled" ELSE "resting"]

Settled(tif, n) == IF n = Size THEN "filled"
                   ELSE IF tif = "ioc" THEN "canceled"
                   ELSE IF n > 0 THEN "partially_filled" ELSE "resting"

\* The answer was applied: what filled on arrival is on record.
PlacedAnswered(tif, n) ==
    /\ row = [status |-> Settled(tif, n), linked |-> TRUE, filled |-> n]
    /\ imm = n
    /\ exch = Book(tif, n)

\* No usable answer, or a refusal (of an id the exchange has already seen, if it
\* holds an order): the row knows of no fill, and of an id only if it was read
\* before the rest of the answer failed to parse.
PlacedUnanswered(tif, n) ==
    /\ \E st \in {"pending", "rejected"}, id \in BOOLEAN :
          /\ row = [status |-> st, linked |-> id, filled |-> 0]
          /\ id => st = "pending"
          /\ \/ exch = Book(tif, n)
             \/ ~id /\ exch = [state |-> "none", filled |-> 0]
    /\ imm = 0

\* A sweep that has loaded the row r.
Loaded(r) == [pc |-> "idle", due |-> FALSE, adopted |-> FALSE, base |-> r, view |-> r,
              new |-> {}]
NoSweep == Loaded([status |-> "pending", linked |-> FALSE, filled |-> 0])

Init ==
    /\ \E tif \in {"gtc", "ioc"}, n \in 0 .. Size :
          PlacedAnswered(tif, n) \/ PlacedUnanswered(tif, n)
    /\ fills = {}
    /\ kill = FALSE /\ aged = FALSE /\ old = FALSE
    /\ attempts = 0
    /\ sweep = NoSweep
    /\ cancel = [c \in Cancellers |-> "idle"]
    /\ known = row.linked
    /\ faults = 0

-------------------------------------------------------------------------------
(* The environment *)

\* EXTERNAL: a resting order fills, contract by contract.
Fill ==
    /\ exch.state = "resting"
    /\ exch' = [filled |-> exch.filled + 1,
                state |-> IF exch.filled + 1 = Size THEN "executed" ELSE "resting"]
    /\ UNCHANGED <<record, clock, worker, cancel>>

\* EXTERNAL: the exchange closes a resting order of its own accord (the market
\* closes).
Close ==
    /\ exch.state = "resting"
    /\ exch' = [exch EXCEPT !.state = "canceled"]
    /\ UNCHANGED <<record, clock, worker, cancel>>

Age ==
    /\ \/ ~aged /\ aged' = TRUE /\ UNCHANGED old
       \/ aged /\ ~old /\ old' = TRUE /\ UNCHANGED aged
    /\ UNCHANGED <<record, exch, kill, known, worker, cancel>>

\* POST /kill-switch sets the flag first; its cancels are those below.
ToggleKill ==
    /\ kill' = ~kill
    /\ UNCHANGED <<record, exch, aged, old, known, worker, cancel>>

\* DELETE at the exchange: what the answer is worth, and the order after it.  The
\* answer of a cancel that worked may be lost; 404 is all a closed order gets.
Deletes(answer) ==
    IF exch.state = "resting"
    THEN \/ answer = "ok" /\ exch' = [exch EXCEPT !.state = "canceled"]
         \/ answer = "error" /\ exch' \in {exch, [exch EXCEPT !.state = "canceled"]}
    ELSE answer \in {"404", "error"} /\ UNCHANGED exch

\* Executor.cancel: anything but success and 404 is raised.
Gone_OnAnyAnswer(answer) == TRUE
Gone(answer) == answer \in {"ok", "404"}

-------------------------------------------------------------------------------
(* The operator's cancel, and the kill switch's, in the API process *)

\* Read the row; an order that is not live is left alone, one without the
\* exchange's id is canceled without asking the exchange.
CancelRead(c) ==
    /\ cancel[c] = "idle"
    /\ row.status \in Live
    /\ cancel' = [cancel EXCEPT ![c] = IF row.linked THEN "delete" ELSE "commit"]
    /\ UNCHANGED <<record, exch, clock, worker>>

\* A cancel that is raised changes nothing.
CancelDelete(c) ==
    /\ cancel[c] = "delete"
    /\ \E answer \in {"ok", "404", "error"} :
          /\ Deletes(answer)
          /\ cancel' = [cancel EXCEPT ![c] = IF Gone(answer) THEN "commit" ELSE "idle"]
    /\ UNCHANGED <<record, clock, worker>>

CancelCommit(c) ==
    /\ cancel[c] = "commit"
    /\ row' = [row EXCEPT !.status = "canceled"]
    /\ cancel' = [cancel EXCEPT ![c] = "idle"]
    /\ UNCHANGED <<imm, fills, exch, clock, worker>>

\* The API process dies, or rolls back.
CancelAbort(c) ==
    /\ cancel[c] # "idle"
    /\ cancel' = [cancel EXCEPT ![c] = "idle"]
    /\ UNCHANGED <<record, exch, clock, worker>>

-------------------------------------------------------------------------------
(* The worker's sweep *)

\* sweep_orders reads the clock and the kill switch once, before everything.
Retire_AgeOnly == aged
Retire == kill \/ aged

\* recover_orphaned_orders asks about this row: no id, PENDING or REJECTED, young
\* enough and not asked about too often by this process.
Orphan ==
    /\ ~row.linked
    /\ row.status \in {"pending", "rejected"}
    /\ ~old
    /\ attempts < MaxAttempts

SweepBegin ==
    /\ sweep.pc = "idle"
    /\ sweep' = [Loaded(row) EXCEPT !.pc = IF Orphan THEN "lookup" ELSE "select",
                                    !.due = Retire]
    /\ attempts' = IF Orphan THEN attempts + 1 ELSE attempts
    /\ UNCHANGED <<record, exch, clock, faults, cancel>>

\* find_order_by_client_id: the exchange has it and it is adopted, or nothing was
\* learned - no such order, pages that end before it, an error.
Listed_Always == TRUE
Listed == exch.state # "none"

SweepLookup ==
    /\ sweep.pc = "lookup"
    /\ \/ /\ Listed
          /\ sweep' = [sweep EXCEPT !.pc = "fills", !.adopted = TRUE,
                                    !.view.linked = TRUE, !.view.status = "resting"]
       \/ sweep' = [sweep EXCEPT !.pc = "select"]
    /\ UNCHANGED <<record, exch, clock, attempts, faults, cancel>>

\* The working orders: live in the database, as this transaction sees it.  A row
\* that was adopted is its own copy already.
SweepSelect ==
    LET r == IF sweep.adopted THEN sweep.view ELSE row
        base == IF sweep.adopted THEN sweep.base ELSE row
        next == IF r.status \notin Live THEN "commit"
                ELSE IF r.linked THEN "fills" ELSE "retire"
    IN
    /\ sweep.pc = "select"
    /\ sweep' = [sweep EXCEPT !.pc = next, !.adopted = FALSE, !.base = base, !.view = r]
    /\ UNCHANGED <<record, exch, clock, attempts, faults, cancel>>

\* reconcile_order, first half: record the fills not known yet.  The listing may
\* fail after some of them; then the status is not asked for.  The fills of the
\* placement are in the listing too, under the exchange's own ids.
NewFills_Again(k) == 1 .. k
NewFills(k) == (1 .. k) \ (fills \cup sweep.new)

AfterReconcile == IF sweep.adopted THEN "select" ELSE "retire"

SweepFills ==
    /\ sweep.pc = "fills"
    /\ \E k \in 0 .. exch.filled, failed \in BOOLEAN :
          /\ ~failed => k = exch.filled
          /\ sweep' = [sweep EXCEPT
                !.pc = IF failed THEN AfterReconcile ELSE "status",
                !.view.filled = @ + Cardinality(NewFills(k)),
                !.new = @ \cup NewFills(k)]
    /\ UNCHANGED <<record, exch, clock, attempts, faults, cancel>>

\* reconcile_order, second half: the status the exchange gives the order.
RemoteStatus_ByCount(r) ==
    CASE exch.state = "canceled" -> "canceled"
      [] r.filled >= Size -> "filled"
      [] OTHER -> IF r.filled > 0 THEN "partially_filled" ELSE r.status
RemoteStatus(r) ==
    CASE exch.state = "canceled" -> "canceled"
      [] exch.state = "executed" -> "filled"
      [] OTHER -> IF r.filled > 0 THEN "partially_filled" ELSE r.status

SweepStatus ==
    /\ sweep.pc = "status"
    /\ \E st \in {RemoteStatus(sweep.view), sweep.view.status} :    \* or it failed
          sweep' = [sweep EXCEPT !.pc = AfterReconcile, !.view.status = st]
    /\ UNCHANGED <<record, exch, clock, attempts, faults, cancel>>

\* An order still live and due is canceled as in the API; a cancel that is raised
\* is logged and the sweep goes on.
SweepKeep ==
    /\ sweep.pc = "retire"
    /\ sweep.view.status \notin Live \/ ~sweep.due
    /\ sweep' = [sweep EXCEPT !.pc = "commit"]
    /\ UNCHANGED <<record, exch, clock, attempts, faults, cancel>>

SweepRetire(answer) ==
    /\ sweep.pc = "retire"
    /\ sweep.view.status \in Live /\ sweep.due
    /\ IF sweep.view.linked THEN Deletes(answer) ELSE answer = "ok" /\ UNCHANGED exch
    /\ sweep' = [sweep EXCEPT !.pc = "commit",
                              !.view.status = IF Gone(answer) THEN "canceled" ELSE @]
    /\ UNCHANGED <<record, clock, attempts, faults, cancel>>

\* The UPDATE names the columns the sweep changed.
Changed(r) ==
    [f \in DOMAIN r |-> IF sweep.view[f] # sweep.base[f] THEN sweep.view[f] ELSE r[f]]

SweepCommit ==
    /\ sweep.pc = "commit"
    /\ row' = Changed(row)
    /\ fills' = fills \cup sweep.new
    /\ sweep' = NoSweep
    /\ UNCHANGED <<imm, exch, clock, attempts, faults, cancel>>

\* An exception no handler takes (a raw transport error) rolls everything back.
SweepAbort ==
    /\ sweep.pc # "idle"
    /\ faults < MaxFaults
    /\ faults' = faults + 1
    /\ sweep' = NoSweep
    /\ UNCHANGED <<record, exch, clock, attempts, cancel>>

\* A new worker process: the sweep is lost, and how often the old one asked.
WorkerRestart ==
    /\ faults < MaxFaults
    /\ faults' = faults + 1
    /\ sweep' = NoSweep
    /\ attempts' = 0
    /\ UNCHANGED <<record, exch, clock, cancel>>

-------------------------------------------------------------------------------
Next ==
    \/ Fill \/ Close \/ Age \/ ToggleKill
    \/ \E c \in Cancellers :
          CancelRead(c) \/ CancelDelete(c) \/ CancelCommit(c) \/ CancelAbort(c)
    \/ SweepBegin \/ SweepLookup \/ SweepSelect \/ SweepFills \/ SweepStatus
    \/ SweepKeep \/ (\E answer \in {"ok", "404", "error"} : SweepRetire(answer))
    \/ SweepCommit \/ SweepAbort \/ WorkerRestart

Spec == Init /\ [][Next]_vars

\* The worker's loop comes round every ten seconds; each call it
\* makes is bounded by a timeout; the exchange does not fail every DELETE for
\* ever.  Nothing is asked of the API requests or of the market.
FairSpec ==
    /\ Spec
    /\ WF_vars(SweepBegin) /\ WF_vars(SweepLookup) /\ WF_vars(SweepSelect)
    /\ WF_vars(SweepFills) /\ WF_vars(SweepStatus) /\ WF_vars(SweepKeep)
    /\ WF_vars(SweepCommit)
    /\ SF_vars(SweepRetire("ok") \/ SweepRetire("404"))

-------------------------------------------------------------------------------
(* What must hold *)

\* The row's fill count is the sum of its Fill rows, and every one of those is a
\* fill the exchange made: however often the sweep reconciles, aborts or races a
\* cancel, a fill id is recorded once and a count is never added without one.
FilledIsSumOfFills ==
    /\ row.filled = imm + Cardinality(fills)
    /\ fills \subseteq 1 .. exch.filled

\* A row with an exchange order id is about an order the exchange has: recovery
\* adopts, it never invents.
LinkedExists == row.linked => exch.state # "none"

\* FILLED is the exchange's word: no row is FILLED while its order still works or
\* was closed short of its size, whatever the local fill count says.
FilledIsDone == row.status = "filled" => exch.state = "executed"

\* A CANCELED row whose order id was known from the start has no order resting
\* behind it: the row is never visited again, so nothing would retire that order
\* (Executor.cancel re-raises everything but a 404).
CanceledKnownIsGone ==
    row.status = "canceled" /\ known => exch.state # "resting"

Working == row.status \in {"pending", "resting", "partially_filled"}

\* An order whose id was known from the start does not rest beyond
\* auto_cancel_after_sec for ever, nor, however young, under an engaged kill
\* switch, whatever sweeps fail or restart and whatever people cancel meanwhile.
OrderLeavesBook ==
    /\ (aged /\ known /\ exch.state = "resting") ~> (exch.state # "resting")
    /\ (kill /\ known /\ exch.state = "resting") ~> (~kill \/ exch.state # "resting")

\* Once it is aged the row comes to rest: races of sweep and API cancel may make
\* a closed row live again, but not for ever.
RowSettles == aged ~> [](~Working)

(* What comments of the code say of it, and it does not do *)

Quiet == sweep.pc = "idle" /\ \A c \in Cancellers : cancel[c] = "idle"

\* reconcile_order: applying a fill twice would corrupt the position permanently.
NoFillCountedTwice == row.filled <= exch.filled

\* sweep_orders: an order that filled should be recorded as filled, not cancelled
\* out from under the fills that already happened.
ClosedRowHasItsFills ==
    Quiet /\ ~Working /\ row.linked => 1 .. exch.filled \subseteq fills \cup 1 .. imm

\* Executor.cancel: the kill switch's entire promise is that resting orders are
\* gone; CANCELED locally while live on the book is the outcome it must not have.
CanceledIsGone == Quiet /\ row.status = "canceled" => exch.state # "resting"

===============================================================================
