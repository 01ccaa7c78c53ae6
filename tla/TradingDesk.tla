------------------------------ MODULE TradingDesk ------------------------------
(***************************************************************************)
(* The desk around the execution rail: detectors and people put proposals  *)
(* in one queue (detectors/base.py, trading/proposals.py), people and the  *)
(* sweep take them out, and the limits of trading/risk.py are measured     *)
(* over positions and queue while all of it moves.                         *)
(*                                                                         *)
(* What is committed is in queue and held; drafts, flying and the rest of  *)
(* an order that still works are what a guard's SELECT does not see.       *)
(* ApprovalRail opens up one approval, OrderLife one working order and     *)
(* PositionLedger one fill; here each is a step.                           *)
(***************************************************************************)
EXTENDS RiskLimits, Sums

CONSTANTS
    Proposals,
    Markets,
    TickersOf,      \* the markets of its legs
    NamedOf,        \* proposed_trades.ticker: the first leg
    EventOf,        \* event_ticker: None for a single leg
    SourceOf,       \* the detector, or Manual
    Manual,
    LegCost,        \* [Proposals -> [Markets -> Nat]]: what a lot ties up once filled
    Loss,           \* [Proposals -> Nat]: max_loss_cents of a lot
    Lots,           \* the size of every proposal
    MaxPending,     \* risk.max_pending_proposals
    MarketCap,      \* risk.max_pct_per_market of the bankroll
    TotalCap,       \* risk.max_total_exposure_pct of the bankroll
    Bankroll,
    Makers,         \* scans and requests that create proposals
    Sessions,       \* requests that approve: people's and the sweep's
    MaxAborts,      \* bound: transactions lost
    None

ASSUME DeskAssumption ==
    /\ IsFiniteSet(Proposals) /\ IsFiniteSet(Markets) /\ None \notin Proposals
    /\ TickersOf \in [Proposals -> SUBSET Markets]
    /\ \A p \in Proposals : NamedOf[p] \in TickersOf[p]
    /\ Loss \in [Proposals -> Nat] /\ LegCost \in [Proposals -> [Markets -> Nat]]
    /\ \A p \in Proposals : EventOf[p] = None <=> TickersOf[p] = {NamedOf[p]}
    /\ \A p \in Proposals : EventOf[p] = None => LegCost[p][NamedOf[p]] = Loss[p]
    \* Fees aside, nothing loses more than its legs cost (detectors/base.py:303).
    /\ \A p \in Proposals : Loss[p] <= TotalOver(LegCost[p], Markets)
    /\ Lots \in Nat \ {0}
    /\ {MaxPending, MarketCap, TotalCap, Bankroll, MaxAborts} \subseteq Nat

VARIABLES
    queue,      \* committed status: "absent", "pending", "approved", "gone"
    scan,       \* per maker: whether it is past its read of the kill switch
    drafts,     \* per maker: proposals it inserted and has not committed
    flying,     \* per session: the proposal whose row it has locked, or None
    working,    \* lots that may still fill
    held,       \* lots in committed positions
    kill,
    aborts,     \* transactions lost so far (bounded by MaxAborts)
    unseen      \* history: working, or placed but uncommitted, when an approval
                \* measured exposure: no later limit was measured with them

vars == <<queue, scan, drafts, flying, working, held, kill, aborts, unseen>>

-------------------------------------------------------------------------------
Lot == 0 .. Lots

TypeOK ==
    /\ queue \in [Proposals -> {"absent", "pending", "approved", "gone"}]
    /\ scan \in [Makers -> BOOLEAN]
    /\ drafts \in [Makers -> SUBSET Proposals]
    /\ flying \in [Sessions -> Proposals \cup {None}]
    /\ working \in [Proposals -> Lot] /\ held \in [Proposals -> Lot]
    /\ \A p \in Proposals : working[p] + held[p] <= Lots
    /\ kill \in BOOLEAN
    /\ aborts \in 0 .. MaxAborts
    /\ unseen \subseteq Proposals

Full == [p \in Proposals |-> Lots * Loss[p]]

Pending == {p \in Proposals : queue[p] = "pending"}
Locked(p) == \E s \in Sessions : flying[s] = p
SingleLeg(p) == EventOf[p] = None

\* _guard_duplicate's key, and the rows a key finds.
Key(p) == IF SingleLeg(p) THEN NamedOf[p] ELSE EventOf[p]
Names(q, key) == key \in {NamedOf[q], EventOf[q]}

(* What the limits measure *)

\* The positions of the route, per market, at cost.
MarketCost(m) == TotalOver([p \in Proposals |-> held[p] * LegCost[p][m]], Proposals)
OpenExposure == TotalOver([m \in Markets |-> MarketCost(m)], Markets)

\* market_exposure_cents for the proposal p, among the rows in Q.  A queued
\* proposal is found by its first leg or by its event, not by its other legs.
Queued(p, Q) ==
    {q \in Q \ {p} : \/ NamedOf[q] \in TickersOf[p]
                     \/ EventOf[p] # None /\ EventOf[q] = EventOf[p]}
MarketExposure(p, Q) ==
    TotalOver([m \in Markets |-> MarketCost(m)], TickersOf[p]) + TotalOver(Full, Queued(p, Q))

\* create_proposal's guards and create_multi_leg's, over what the maker k sees.
\* Both ask check_halted too, which only refuses: LossHalt has it.
MayPropose(k, p) ==
    LET Q == Pending \cup drafts[k]
    IN  /\ Cardinality(Q) < MaxPending
        /\ SourceOf[p] # Manual =>
              \A q \in Q : SourceOf[q] = SourceOf[p] => ~Names(q, Key(p))
        /\ MarketAllows(MarketExposure(p, Q), Full[p], MarketCap, Bankroll)

\* guard_approval, over what is committed, after check_halted.
MayApprove_SizeOnly(p) ==
    MarketAllows(MarketExposure(p, Pending), Full[p], MarketCap, Bankroll)
MayApprove(p) ==
    /\ ExposureAllows(OpenExposure, Full[p], TotalCap)
    /\ MarketAllows(MarketExposure(p, Pending), Full[p], MarketCap, Bankroll)

-------------------------------------------------------------------------------
Init ==
    /\ queue = [p \in Proposals |-> "absent"]
    /\ scan = [k \in Makers |-> FALSE]
    /\ drafts = [k \in Makers |-> {}]
    /\ flying = [s \in Sessions |-> None]
    /\ working = [p \in Proposals |-> 0]
    /\ held = [p \in Proposals |-> 0]
    /\ kill = FALSE
    /\ aborts = 0
    /\ unseen = {}

capital == <<working, held, unseen>>

(* Filling the queue *)

\* _detector_loop reads the kill switch once per cycle, POST /proposals once per
\* request, before any proposal is made.
BeginScan(k) ==
    /\ ~scan[k] /\ ~kill
    /\ scan' = [scan EXCEPT ![k] = TRUE]
    /\ UNCHANGED <<queue, drafts, flying, capital, kill, aborts>>

\* The advisory lock, held to the end of the transaction of the maker that has it.
LockFree_Never(k) == TRUE
LockFree(k) == \A j \in Makers \ {k} : drafts[j] = {}

\* propose_finding for one finding of the scan, create_proposal or
\* create_multi_leg: takes the lock, asks every guard, inserts.  A scan goes on to
\* its next finding, a request makes one proposal.
Draft(k, p) ==
    /\ scan[k]
    /\ queue[p] = "absent" /\ \A j \in Makers : p \notin drafts[j]
    /\ \A q \in drafts[k] : SourceOf[q] = SourceOf[p] /\ SourceOf[q] # Manual
    /\ LockFree(k)
    /\ MayPropose(k, p)
    /\ drafts' = [drafts EXCEPT ![k] = @ \cup {p}]
    /\ UNCHANGED <<queue, scan, flying, capital, kill, aborts>>

\* The scan's one commit.
EndScan(k) ==
    /\ scan[k]
    /\ queue' = [p \in Proposals |-> IF p \in drafts[k] THEN "pending" ELSE queue[p]]
    /\ drafts' = [drafts EXCEPT ![k] = {}]
    /\ scan' = [scan EXCEPT ![k] = FALSE]
    /\ UNCHANGED <<flying, capital, kill, aborts>>

\* An exception in a scan loses what its session inserted.
LoseScan(k) ==
    /\ drafts[k] # {}
    /\ aborts < MaxAborts
    /\ aborts' = aborts + 1
    /\ drafts' = [drafts EXCEPT ![k] = {}]
    /\ scan' = [scan EXCEPT ![k] = FALSE]
    /\ UNCHANGED <<queue, flying, capital, kill>>

(* Emptying it *)

\* expire_stale, from the worker's sweep and GET /proposals: one UPDATE over the
\* rows S that are past their time, when nobody holds them.
Stale_WhileTrading(S) == S \subseteq {p \in Pending : ~Locked(p) /\ ~kill}
Stale(S) == S \subseteq {p \in Pending : ~Locked(p)}
ExpireStale(S) ==
    /\ S # {} /\ Stale(S)
    /\ queue' = [p \in Proposals |-> IF p \in S THEN "gone" ELSE queue[p]]
    /\ UNCHANGED <<scan, drafts, flying, capital, kill, aborts>>

\* reject.
Reject(p) ==
    /\ queue[p] = "pending" /\ ~Locked(p)
    /\ queue' = [queue EXCEPT ![p] = "gone"]
    /\ UNCHANGED <<scan, drafts, flying, capital, kill, aborts>>

\* approve_and_execute up to the exchange: the interlocks and the limits pass, and
\* from here every lot may fill.  What works or flies already was in no SELECT.
Approve(s, p) ==
    /\ flying[s] = None /\ ~Locked(p)
    /\ ~kill
    /\ queue[p] = "pending"
    /\ MayApprove(p)
    /\ flying' = [flying EXCEPT ![s] = p]
    /\ working' = [working EXCEPT ![p] = Lots]
    /\ unseen' = unseen \cup {q \in Proposals : working[q] > 0}
    /\ UNCHANGED <<queue, scan, drafts, held, kill, aborts>>

\* The answer and the caller's commit: n lots filled, the rest rests (a single leg,
\* gtc) or is off (ioc, refused, failed).
Settle(s, n, rest) ==
    LET p == flying[s]
    IN  /\ p # None
        /\ rest => SingleLeg(p)
        /\ n \in {0, Lots} \/ SingleLeg(p)
        /\ held' = [held EXCEPT ![p] = n]
        /\ working' = [working EXCEPT ![p] = IF rest THEN Lots - n ELSE 0]
        /\ queue' = [queue EXCEPT ![p] = "approved"]
        /\ flying' = [flying EXCEPT ![s] = None]
        /\ UNCHANGED <<scan, drafts, kill, aborts, unseen>>

\* The approval's transaction is lost: the proposal is pending again.  What it may
\* have left at the exchange is ApprovalRail's RecordSurvivesCrash.
LoseApproval(s) ==
    /\ flying[s] # None
    /\ aborts < MaxAborts
    /\ aborts' = aborts + 1
    /\ working' = [working EXCEPT ![flying[s]] = 0]
    /\ flying' = [flying EXCEPT ![s] = None]
    /\ UNCHANGED <<queue, scan, drafts, held, kill, unseen>>

(* Orders and positions *)

\* A resting order fills, and the worker's sweep folds the fill.
Fill(p) ==
    /\ queue[p] = "approved" /\ working[p] > 0
    /\ working' = [working EXCEPT ![p] = @ - 1]
    /\ held' = [held EXCEPT ![p] = @ + 1]
    /\ UNCHANGED <<queue, scan, drafts, flying, kill, aborts, unseen>>

\* It is cancelled: by a person, by age, or because the kill switch is engaged,
\* by the endpoint at once or by the worker's next sweep.
Cancel(p) ==
    /\ queue[p] = "approved" /\ working[p] > 0
    /\ working' = [working EXCEPT ![p] = 0]
    /\ UNCHANGED <<queue, scan, drafts, flying, held, kill, aborts, unseen>>

\* The position is sold or its market settles.
Close(p) ==
    /\ held[p] > 0
    /\ held' = [held EXCEPT ![p] = 0]
    /\ UNCHANGED <<queue, scan, drafts, flying, working, kill, aborts, unseen>>

\* POST /kill-switch: the flag; the cancels it makes are Cancel steps, for it
\* reports the ones that fail and leaves them to the worker.
ToggleKill ==
    /\ kill' = ~kill
    /\ UNCHANGED <<queue, scan, drafts, flying, capital, aborts>>

Next ==
    \/ \E k \in Makers : BeginScan(k) \/ EndScan(k) \/ LoseScan(k)
    \/ \E k \in Makers, p \in Proposals : Draft(k, p)
    \/ \E p \in Proposals : Reject(p) \/ Fill(p) \/ Cancel(p) \/ Close(p)
    \/ \E S \in SUBSET Proposals : ExpireStale(S)
    \/ ToggleKill
    \/ \E s \in Sessions, p \in Proposals : Approve(s, p)
    \/ \E s \in Sessions, n \in Lot, rest \in BOOLEAN : Settle(s, n, rest)
    \/ \E s \in Sessions : LoseApproval(s)

Spec == Init /\ [][Next]_vars

Answer(s) == \E n \in Lot, rest \in BOOLEAN : Settle(s, n, rest)
Retire(p) == kill /\ Cancel(p)
Expire(p) == ExpireStale({p})

\* Time passes, scans and requests end, the worker's loops run every few seconds
\* and the exchange answers a cancel in the end.  Nobody has to propose, approve,
\* reject, or touch the kill switch.
Fairness ==
    /\ \A p \in Proposals : WF_vars(Expire(p)) /\ WF_vars(Retire(p))
    /\ \A k \in Makers : WF_vars(EndScan(k))
    /\ \A s \in Sessions : WF_vars(Answer(s))

FairSpec == Spec /\ Fairness

-------------------------------------------------------------------------------
(* What must hold *)

\* Three guards that count and then insert hold of what is committed, however many
\* scans and requests create at once: the queue is no longer than
\* max_pending_proposals, no detector has two proposals pending on one key, and
\* the proposals that name one market risk no more than its cap together.
QueueGuarded ==
    /\ Cardinality(Pending) <= MaxPending
    /\ \A p, q \in Pending :
          p # q /\ SourceOf[p] = SourceOf[q] /\ SourceOf[p] # Manual => Key(p) # Key(q)
    /\ \A m \in Markets :
          MarketAllows(0, TotalOver(Full, {p \in Pending : NamedOf[p] = m}), MarketCap, Bankroll)

\* What can be lost on orders that no approval overlooked stays within the total
\* cap - positions, orders resting and orders in flight - and on the single-leg
\* orders of each market within the market's. The exception is the code's: an
\* approval does not count what works or is not committed yet, whether placed by a
\* concurrent approval or resting since an earlier one.
Risked(S) == TotalOver([p \in Proposals |-> Loss[p] * (held[p] + working[p])], S \ unseen)
ExposureWithinCap ==
    /\ ExposureAllows(0, Risked(Proposals), TotalCap)
    /\ \A m \in Markets :
          MarketAllows(0, Risked({p \in Proposals : TickersOf[p] = {m}}), MarketCap, Bankroll)

\* Once the kill switch stays engaged the desk empties: scans that had read it
\* before still commit what they made, and an approval that had read it still
\* places its order, but in the end nothing is pending and nothing works.
KillEmptiesDesk ==
    <>[]kill => <>[](Pending = {} /\ \A p \in Proposals : working[p] = 0)

===============================================================================
