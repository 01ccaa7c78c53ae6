----------------------------- MODULE AutonomySweep -----------------------------
(***************************************************************************)
(* The machine's own approvals: the evidence loop and the sweep loop of    *)
(* backend/app/worker/main.py and the gate of trading/autonomy.py, with    *)
(* what interlocks.py asks again of the consent the gate issues.           *)
(*                                                                         *)
(* A pass of the sweep fixes its clock when it starts and then works       *)
(* through the queue, one exchange round trip after the other.  Everything *)
(* else moves meanwhile: the clock, the operator, Redis, and the worker,   *)
(* which may die at any point.  The allowance is counted from committed    *)
(* audit rows, whose time is their transaction's start.                    *)
(*                                                                         *)
(* Refusals this module has no state for - the kill switch, the route, the *)
(* loss limits, room for positions - may happen whenever they are asked    *)
(* for: BeginPass is not taken, or Refuse or Interlocked is.               *)
(***************************************************************************)
EXTENDS FiniteSets, Sums

CONSTANTS
    Proposals,
    Detectors,
    DetectorOf,     \* [Proposals -> Detectors \cup {Manual}], proposal.source
    MarketOf,       \* the proposal's ticker
    Loss,           \* its max_loss_cents
    Manual,         \* the source of a hand-written ticket
    Hour,           \* the budget's window
    DayLength,      \* midnight UTC is every DayLength
    MinAge,         \* min_proposal_age_sec, the operator's veto window
    MaxReportAge,   \* evidence.max_report_age_sec
    MaxConsentAge,  \* interlocks.MAX_CONSENT_AGE
    Cooldown,       \* repeat_cooldown_sec
    MaxTrades,      \* max_trades_per_hour
    MaxOfDetector,  \* max_trades_per_detector_per_hour
    MaxDailyRisk,   \* max_daily_risk_cents
    MaxCandidates,  \* MAX_SWEEP_CANDIDATES
    Horizon,        \* bound: the clock stops there
    MaxFaults,      \* bound: worker crashes and Redis outages
    None

ASSUME SweepAssumption ==
    /\ IsFiniteSet(Proposals)
    /\ DetectorOf \in [Proposals -> Detectors \cup {Manual}]
    /\ Manual \notin Detectors
    /\ Loss \in [Proposals -> Nat]
    /\ {Hour, MinAge, MaxReportAge, MaxConsentAge, Cooldown, MaxTrades,
        MaxOfDetector, MaxDailyRisk, MaxCandidates, Horizon, MaxFaults} \subseteq Nat
    /\ DayLength \in Nat \ {0}
    /\ MaxConsentAge <= Hour
    /\ None \notin Nat

VARIABLES
    now,        \* the clock
    queue,      \* the proposals: "absent", "pending", "decided"
    created,    \* created_at
    evidence,   \* the worker's snapshot: when it was computed, whose edge it shows
    latch,      \* the disarm latch in Redis
    redis,      \* whether Redis answers
    pass,       \* the sweep pass that is running
    ledger,     \* committed proposal.approved rows of the machine: their ts
    faults,     \* crashes and outages so far (bounded by MaxFaults)
    placed,     \* history: when the machine sent it, on which evidence
    lost,       \* history: sent by a transaction that was never committed
    trouble     \* history: what happened since the machine should have stopped

vars == <<now, queue, created, evidence, latch, redis, pass, ledger, faults,
          placed, lost, trouble>>

-------------------------------------------------------------------------------
Time == 0 .. Horizon
Maybe(S) == S \cup {None}

Evidence == [at : Time, shown : SUBSET Detectors]
Pass == [pc : {"off", "gate", "consent", "placing", "disarm"},
         start : Time, todo : SUBSET Proposals, subject : Maybe(Proposals),
         evidence : Maybe(Time), ts : Maybe(Time)]
NoPass == [pc |-> "off", start |-> 0, todo |-> {}, subject |-> None,
           evidence |-> None, ts |-> None]

\* latched: sent although the latch was set; troubled: sent although a placement
\* went wrong and nobody re-armed; unwritten: that latch was never written.
Calm == [latched |-> 0, due |-> FALSE, troubled |-> 0, unwritten |-> FALSE]

TypeOK ==
    /\ now \in Time
    /\ queue \in [Proposals -> {"absent", "pending", "decided"}]
    /\ created \in [Proposals -> Maybe(Time)]
    /\ evidence \in Maybe(Evidence)
    /\ latch \in BOOLEAN /\ redis \in BOOLEAN
    /\ pass \in Pass
    /\ ledger \in [Proposals -> Maybe(Time)]
    /\ faults \in 0 .. MaxFaults
    /\ placed \in [Proposals -> Maybe([at : Time, evidence : Time])]
    /\ lost \subseteq Proposals
    /\ trouble \in [latched : Nat, due : BOOLEAN, troubled : Nat, unwritten : BOOLEAN]

-------------------------------------------------------------------------------
(* The gate *)

\* disarm_reason fails closed: no answer reads as latched.
Latched == latch \/ ~redis

Recorded == {p \in Proposals : ledger[p] # None}

\* budget_state: what the audit trail says was spent up to a pass that started at n.
InHour_Exclusive(n) == {p \in Recorded : ledger[p] > n - Hour}
InHour(n) == {p \in Recorded : ledger[p] >= n - Hour}
DayStart(n) == n - (n % DayLength)
RiskOf(S) == TotalOver(Loss, S)
RiskOfDay_Yesterday(n) == RiskOf({p \in Recorded : ledger[p] >= DayStart(n) + DayLength})
RiskOfDay(n) == RiskOf({p \in Recorded : ledger[p] >= DayStart(n)})

\* _check_budget and _check_cooldown.
WithinBudget(p, n) ==
    /\ Cardinality(InHour(n)) < MaxTrades
    /\ Cardinality({q \in InHour(n) : DetectorOf[q] = DetectorOf[p]}) < MaxOfDetector
    /\ RiskOfDay(n) + Loss[p] <= MaxDailyRisk
    /\ \A q \in Recorded :
          DetectorOf[q] = DetectorOf[p] /\ MarketOf[q] = MarketOf[p]
              => n - ledger[q] >= Cooldown

\* _check_evidence; the snapshot of this process only.
Proven(p, n) ==
    /\ evidence # None
    /\ n - evidence.at <= MaxReportAge
    /\ DetectorOf[p] \in evidence.shown

\* evaluate, for a pass that started at n.
MayApprove_NoVeto(p, n) ==
    ~Latched /\ DetectorOf[p] # Manual /\ Proven(p, n) /\ WithinBudget(p, n)
MayApprove(p, n) ==
    /\ ~Latched
    /\ DetectorOf[p] # Manual
    /\ n - created[p] >= MinAge
    /\ Proven(p, n)
    /\ WithinBudget(p, n)

-------------------------------------------------------------------------------
Init ==
    /\ now = 0
    /\ queue = [p \in Proposals |-> "absent"]
    /\ created = [p \in Proposals |-> None]
    /\ evidence = None
    /\ latch = FALSE /\ redis = TRUE
    /\ pass = NoPass
    /\ ledger = [p \in Proposals |-> None]
    /\ faults = 0
    /\ placed = [p \in Proposals |-> None]
    /\ lost = {}
    /\ trouble = Calm

(* The world around the sweep *)

world == <<evidence, latch, redis, faults>>
history == <<placed, lost, trouble>>

\* Time passes, also inside a pass and while it waits for a lock or an answer.
Tick ==
    /\ now < Horizon
    /\ now' = now + 1
    /\ UNCHANGED <<queue, created, world, pass, ledger, history>>

\* A detector's proposal, or a hand-written one, is committed to the queue.
Propose(p) ==
    /\ queue[p] = "absent"
    /\ queue' = [queue EXCEPT ![p] = "pending"]
    /\ created' = [created EXCEPT ![p] = now]
    /\ UNCHANGED <<now, world, pass, ledger, history>>

\* The operator approves or rejects it, or it expires.  Blocked while the sweep's
\* transaction holds the row.
Withdraw(p) ==
    /\ queue[p] = "pending"
    /\ ~(pass.pc = "placing" /\ pass.subject = p)
    /\ queue' = [queue EXCEPT ![p] = "decided"]
    /\ UNCHANGED <<now, created, world, pass, ledger, history>>

\* refresh_once: a snapshot dated when its queries began; a failed refresh changes
\* nothing and is no step.
Refresh(S) ==
    /\ evidence' = [at |-> now, shown |-> S]
    /\ UNCHANGED <<now, queue, created, latch, redis, faults, pass, ledger, history>>

\* POST /autonomy/disarm.
OperatorDisarm ==
    /\ redis
    /\ latch' = TRUE
    /\ UNCHANGED <<now, queue, created, evidence, redis, faults, pass, ledger, history>>

\* POST /autonomy/rearm, with the phrase typed.
Rearm ==
    /\ redis
    /\ latch /\ latch' = FALSE
    /\ trouble' = Calm
    /\ UNCHANGED <<now, queue, created, evidence, redis, faults, pass, ledger,
                   placed, lost>>

RedisDown ==
    /\ redis
    /\ faults < MaxFaults
    /\ redis' = FALSE
    /\ faults' = faults + 1
    /\ UNCHANGED <<now, queue, created, evidence, latch, pass, ledger, history>>

RedisUp ==
    /\ ~redis /\ redis' = TRUE
    /\ UNCHANGED <<now, queue, created, evidence, latch, faults, pass, ledger, history>>

-------------------------------------------------------------------------------
(* The sweep *)

\* The pending proposals, oldest first, cut at MAX_SWEEP_CANDIDATES.
Pending == {p \in Proposals : queue[p] = "pending"}
Candidates ==
    {S \in SUBSET Pending :
        /\ Cardinality(S) <= MaxCandidates
        /\ S # Pending => Cardinality(S) = MaxCandidates
        /\ \A p \in S, q \in Pending \ S : created[p] <= created[q]}

\* sweep, unless it stops at once: the kill switch is engaged or Redis away, or no
\* route is usable.  The select opens a transaction: it has a start time from here on.
BeginPass(S) ==
    /\ pass.pc = "off"
    /\ redis
    /\ S # {}
    /\ S \in Candidates
    /\ pass' = [NoPass EXCEPT !.pc = "gate", !.start = now, !.todo = S, !.ts = now]
    /\ UNCHANGED <<now, queue, created, world, ledger, history>>

\* The loop goes on with the candidates in S, in a transaction that began at t.
Continue(S, t) ==
    IF S = {} THEN NoPass
    ELSE [pass EXCEPT !.pc = "gate", !.todo = S, !.subject = None, !.evidence = None,
                      !.ts = t]

Oldest(p) == p \in pass.todo /\ \A q \in pass.todo : created[p] <= created[q]

\* The transaction's start: its first statement after the last commit.
Began == IF pass.ts = None THEN now ELSE pass.ts

Consent(p) ==
    /\ pass.pc = "gate" /\ Oldest(p)
    /\ MayApprove(p, pass.start)
    /\ pass' = [pass EXCEPT !.pc = "consent", !.subject = p, !.todo = @ \ {p},
                            !.evidence = evidence.at, !.ts = Began]
    /\ UNCHANGED <<now, queue, created, world, ledger, history>>

\* A GateRefusal, on these grounds or because the route's open positions or
\* working orders, anybody's, are at their ceiling.
Refuse(p) ==
    /\ pass.pc = "gate" /\ Oldest(p)
    /\ \E t \in {pass.ts, Began} : pass' = Continue(pass.todo \ {p}, t)
    /\ UNCHANGED <<now, queue, created, world, ledger, history>>

\* check_execution and _check_machine_consent, on the row that approve_and_execute
\* has locked and read again.  get_kill_switch fails closed too.
Fresh == now - pass.start <= MaxConsentAge
Cleared == redis /\ queue[pass.subject] = "pending" /\ Fresh

\* The interlocks agree: the audit row is flushed and the order leaves.
Approve ==
    /\ pass.pc = "consent"
    /\ Cleared
    /\ pass' = [pass EXCEPT !.pc = "placing"]
    /\ placed' = [placed EXCEPT ![pass.subject] = [at |-> now, evidence |-> pass.evidence]]
    /\ trouble' = [trouble EXCEPT !.latched = @ + IF latch THEN 1 ELSE 0,
                                  !.troubled = @ + IF trouble.due THEN 1 ELSE 0]
    /\ lost' = lost \ {pass.subject}
    /\ UNCHANGED <<now, queue, created, world, ledger>>

\* An InterlockError: one of those, the kill switch, or guard_approval's limits.
\* The session is rolled back.  EXTERNAL: that expires the remaining candidates,
\* and reading one again may raise out of the pass.
Interlocked ==
    /\ pass.pc = "consent"
    /\ \E S \in {pass.todo, {}} : pass' = Continue(S, None)
    /\ UNCHANGED <<now, queue, created, world, ledger, history>>

\* The placement is over and committed, whatever became of it: placed or refused,
\* which the pass goes on from, or ambiguous or partial, which ends it.
AfterCommit_GoOn(wrong) == Continue(pass.todo, None)
AfterCommit(wrong) ==
    IF wrong THEN [pass EXCEPT !.pc = "disarm"] ELSE Continue(pass.todo, None)

Commit(wrong) ==
    /\ pass.pc = "placing"
    /\ queue' = [queue EXCEPT ![pass.subject] = "decided"]
    /\ ledger' = [ledger EXCEPT ![pass.subject] = pass.ts]
    /\ pass' = AfterCommit(wrong)
    /\ trouble' = [trouble EXCEPT !.due = @ \/ wrong]
    /\ UNCHANGED <<now, created, world, placed, lost>>

\* disarm: best effort.
Disarm ==
    /\ pass.pc = "disarm"
    /\ latch' = (latch \/ redis)
    /\ trouble' = [trouble EXCEPT !.unwritten = @ \/ ~redis]
    /\ pass' = NoPass
    /\ UNCHANGED <<now, queue, created, evidence, redis, faults, ledger, placed, lost>>

\* The worker dies: its snapshot and its transaction are gone, what it sent stays.
Crash ==
    /\ faults < MaxFaults
    /\ faults' = faults + 1
    /\ evidence' = None
    /\ pass' = NoPass
    /\ lost' = lost \cup (IF pass.pc = "placing" THEN {pass.subject} ELSE {})
    /\ trouble' = [trouble EXCEPT !.unwritten = @ \/ pass.pc = "disarm"]
    /\ UNCHANGED <<now, queue, created, latch, redis, ledger, placed>>

Next ==
    \/ Tick
    \/ \E p \in Proposals : Propose(p) \/ Withdraw(p) \/ Consent(p) \/ Refuse(p)
    \/ \E S \in SUBSET Detectors : Refresh(S)
    \/ OperatorDisarm \/ Rearm \/ RedisDown \/ RedisUp
    \/ \E S \in SUBSET Proposals : BeginPass(S)
    \/ Approve \/ Interlocked \/ Disarm \/ Crash
    \/ \E wrong \in BOOLEAN : Commit(wrong)

Spec == Init /\ [][Next]_vars

-------------------------------------------------------------------------------
(* What must hold *)

Sent == {p \in Proposals : placed[p] # None /\ p \notin lost}

\* The hourly allowance bounds the orders that left, not just the audit rows: in
\* every window shorter than the hour by a consent's life, the machine sent no
\* more than MaxTrades, nor more than MaxOfDetector for one detector, and kept
\* the repeat cooldown likewise.  The clock of a pass is fixed when it starts and
\* an audit row is dated by its transaction, so it needs MAX_CONSENT_AGE; orders
\* of a lost transaction are not counted, for nothing counts them.
HourlyAllowance ==
    \A p \in Sent :
        LET W == {q \in Sent : placed[q].at <= placed[p].at
                                 /\ placed[p].at - placed[q].at <= Hour - MaxConsentAge}
            Same == {q \in W : DetectorOf[q] = DetectorOf[p]}
        IN  /\ Cardinality(W) <= MaxTrades
            /\ Cardinality(Same) <= MaxOfDetector
            /\ \A q \in Same \ {p} :
                   MarketOf[q] = MarketOf[p]
                       => placed[p].at - placed[q].at >= Cooldown - MaxConsentAge

\* The audit trail never shows a day on which the machine risked more than
\* max_daily_risk_cents, also when a pass began before midnight.
DailyRiskBounded ==
    \A n \in Time :
        RiskOf({p \in Recorded : DayStart(ledger[p]) = DayStart(n)}) <= MaxDailyRisk

\* What the machine sent had been open to the operator's veto for its whole
\* window, was produced by a detector, and rests on a report card at most a
\* consent's life older than max_report_age_sec.
SentOnConsent ==
    \A p \in Proposals : placed[p] # None =>
        /\ DetectorOf[p] # Manual
        /\ placed[p].at - created[p] >= MinAge
        /\ placed[p].at - placed[p].evidence <= MaxReportAge + MaxConsentAge

\* One ambiguous or partial placement stops the machine: nothing more leaves until
\* a person re-arms it, unless the latch could not be written (Redis away, or the
\* worker dead, between the commit and the latch).  An operator's disarm stops it
\* after at most the one proposal whose consent was already given.
LatchStops ==
    /\ trouble.troubled > 0 => trouble.unwritten
    /\ trouble.latched <= 1

===============================================================================
