------------------------- MODULE AutonomySweep_proofs --------------------------
(* Proofs about AutonomySweep: the consent an order left on, the latch that    *)
(* stops the machine, and the allowances it is counted against.                *)
EXTENDS AutonomySweep, Sums_proofs

-------------------------------------------------------------------------------
(* The inductive invariant                                                     *)

\* WithinBudget, said of any audit trail l.
Budgeted(l, p, n) ==
    LET rows == {q \in Proposals : l[q] # None}
        hour == {q \in rows : l[q] >= n - Hour}
    IN  /\ Cardinality(hour) < MaxTrades
        /\ Cardinality({q \in hour : DetectorOf[q] = DetectorOf[p]}) < MaxOfDetector
        /\ TotalOver(Loss, {q \in rows : l[q] >= DayStart(n)}) + Loss[p] <= MaxDailyRisk
        /\ \A q \in rows :
              DetectorOf[q] = DetectorOf[p] /\ MarketOf[q] = MarketOf[p]
                  => n - l[q] >= Cooldown

\* A proposal has the time it was made; a row of the audit trail is about a
\* proposal that was decided.
CreatedOnce == \A p \in Proposals : queue[p] # "absent" => created[p] \in Time
RecordedIsDecided == \A p \in Proposals : ledger[p] # None => queue[p] = "decided"

\* The clock of the pass, and that of its open transaction.
PassInOrder ==
    /\ pass.pc # "off" => pass.start <= now
    /\ pass.ts # None => pass.start <= pass.ts /\ pass.ts <= now
    /\ \A p \in pass.todo : queue[p] # "absent"

\* What the gate found, for as long as the pass rests on it: the audit trail does
\* not change until the pass itself adds to it.
ConsentStands ==
    pass.pc \in {"consent", "placing"} =>
        LET p == pass.subject
        IN  /\ p \in Proposals /\ queue[p] # "absent"
            /\ pass.ts # None /\ pass.evidence # None
            /\ DetectorOf[p] # Manual
            /\ pass.start - created[p] >= MinAge
            /\ pass.start - pass.evidence <= MaxReportAge
            /\ Budgeted(ledger, p, pass.start)
PlacingIsFresh ==
    pass.pc = "placing" =>
        LET p == pass.subject
        IN  /\ queue[p] = "pending"
            /\ placed[p] # None => placed[p].at - pass.start <= MaxConsentAge

\* Orders that left and the audit rows about them: a row is dated by the start of
\* its transaction, which may be a consent's life before the order.
PlacedInPast ==
    \A p \in Proposals : placed[p] # None => placed[p].at <= now /\ queue[p] # "absent"
SentIsRecorded ==
    \A p \in Sent : \/ ledger[p] # None /\ placed[p].at <= ledger[p] + MaxConsentAge
                    \/ pass.pc = "placing" /\ pass.subject = p

\* After a placement that went wrong the pass is about to write the latch, or it is
\* written and no consent is open, or the writing is known to have failed; an order
\* that left over a latch leaves it set and its consent used.
LatchHolds ==
    /\ trouble.due /\ ~trouble.unwritten =>
          \/ pass.pc = "disarm"
          \/ latch /\ pass.pc \notin {"consent", "placing"}
    /\ trouble.latched > 0 => latch /\ pass.pc # "consent"

SweepInv ==
    /\ TypeOK
    /\ CreatedOnce /\ RecordedIsDecided
    /\ PassInOrder /\ ConsentStands /\ PlacingIsFresh
    /\ PlacedInPast /\ SentIsRecorded
    /\ LatchHolds
    /\ SentOnConsent /\ LatchStops /\ HourlyAllowance /\ DailyRiskBounded

-------------------------------------------------------------------------------
(* Times, passes and budgets                                                   *)

\* The constants that times are compared with.
LEMMA BoundFacts ==
    /\ Hour \in Nat /\ MinAge \in Nat /\ MaxReportAge \in Nat /\ MaxConsentAge \in Nat
    /\ Cooldown \in Nat /\ MaxTrades \in Nat /\ MaxOfDetector \in Nat /\ MaxDailyRisk \in Nat
    /\ Horizon \in Nat /\ MaxFaults \in Nat /\ DayLength \in Nat /\ DayLength > 0
    /\ IsFiniteSet(Proposals) /\ \A p \in Proposals : Loss[p] \in Nat
    /\ MaxConsentAge <= Hour
BY SweepAssumption

\* A time is a number, and None is not one.
LEMMA TimeFacts ==
    /\ Time \subseteq Nat /\ None \notin Time /\ 0 \in Time
BY SweepAssumption DEF Time

\* What the loop of a pass goes on with: it is at the gate, or over.
LEMMA ContinueFacts ==
    ASSUME pass \in Pass, NEW S \in SUBSET Proposals, NEW t \in Maybe(Time)
    PROVE  /\ Continue(S, t) \in Pass
           /\ Continue(S, t).pc \in {"off", "gate"}
           /\ Continue(S, t).todo = S
           /\ Continue(S, t).pc = "gate" => /\ Continue(S, t).start = pass.start
                                            /\ Continue(S, t).ts = t
           /\ Continue(S, t).pc = "off" => Continue(S, t).ts = None
<1>1. CASE S = {}
  BY <1>1, TimeFacts DEF Continue, NoPass, Pass, Maybe
<1>2. CASE S # {}
  BY <1>2, TimeFacts DEF Continue, Pass, Maybe
<1> QED BY <1>1, <1>2

\* The gate's budget is that of the audit trail.
LEMMA BudgetIs ==
    ASSUME NEW p, NEW n
    PROVE  WithinBudget(p, n) <=> Budgeted(ledger, p, n)
BY DEF WithinBudget, Budgeted, InHour, Recorded, RiskOfDay, RiskOf

\* Division with a remainder.
LEMMA DivMod ==
    ASSUME NEW n \in Nat, NEW d \in Nat, d > 0
    PROVE  \E q \in Int : \E r \in 0 .. (d - 1) : n = d * q + r /\ n % d = r
<1> DEFINE q == n \div d
<1>1. q \in Int /\ n = d * q + (n % d) /\ n % d \in 0 .. (d - 1)
  OBVIOUS
<1> QED BY <1>1

\* Midnight does not go backwards.
LEMMA DayStartMonotone ==
    ASSUME NEW a \in Nat, NEW b \in Nat, a <= b
    PROVE  DayStart(a) \in Int /\ DayStart(b) \in Int /\ DayStart(a) <= DayStart(b)
           /\ DayStart(b) <= b
<1> DEFINE d == DayLength
<1>1. d \in Nat /\ d > 0
  BY BoundFacts
<1>2. PICK i \in Int : \E r \in 0 .. (d - 1) : a = d * i + r /\ a % d = r
  BY <1>1, DivMod
<1>3. PICK r \in 0 .. (d - 1) : a = d * i + r /\ a % d = r
  BY <1>2
<1>4. PICK j \in Int : \E s \in 0 .. (d - 1) : b = d * j + s /\ b % d = s
  BY <1>1, DivMod
<1>5. PICK s \in 0 .. (d - 1) : b = d * j + s /\ b % d = s
  BY <1>4
<1>6. DayStart(a) = a - r /\ DayStart(b) = b - s
  BY <1>3, <1>5 DEF DayStart
<1> HIDE DEF d
<1> DEFINE x == d * i
           y == d * j
<1>7. x \in Int /\ y \in Int
  BY <1>1
<1>8. i <= j
  <2> SUFFICES ASSUME j + 1 <= i PROVE FALSE
    OBVIOUS
  <2>1. d * (j + 1) <= x
    BY <1>1
  <2>2. d * (j + 1) = y + d
    BY <1>1
  <2>3. a = x + r /\ b = y + s
    BY <1>3, <1>5
  <2> HIDE DEF x, y
  <2> QED BY <1>1, <1>7, <2>1, <2>2, <2>3
<1>9. x <= y
  BY <1>1, <1>8
<1>10. a = x + r /\ b = y + s
  BY <1>3, <1>5
<1> HIDE DEF x, y
<1> QED BY <1>1, <1>6, <1>7, <1>9, <1>10

-------------------------------------------------------------------------------
(* Every step                                                                  *)

\* The machine before its first pass.
LEMMA SweepInit == Init => SweepInv
<1> SUFFICES ASSUME Init PROVE SweepInv
  OBVIOUS
<1>1. Sent = {} /\ Recorded = {}
  BY DEF Init, Sent, Recorded
<1>2. TypeOK
  <2>1. NoPass \in Pass
    BY TimeFacts DEF NoPass, Pass, Maybe
  <2>2. Calm \in [latched : Nat, due : BOOLEAN, troubled : Nat, unwritten : BOOLEAN]
    BY DEF Calm
  <2>3. 0 \in 0 .. MaxFaults
    BY BoundFacts
  <2> QED BY <2>1, <2>2, <2>3, TimeFacts DEF Init, TypeOK, Maybe
<1>3. DailyRiskBounded
  <2>1. ASSUME NEW n \in Time
        PROVE  RiskOf({p \in Recorded : DayStart(ledger[p]) = DayStart(n)}) <= MaxDailyRisk
    <3>1. {p \in Recorded : DayStart(ledger[p]) = DayStart(n)} = {}
      BY <1>1
    <3> QED BY <3>1, TotalOverEmpty, BoundFacts DEF RiskOf
  <2> QED BY <2>1 DEF DailyRiskBounded
<1>4. HourlyAllowance
  BY <1>1 DEF HourlyAllowance
<1>5. CreatedOnce /\ RecordedIsDecided /\ PassInOrder /\ ConsentStands /\ PlacingIsFresh
  BY DEF Init, CreatedOnce, RecordedIsDecided, PassInOrder, ConsentStands, PlacingIsFresh, NoPass
<1>6. PlacedInPast /\ SentIsRecorded /\ LatchHolds /\ SentOnConsent /\ LatchStops
  BY <1>1 DEF Init, PlacedInPast, SentIsRecorded, LatchHolds, SentOnConsent, LatchStops,
              Calm, NoPass
<1> QED BY <1>2, <1>3, <1>4, <1>5, <1>6 DEF SweepInv

LEMMA TypeStep ==
    ASSUME SweepInv, [Next]_vars
    PROVE  TypeOK'
<1> USE DEF TypeOK
<1>1. TypeOK /\ Time \subseteq Nat /\ None \notin Time /\ MaxFaults \in Nat
      /\ pass.todo \in SUBSET Proposals /\ pass.ts \in Maybe(Time) /\ now \in Maybe(Time)
      /\ Began \in Time /\ NoPass \in Pass
  <2>1. TypeOK /\ Time \subseteq Nat /\ None \notin Time /\ MaxFaults \in Nat
    BY TimeFacts, BoundFacts DEF SweepInv
  <2>2. pass.todo \in SUBSET Proposals /\ pass.ts \in Maybe(Time) /\ now \in Maybe(Time)
    BY <2>1 DEF Pass, Maybe
  <2>3. NoPass \in Pass
    BY TimeFacts DEF NoPass, Pass, Maybe
  <2> QED BY <2>1, <2>2, <2>3 DEF Began, Maybe
<1>2. CASE Tick
  <2>1. now' \in Time
    BY <1>1, <1>2, BoundFacts DEF Tick, Time
  <2> QED BY <1>1, <1>2, <2>1 DEF Tick, world, history
<1>3. ASSUME NEW p \in Proposals, Propose(p) PROVE TypeOK'
  BY <1>1, <1>3 DEF Propose, world, history, Maybe
<1>4. ASSUME NEW p \in Proposals, Withdraw(p) PROVE TypeOK'
  BY <1>1, <1>4 DEF Withdraw, world, history
<1>5. ASSUME NEW S \in SUBSET Detectors, Refresh(S) PROVE TypeOK'
  BY <1>1, <1>5 DEF Refresh, history, Maybe, Evidence
<1>6. CASE OperatorDisarm
  BY <1>1, <1>6 DEF OperatorDisarm, history
<1>7. CASE Rearm
  BY <1>1, <1>7 DEF Rearm, Calm
<1>8. CASE RedisDown \/ RedisUp
  <2>1. CASE RedisDown
    <3>1. faults' \in 0 .. MaxFaults
      BY <1>1, <2>1 DEF RedisDown
    <3> QED BY <1>1, <2>1, <3>1 DEF RedisDown, history
  <2>2. CASE RedisUp
    BY <1>1, <2>2 DEF RedisUp, history
  <2> QED BY <1>8, <2>1, <2>2
<1>9. ASSUME NEW S \in SUBSET Proposals, BeginPass(S) PROVE TypeOK'
  <2>1. pass' \in Pass
    BY <1>1, <1>9 DEF BeginPass, NoPass, Pass, Maybe
  <2> QED BY <1>1, <1>9, <2>1 DEF BeginPass, world, history
<1>10. ASSUME NEW p \in Proposals, Consent(p) PROVE TypeOK'
  <2>1. evidence.at \in Time
    BY <1>1, <1>10 DEF Consent, MayApprove, Proven, Maybe, Evidence
  <2>2. pass' \in Pass
    BY <1>1, <1>10, <2>1 DEF Consent, Pass, Maybe
  <2> QED BY <1>1, <1>10, <2>2 DEF Consent, world, history
<1>11. ASSUME NEW p \in Proposals, Refuse(p) PROVE TypeOK'
  <2>1. PICK t \in {pass.ts, Began} : pass' = Continue(pass.todo \ {p}, t)
    BY <1>11 DEF Refuse
  <2>2. t \in Maybe(Time) /\ pass.todo \ {p} \in SUBSET Proposals
    BY <1>1 DEF Maybe
  <2>3. pass' \in Pass
    BY <1>1, <2>1, <2>2, ContinueFacts
  <2> QED BY <1>1, <1>11, <2>3 DEF Refuse, world, history
<1>12. CASE Approve
  <2>1. pass' \in Pass
    BY <1>1, <1>12 DEF Approve, Pass
  <2>2. trouble' \in [latched : Nat, due : BOOLEAN, troubled : Nat, unwritten : BOOLEAN]
    <3> DEFINE a == IF latch THEN 1 ELSE 0
               b == IF trouble.due THEN 1 ELSE 0
    <3>1. trouble' = [trouble EXCEPT !.latched = @ + a, !.troubled = @ + b]
      BY <1>12 DEF Approve
    <3>2. a \in Nat /\ b \in Nat
      OBVIOUS
    <3> HIDE DEF a, b
    <3>3. trouble \in [latched : Nat, due : BOOLEAN, troubled : Nat, unwritten : BOOLEAN]
      BY <1>1
    <3>4. trouble.latched + a \in Nat /\ trouble.troubled + b \in Nat
      BY <3>2, <3>3
    <3> HIDE DEF TypeOK
    <3> QED BY <3>1, <3>3, <3>4
  <2>3. placed' \in [Proposals -> Maybe([at : Time, evidence : Time])]
    <3>1. pass.evidence \in Time
      BY <1>1, <1>12 DEF Approve, SweepInv, ConsentStands, Pass, Maybe
    <3> QED BY <1>1, <1>12, <3>1 DEF Approve, Maybe
  <2> QED BY <1>1, <1>12, <2>1, <2>2, <2>3 DEF Approve, world
<1>13. CASE Interlocked
  <2>1. PICK S \in {pass.todo, {}} : pass' = Continue(S, None)
    BY <1>13 DEF Interlocked
  <2>2. None \in Maybe(Time) /\ S \in SUBSET Proposals
    BY <1>1 DEF Maybe
  <2>3. pass' \in Pass
    BY <1>1, <2>1, <2>2, ContinueFacts
  <2> QED BY <1>1, <1>13, <2>3 DEF Interlocked, world, history
<1>14. ASSUME NEW wrong \in BOOLEAN, Commit(wrong) PROVE TypeOK'
  <2>1. pass' \in Pass
    <3>1. CASE wrong
      BY <1>1, <1>14, <3>1 DEF Commit, AfterCommit, Pass
    <3>2. CASE ~wrong
      BY <1>1, <1>14, <3>2, ContinueFacts DEF Commit, AfterCommit, Maybe
    <3> QED BY <3>1, <3>2
  <2>2. trouble' \in [latched : Nat, due : BOOLEAN, troubled : Nat, unwritten : BOOLEAN]
    BY <1>1, <1>14 DEF Commit
  <2>3. ledger' \in [Proposals -> Maybe(Time)]
    BY <1>1, <1>14 DEF Commit
  <2> QED BY <1>1, <1>14, <2>1, <2>2, <2>3 DEF Commit, world
<1>15. CASE Disarm
  <2>1. trouble' \in [latched : Nat, due : BOOLEAN, troubled : Nat, unwritten : BOOLEAN]
    BY <1>1, <1>15 DEF Disarm
  <2> QED BY <1>1, <1>15, <2>1 DEF Disarm
<1>16. CASE Crash
  <2>1. trouble' \in [latched : Nat, due : BOOLEAN, troubled : Nat, unwritten : BOOLEAN]
    BY <1>1, <1>16 DEF Crash
  <2>2. lost' \subseteq Proposals
    BY <1>1, <1>16 DEF Crash, SweepInv, ConsentStands
  <2> QED BY <1>1, <1>16, <2>1, <2>2 DEF Crash, Maybe
<1>17. CASE UNCHANGED vars
  BY <1>1, <1>17 DEF vars
<1> QED BY <1>2, <1>3, <1>4, <1>5, <1>6, <1>7, <1>8, <1>9, <1>10, <1>11, <1>12, <1>13,
           <1>14, <1>15, <1>16, <1>17 DEF Next

\* Rows of the queue and of the audit trail.
LEMMA RowsStep ==
    ASSUME SweepInv, [Next]_vars
    PROVE  CreatedOnce' /\ RecordedIsDecided'
<1> DEFINE R == CreatedOnce /\ RecordedIsDecided
<1> USE DEF CreatedOnce, RecordedIsDecided, TypeOK
<1>1. TypeOK /\ R /\ ConsentStands
  BY DEF SweepInv
<1>2. CASE queue' = queue /\ created' = created /\ ledger' = ledger
  BY <1>1, <1>2
<1>3. ASSUME NEW p \in Proposals, Propose(p) PROVE R'
  BY <1>1, <1>3 DEF Propose
<1>4. ASSUME NEW p \in Proposals, Withdraw(p) PROVE R'
  BY <1>1, <1>4 DEF Withdraw
<1>5. ASSUME NEW wrong \in BOOLEAN, Commit(wrong) PROVE R'
  BY <1>1, <1>5 DEF Commit, ConsentStands
<1>6. \/ queue' = queue /\ created' = created /\ ledger' = ledger
      \/ \E p \in Proposals : Propose(p) \/ Withdraw(p)
      \/ \E wrong \in BOOLEAN : Commit(wrong)
  BY DEF Next, vars, Tick, Refresh, OperatorDisarm, Rearm, RedisDown, RedisUp, BeginPass,
         Consent, Refuse, Approve, Interlocked, Disarm, Crash
<1> QED BY <1>2, <1>3, <1>4, <1>5, <1>6

\* The pass and what its consent rests on.
LEMMA PassStep ==
    ASSUME SweepInv, [Next]_vars
    PROVE  PassInOrder' /\ ConsentStands' /\ PlacingIsFresh'
<1> DEFINE P == PassInOrder /\ ConsentStands /\ PlacingIsFresh
<1> USE DEF PassInOrder, ConsentStands, PlacingIsFresh
<1>1. TypeOK /\ CreatedOnce /\ P
  BY DEF SweepInv
<1>2. /\ pass \in Pass /\ now \in Nat /\ pass.start \in Nat
      /\ pass.todo \in SUBSET Proposals /\ pass.ts \in Maybe(Time) /\ now \in Maybe(Time)
      /\ None \in Maybe(Time) /\ None \notin Nat /\ Began \in Maybe(Time)
      /\ queue \in [Proposals -> {"absent", "pending", "decided"}]
  <2>1. TypeOK /\ Time \subseteq Nat
    BY <1>1, TimeFacts
  <2> QED BY <2>1, SweepAssumption DEF TypeOK, Pass, Maybe, Began
<1>3. ASSUME pass' = NoPass PROVE P'
  BY <1>3 DEF NoPass
<1>4. ASSUME NEW S \in SUBSET pass.todo, NEW t \in Maybe(Time), pass' = Continue(S, t),
             pass.pc # "off", t # None => pass.start <= t /\ t <= now, now' = now,
             \A p \in Proposals : queue[p] # "absent" => queue'[p] # "absent"
      PROVE  P'
  <2>1. S \in SUBSET Proposals
    BY <1>2
  <2>2. /\ pass'.pc \in {"off", "gate"} /\ pass'.todo = S
        /\ pass'.pc = "gate" => pass'.start = pass.start /\ pass'.ts = t
        /\ pass'.pc = "off" => pass'.ts = None
    BY <1>2, <1>4, <2>1, ContinueFacts
  <2> QED BY <1>1, <1>2, <1>4, <2>1, <2>2
<1>5. CASE Tick
  <2>1. /\ now' = now + 1 /\ pass' = pass /\ queue' = queue /\ created' = created
        /\ ledger' = ledger /\ placed' = placed
    BY <1>5 DEF Tick, world, history
  <2>2. pass.ts # None => pass.ts \in Nat
    BY <1>2, TimeFacts DEF Maybe
  <2>3. PassInOrder'
    BY <1>1, <1>2, <2>1, <2>2
  <2>4. ConsentStands' /\ PlacingIsFresh'
    BY <1>1, <2>1
  <2> QED BY <2>3, <2>4
<1>6. ASSUME NEW p \in Proposals, Propose(p) PROVE P'
  BY <1>1, <1>2, <1>6 DEF Propose, world, history, TypeOK
<1>7. ASSUME NEW p \in Proposals, Withdraw(p) PROVE P'
  BY <1>1, <1>2, <1>7 DEF Withdraw, world, history, TypeOK
<1>8. ASSUME \/ \E S \in SUBSET Detectors : Refresh(S)
             \/ OperatorDisarm \/ Rearm \/ RedisDown \/ RedisUp \/ UNCHANGED vars
      PROVE  P'
  BY <1>1, <1>8 DEF Refresh, OperatorDisarm, Rearm, RedisDown, RedisUp, history, vars
<1>9. ASSUME NEW S \in SUBSET Proposals, BeginPass(S) PROVE P'
  <2>1. \A p \in S : queue[p] # "absent"
    BY <1>9 DEF BeginPass, Candidates, Pending
  <2>2. pass' = [NoPass EXCEPT !.pc = "gate", !.start = now, !.todo = S, !.ts = now]
        /\ now' = now /\ queue' = queue
    BY <1>9 DEF BeginPass
  <2>3. pass'.pc = "gate" /\ pass'.start = now /\ pass'.todo = S /\ pass'.ts = now
    BY <2>2 DEF NoPass
  <2> QED BY <1>2, <2>1, <2>2, <2>3
<1>10. ASSUME NEW p \in Proposals, Consent(p) PROVE P'
  <2>1. /\ pass'.pc = "consent" /\ pass'.subject = p /\ pass'.todo = pass.todo \ {p}
        /\ pass'.evidence = evidence.at /\ pass'.ts = Began /\ pass'.start = pass.start
    BY <1>2, <1>10 DEF Consent, Pass
  <2>2. pass.pc = "gate" /\ p \in pass.todo /\ MayApprove(p, pass.start)
        /\ now' = now /\ queue' = queue /\ created' = created /\ ledger' = ledger
    BY <1>10 DEF Consent, Oldest, world, history
  <2>3. Began # None /\ pass.start <= Began /\ Began <= now
    BY <1>1, <1>2, <2>2 DEF Began
  <2>4. Budgeted(ledger, p, pass.start)
    BY <2>2, BudgetIs DEF MayApprove
  <2>5. /\ DetectorOf[p] # Manual /\ pass.start - created[p] >= MinAge
        /\ pass.start - evidence.at <= MaxReportAge /\ evidence.at # None
    BY <1>1, <2>2, TimeFacts DEF MayApprove, Proven, TypeOK, Maybe, Evidence
  <2> QED BY <1>1, <2>1, <2>2, <2>3, <2>4, <2>5
<1>11. ASSUME NEW p \in Proposals, Refuse(p) PROVE P'
  <2>1. PICK t \in {pass.ts, Began} : pass' = Continue(pass.todo \ {p}, t)
    BY <1>11 DEF Refuse
  <2>2. pass.pc = "gate" /\ now' = now /\ queue' = queue
    BY <1>11 DEF Refuse
  <2>3. t \in Maybe(Time) /\ (t # None => pass.start <= t /\ t <= now)
    BY <1>1, <1>2, <2>2 DEF Began
  <2> QED BY <1>2, <1>4, <2>1, <2>2, <2>3
<1>12. CASE Approve
  <2>1. /\ pass'.pc = "placing" /\ pass'.subject = pass.subject /\ pass'.todo = pass.todo
        /\ pass'.evidence = pass.evidence /\ pass'.ts = pass.ts /\ pass'.start = pass.start
    BY <1>2, <1>12 DEF Approve, Pass
  <2>2. /\ pass.pc = "consent" /\ queue[pass.subject] = "pending"
        /\ now - pass.start <= MaxConsentAge
        /\ now' = now /\ queue' = queue /\ created' = created /\ ledger' = ledger
    BY <1>12 DEF Approve, Cleared, Fresh
  <2>3. placed'[pass.subject].at = now
    BY <1>1, <1>12, <2>2 DEF Approve, TypeOK
  <2> QED BY <1>1, <2>1, <2>2, <2>3
<1>13. CASE Interlocked
  <2>1. PICK S \in {pass.todo, {}} : pass' = Continue(S, None)
    BY <1>13 DEF Interlocked
  <2>2. pass.pc = "consent" /\ now' = now /\ queue' = queue /\ S \in SUBSET pass.todo
    BY <1>13 DEF Interlocked
  <2> QED BY <1>2, <1>4, <2>1, <2>2
<1>14. ASSUME NEW wrong \in BOOLEAN, Commit(wrong) PROVE P'
  <2>1. pass.pc = "placing" /\ now' = now /\ pass' = AfterCommit(wrong)
        /\ queue' = [queue EXCEPT ![pass.subject] = "decided"]
    BY <1>14 DEF Commit, world
  <2>2. \A p \in Proposals : queue[p] # "absent" => queue'[p] # "absent"
    BY <1>2, <2>1
  <2>3. CASE wrong
    <3>1. pass' = [pass EXCEPT !.pc = "disarm"]
      BY <2>1, <2>3 DEF AfterCommit
    <3>2. pass'.pc = "disarm" /\ pass'.todo = pass.todo /\ pass'.ts = pass.ts
          /\ pass'.start = pass.start
      BY <1>2, <3>1 DEF Pass
    <3> QED BY <1>1, <1>2, <2>1, <2>2, <3>2
  <2>4. CASE ~wrong
    BY <1>2, <1>4, <2>1, <2>2, <2>4 DEF AfterCommit
  <2> QED BY <2>3, <2>4
<1>15. CASE Disarm \/ Crash
  BY <1>3, <1>15 DEF Disarm, Crash
<1> HIDE DEF P
<1> QED BY <1>5, <1>6, <1>7, <1>8, <1>9, <1>10, <1>11, <1>12, <1>13, <1>14, <1>15 DEF Next, P

\* Which orders left: one more with an approval, none with any other step.
LEMMA SentShrinks ==
    ASSUME placed' = placed, lost \subseteq lost'
    PROVE  Sent' \subseteq Sent
BY DEF Sent

\* Every order that left and is not lost has an audit row, or is being placed.
LEMMA SentStep ==
    ASSUME SweepInv, [Next]_vars
    PROVE  PlacedInPast' /\ SentIsRecorded'
<1> DEFINE P == PlacedInPast /\ SentIsRecorded
<1> USE DEF PlacedInPast, SentIsRecorded, Sent
<1>1. TypeOK /\ P /\ RecordedIsDecided /\ PassInOrder /\ ConsentStands /\ PlacingIsFresh
  BY DEF SweepInv
<1>2. /\ pass \in Pass /\ now \in Nat /\ pass.start \in Nat /\ MaxConsentAge \in Nat
      /\ queue \in [Proposals -> {"absent", "pending", "decided"}]
      /\ ledger \in [Proposals -> Maybe(Time)]
      /\ placed \in [Proposals -> Maybe([at : Time, evidence : Time])]
      /\ \A p \in Proposals : placed[p] # None => placed[p].at \in Nat
      /\ pass.ts # None => pass.ts \in Nat
  <2>1. TypeOK /\ Time \subseteq Nat /\ MaxConsentAge \in Nat
    BY <1>1, TimeFacts, BoundFacts
  <2> QED BY <2>1 DEF TypeOK, Pass, Maybe
<1>3. CASE /\ placed' = placed /\ ledger' = ledger /\ lost' = lost
           /\ now <= now' /\ now' \in Nat
           /\ \A p \in Proposals : queue[p] # "absent" => queue'[p] # "absent"
           /\ pass.pc = "placing" => pass' = pass
  BY <1>1, <1>2, <1>3
<1>4. ASSUME Tick \/ (\E S \in SUBSET Detectors : Refresh(S)) \/ OperatorDisarm \/ Rearm
             \/ RedisDown \/ RedisUp \/ (\E S \in SUBSET Proposals : BeginPass(S))
             \/ (\E p \in Proposals : Propose(p) \/ Withdraw(p) \/ Consent(p) \/ Refuse(p))
             \/ Interlocked \/ Disarm \/ UNCHANGED vars
      PROVE  /\ placed' = placed /\ ledger' = ledger /\ lost' = lost
             /\ now <= now' /\ now' \in Nat
             /\ \A p \in Proposals : queue[p] # "absent" => queue'[p] # "absent"
             /\ pass.pc = "placing" => pass' = pass
  <2>1. CASE Tick
    BY <1>2, <2>1 DEF Tick, history
  <2>2. CASE (\E S \in SUBSET Detectors : Refresh(S)) \/ OperatorDisarm \/ Rearm
             \/ RedisDown \/ RedisUp \/ UNCHANGED vars
    BY <1>2, <2>2 DEF Refresh, OperatorDisarm, Rearm, RedisDown, RedisUp, history, vars
  <2>3. CASE (\E S \in SUBSET Proposals : BeginPass(S)) \/ Interlocked \/ Disarm
             \/ (\E p \in Proposals : Consent(p) \/ Refuse(p))
    <3>1. pass.pc # "placing"
      BY <2>3 DEF BeginPass, Interlocked, Disarm, Consent, Refuse
    <3>2. ASSUME NEW S \in SUBSET Proposals, BeginPass(S)
          PROVE  placed' = placed /\ ledger' = ledger /\ lost' = lost /\ now' = now
                 /\ queue' = queue
      BY <3>2 DEF BeginPass, history
    <3>3. ASSUME NEW p \in Proposals, Consent(p) \/ Refuse(p)
          PROVE  placed' = placed /\ ledger' = ledger /\ lost' = lost /\ now' = now
                 /\ queue' = queue
      BY <3>3 DEF Consent, Refuse, history
    <3>4. CASE Interlocked \/ Disarm
      BY <1>2, <3>1, <3>4 DEF Interlocked, Disarm, history
    <3> QED BY <1>2, <2>3, <3>1, <3>2, <3>3, <3>4
  <2>4. ASSUME NEW p \in Proposals, Propose(p) \/ Withdraw(p)
        PROVE  /\ placed' = placed /\ ledger' = ledger /\ lost' = lost
               /\ now <= now' /\ now' \in Nat
               /\ \A q \in Proposals : queue[q] # "absent" => queue'[q] # "absent"
               /\ pass.pc = "placing" => pass' = pass
    BY <1>2, <2>4 DEF Propose, Withdraw, history
  <2> QED BY <1>4, <2>1, <2>2, <2>3, <2>4
<1>5. CASE Approve
  <2> DEFINE s == pass.subject
  <2>1. /\ pass.pc = "consent" /\ s \in Proposals /\ queue[s] = "pending"
        /\ placed' = [placed EXCEPT ![s] = [at |-> now, evidence |-> pass.evidence]]
        /\ lost' = lost \ {s} /\ ledger' = ledger /\ queue' = queue /\ now' = now
    BY <1>1, <1>5 DEF Approve, Cleared, ConsentStands
  <2>2. pass'.pc = "placing" /\ pass'.subject = s
    BY <1>2, <1>5 DEF Approve, Pass
  <2>3. placed'[s].at = now /\ \A q \in Proposals \ {s} : placed'[q] = placed[q]
    BY <1>2, <2>1
  <2> HIDE DEF s
  <2> QED BY <1>1, <1>2, <2>1, <2>2, <2>3
<1>6. ASSUME NEW wrong \in BOOLEAN, Commit(wrong) PROVE P'
  <2> DEFINE s == pass.subject
  <2>1. /\ pass.pc = "placing" /\ s \in Proposals /\ pass.ts # None
        /\ placed[s] # None => placed[s].at - pass.start <= MaxConsentAge
        /\ pass.start <= pass.ts
        /\ ledger' = [ledger EXCEPT ![s] = pass.ts]
        /\ queue' = [queue EXCEPT ![s] = "decided"]
        /\ placed' = placed /\ lost' = lost /\ now' = now
    BY <1>1, <1>6 DEF Commit, ConsentStands, PlacingIsFresh, PassInOrder, world
  <2>2. ledger'[s] = pass.ts /\ \A q \in Proposals \ {s} : ledger'[q] = ledger[q]
    BY <1>2, <2>1
  <2>3. placed[s] # None => placed[s].at <= pass.ts + MaxConsentAge
    BY <1>2, <2>1
  <2>4. \A q \in Proposals : queue[q] # "absent" => queue'[q] # "absent"
    BY <1>2, <2>1
  <2> HIDE DEF s
  <2>5. PlacedInPast'
    BY <1>1, <2>1, <2>4
  <2>6. SentIsRecorded'
    BY <1>1, <2>1, <2>2, <2>3 DEF s
  <2> QED BY <2>5, <2>6
<1>7. CASE Crash
  <2>1. placed' = placed /\ ledger' = ledger /\ now' = now /\ queue' = queue
        /\ lost \subseteq lost' /\ (pass.pc = "placing" => pass.subject \in lost')
    BY <1>7 DEF Crash
  <2> QED BY <1>1, <1>2, <2>1
<1> HIDE DEF P
<1>8. CASE \/ Tick \/ (\E S \in SUBSET Detectors : Refresh(S)) \/ OperatorDisarm \/ Rearm
           \/ RedisDown \/ RedisUp \/ (\E S \in SUBSET Proposals : BeginPass(S))
           \/ (\E p \in Proposals : Propose(p) \/ Withdraw(p) \/ Consent(p) \/ Refuse(p))
           \/ Interlocked \/ Disarm \/ UNCHANGED vars
  BY <1>3, <1>4, <1>8 DEF P
<1> QED BY <1>5, <1>6, <1>7, <1>8 DEF Next, P

\* The latch, and what left although it was set.
LEMMA LatchStep ==
    ASSUME SweepInv, [Next]_vars
    PROVE  LatchHolds' /\ LatchStops'
<1> DEFINE P == LatchHolds /\ LatchStops
<1> USE DEF LatchHolds, LatchStops
<1>1. /\ P /\ pass \in Pass /\ latch \in BOOLEAN
      /\ trouble \in [latched : Nat, due : BOOLEAN, troubled : Nat, unwritten : BOOLEAN]
  BY DEF SweepInv, TypeOK
<1>2. CASE /\ trouble' = trouble /\ latch' = latch
           /\ \/ pass'.pc = pass.pc
              \/ pass.pc # "disarm" /\ pass'.pc \in {"off", "gate"}
  BY <1>1, <1>2
<1>3. CASE Tick \/ (\E S \in SUBSET Detectors : Refresh(S)) \/ RedisDown \/ RedisUp
           \/ (\E p \in Proposals : Propose(p) \/ Withdraw(p)) \/ UNCHANGED vars
  <2> SUFFICES trouble' = trouble /\ latch' = latch /\ pass' = pass
    BY <1>1
  <2>1. CASE Tick \/ RedisDown \/ RedisUp \/ UNCHANGED vars
    BY <2>1 DEF Tick, RedisDown, RedisUp, world, history, vars
  <2>2. ASSUME NEW S \in SUBSET Detectors, Refresh(S)
        PROVE  trouble' = trouble /\ latch' = latch /\ pass' = pass
    BY <2>2 DEF Refresh, history
  <2>3. ASSUME NEW p \in Proposals, Propose(p) \/ Withdraw(p)
        PROVE  trouble' = trouble /\ latch' = latch /\ pass' = pass
    BY <2>3 DEF Propose, Withdraw, world, history
  <2> QED BY <1>3, <2>1, <2>2, <2>3
<1>4. CASE OperatorDisarm
  BY <1>1, <1>4 DEF OperatorDisarm, history
<1>5. CASE Rearm
  BY <1>1, <1>5 DEF Rearm, Calm
<1>6. ASSUME NEW S \in SUBSET Proposals, BeginPass(S) PROVE P'
  BY <1>1, <1>2, <1>6 DEF BeginPass, NoPass, world, history
<1>7. ASSUME NEW p \in Proposals, Consent(p) PROVE P'
  <2>1. pass.pc = "gate" /\ ~latch /\ trouble' = trouble /\ latch' = latch
    BY <1>7 DEF Consent, MayApprove, Latched, world, history
  <2> QED BY <1>1, <2>1
<1>8. ASSUME NEW S \in SUBSET pass.todo, NEW t \in Maybe(Time), pass' = Continue(S, t)
      PROVE  pass'.pc \in {"off", "gate"}
  <2>1. S \in SUBSET Proposals
    BY <1>1 DEF Pass
  <2> QED BY <1>1, <1>8, <2>1, ContinueFacts
<1>9. None \in Maybe(Time) /\ pass.ts \in Maybe(Time) /\ Began \in Maybe(Time)
  BY <1>1 DEF SweepInv, TypeOK, Pass, Maybe, Began
<1>10. ASSUME NEW p \in Proposals, Refuse(p) PROVE P'
  <2>1. PICK t \in {pass.ts, Began} : pass' = Continue(pass.todo \ {p}, t)
    BY <1>10 DEF Refuse
  <2>2. t \in Maybe(Time) /\ pass.todo \ {p} \in SUBSET pass.todo
    BY <1>9
  <2>3. pass'.pc \in {"off", "gate"}
    BY <1>8, <2>1, <2>2
  <2> QED BY <1>2, <1>10, <2>3 DEF Refuse, world, history
<1>11. CASE Approve
  <2>1. /\ pass.pc = "consent" /\ pass'.pc = "placing" /\ latch' = latch
        /\ trouble'.latched = trouble.latched + (IF latch THEN 1 ELSE 0)
        /\ trouble'.troubled = trouble.troubled + (IF trouble.due THEN 1 ELSE 0)
        /\ trouble'.due = trouble.due /\ trouble'.unwritten = trouble.unwritten
    BY <1>1, <1>11 DEF Approve, Pass, world
  <2>2. trouble.latched \in Nat /\ trouble.troubled \in Nat
    BY <1>1
  <2>3. trouble.latched = 0
    BY <1>1, <2>1, <2>2
  <2>4. LatchHolds'
    BY <1>1, <2>1, <2>2, <2>3
  <2>5. LatchStops'
    BY <1>1, <2>1, <2>2, <2>3
  <2> QED BY <2>4, <2>5
<1>12. CASE Interlocked
  <2>1. PICK S \in {pass.todo, {}} : pass' = Continue(S, None)
    BY <1>12 DEF Interlocked
  <2>2. pass'.pc \in {"off", "gate"}
    BY <1>8, <1>9, <2>1
  <2> QED BY <1>2, <1>12, <2>2 DEF Interlocked, world, history
<1>13. ASSUME NEW wrong \in BOOLEAN, Commit(wrong) PROVE P'
  <2>1. /\ pass.pc = "placing" /\ pass' = AfterCommit(wrong) /\ latch' = latch
        /\ trouble' = [trouble EXCEPT !.due = @ \/ wrong]
    BY <1>13 DEF Commit, world
  <2>2. /\ trouble'.latched = trouble.latched /\ trouble'.troubled = trouble.troubled
        /\ trouble'.unwritten = trouble.unwritten /\ trouble'.due = (trouble.due \/ wrong)
    BY <1>1, <2>1
  <2>3. CASE wrong
    <3>1. pass'.pc = "disarm"
      BY <1>1, <2>1, <2>3 DEF AfterCommit, Pass
    <3> QED BY <1>1, <2>1, <2>2, <3>1
  <2>4. CASE ~wrong
    <3>1. pass'.pc \in {"off", "gate"}
      BY <1>8, <1>9, <2>1, <2>4 DEF AfterCommit
    <3> QED BY <1>1, <2>1, <2>2, <2>4, <3>1
  <2> QED BY <2>3, <2>4
<1>14. CASE Disarm
  <2>1. /\ pass.pc = "disarm" /\ pass'.pc = "off" /\ latch' = (latch \/ redis)
        /\ trouble' = [trouble EXCEPT !.unwritten = @ \/ ~redis]
    BY <1>14 DEF Disarm, NoPass
  <2>2. /\ trouble'.latched = trouble.latched /\ trouble'.troubled = trouble.troubled
        /\ trouble'.unwritten = (trouble.unwritten \/ ~redis) /\ trouble'.due = trouble.due
    BY <1>1, <2>1
  <2> QED BY <1>1, <2>1, <2>2
<1>15. CASE Crash
  <2>1. /\ pass'.pc = "off" /\ latch' = latch
        /\ trouble' = [trouble EXCEPT !.unwritten = @ \/ pass.pc = "disarm"]
    BY <1>15 DEF Crash, NoPass
  <2>2. /\ trouble'.latched = trouble.latched /\ trouble'.troubled = trouble.troubled
        /\ trouble'.unwritten = (trouble.unwritten \/ pass.pc = "disarm")
        /\ trouble'.due = trouble.due
    BY <1>1, <2>1
  <2> QED BY <1>1, <2>1, <2>2
<1> HIDE DEF P
<1>16. CASE (\E S \in SUBSET Proposals : BeginPass(S))
            \/ (\E p \in Proposals : Consent(p) \/ Refuse(p)) \/ Approve \/ Interlocked
            \/ (\E wrong \in BOOLEAN : Commit(wrong)) \/ Disarm \/ Crash
  BY <1>6, <1>7, <1>10, <1>11, <1>12, <1>13, <1>14, <1>15, <1>16 DEF P
<1> QED BY <1>3, <1>4, <1>5, <1>16 DEF Next, P

\* Only an approval sends, only a commit adds to the audit trail, and only the
\* proposal of something new dates it.
LEMMA WhoWrites ==
    ASSUME [Next]_vars
    PROVE  /\ (placed' = placed /\ lost \subseteq lost') \/ Approve
           /\ ledger' = ledger \/ \E wrong \in BOOLEAN : Commit(wrong)
           /\ created' = created \/ \E p \in Proposals : Propose(p)
<1> DEFINE P == /\ (placed' = placed /\ lost \subseteq lost') \/ Approve
                /\ ledger' = ledger \/ \E wrong \in BOOLEAN : Commit(wrong)
                /\ created' = created \/ \E p \in Proposals : Propose(p)
<1>1. CASE Tick \/ OperatorDisarm \/ Rearm \/ RedisDown \/ RedisUp \/ UNCHANGED vars
  BY <1>1 DEF Tick, OperatorDisarm, Rearm, RedisDown, RedisUp, history, vars
<1>2. ASSUME NEW S \in SUBSET Detectors, Refresh(S) PROVE P
  BY <1>2 DEF Refresh, history
<1>3. ASSUME NEW S \in SUBSET Proposals, BeginPass(S) PROVE P
  BY <1>3 DEF BeginPass, history
<1>4. ASSUME NEW p \in Proposals, Withdraw(p) \/ Consent(p) \/ Refuse(p) PROVE P
  BY <1>4 DEF Withdraw, Consent, Refuse, history
<1>5. ASSUME NEW p \in Proposals, Propose(p) PROVE P
  BY <1>5 DEF Propose, history
<1>6. CASE Approve
  BY <1>6 DEF Approve
<1>7. CASE Interlocked \/ Disarm
  BY <1>7 DEF Interlocked, Disarm, history
<1>8. CASE Crash
  BY <1>8 DEF Crash
<1>9. ASSUME NEW wrong \in BOOLEAN, Commit(wrong) PROVE P
  BY <1>9 DEF Commit
<1> HIDE DEF P
<1> QED BY <1>1, <1>2, <1>3, <1>4, <1>5, <1>6, <1>7, <1>8, <1>9 DEF Next, P

\* What an approval finds: a proposal still in the queue, a consent that is not yet
\* too old, and an audit row for everything that was sent before.
LEMMA ApproveFacts ==
    ASSUME SweepInv, Approve
    PROVE  LET s == pass.subject
           IN  /\ s \in Proposals \ Sent /\ Sent' \subseteq Sent \cup {s}
               /\ placed'[s] = [at |-> now, evidence |-> pass.evidence]
               /\ \A q \in Sent : placed'[q] = placed[q]
               /\ \A q \in Sent : /\ q \in Recorded /\ placed[q].at \in Nat
                                  /\ placed[q].at <= now /\ ledger[q] \in Nat
                                  /\ placed[q].at <= ledger[q] + MaxConsentAge
               /\ now \in Nat /\ pass.start \in Nat /\ pass.start <= now
               /\ now - pass.start <= MaxConsentAge
               /\ Budgeted(ledger, s, pass.start)
<1> DEFINE s == pass.subject
<1>1. /\ pass.pc = "consent" /\ s \in Proposals /\ queue[s] = "pending"
      /\ Budgeted(ledger, s, pass.start) /\ now - pass.start <= MaxConsentAge
      /\ placed' = [placed EXCEPT ![s] = [at |-> now, evidence |-> pass.evidence]]
      /\ lost' = lost \ {s}
  BY DEF SweepInv, ConsentStands, Approve, Cleared, Fresh
<1>2. /\ placed \in [Proposals -> Maybe([at : Time, evidence : Time])]
      /\ ledger \in [Proposals -> Maybe(Time)] /\ Time \subseteq Nat
      /\ now \in Nat /\ pass.start \in Nat /\ pass.start <= now
  BY <1>1, TimeFacts DEF SweepInv, TypeOK, Pass, PassInOrder
<1>3. \A q \in Sent : ledger[q] # None /\ placed[q].at <= ledger[q] + MaxConsentAge
                      /\ placed[q].at <= now /\ queue[q] = "decided"
  BY <1>1 DEF SweepInv, SentIsRecorded, PlacedInPast, RecordedIsDecided, Sent
<1>4. s \notin Sent
  BY <1>1, <1>3
<1>5. \A q \in Sent : placed[q].at \in Nat /\ ledger[q] \in Nat /\ q \in Recorded
  BY <1>2, <1>3 DEF Sent, Maybe, Recorded
<1>6. Sent' \subseteq Sent \cup {s}
  BY <1>1, <1>2 DEF Sent
<1>7. placed'[s] = [at |-> now, evidence |-> pass.evidence]
      /\ \A q \in Sent : placed'[q] = placed[q]
  BY <1>1, <1>2, <1>4 DEF Sent
<1> HIDE DEF s
<1> QED BY <1>1, <1>2, <1>3, <1>4, <1>5, <1>6, <1>7 DEF s

\* What was sent, was sent on a consent.
LEMMA ConsentStep ==
    ASSUME SweepInv, [Next]_vars
    PROVE  SentOnConsent'
<1> USE DEF SentOnConsent
<1>1. SentOnConsent /\ TypeOK /\ PlacedInPast /\ CreatedOnce
  BY DEF SweepInv
<1>2. CASE placed' = placed /\ created' = created
  BY <1>1, <1>2
<1>3. ASSUME NEW p \in Proposals, Propose(p) PROVE SentOnConsent'
  <2>1. placed' = placed /\ queue[p] = "absent"
        /\ \A q \in Proposals \ {p} : created'[q] = created[q]
    BY <1>1, <1>3 DEF Propose, history, TypeOK
  <2>2. placed[p] = None
    BY <1>1, <2>1 DEF PlacedInPast
  <2> QED BY <1>1, <2>1, <2>2
<1>4. CASE Approve
  <2> DEFINE s == pass.subject
  <2>1. /\ s \in Proposals /\ queue[s] # "absent" /\ DetectorOf[s] # Manual
        /\ pass.start - created[s] >= MinAge /\ pass.start - pass.evidence <= MaxReportAge
        /\ placed' = [placed EXCEPT ![s] = [at |-> now, evidence |-> pass.evidence]]
        /\ created' = created /\ pass.evidence # None
    BY <1>4 DEF SweepInv, ConsentStands, Approve
  <2>2. now \in Nat /\ pass.start \in Nat /\ pass.start <= now
        /\ now - pass.start <= MaxConsentAge
    BY <1>4, ApproveFacts
  <2>3. created[s] \in Nat /\ pass.evidence \in Nat
    BY <1>1, <2>1, TimeFacts DEF CreatedOnce, TypeOK, Pass, Maybe
  <2>4. placed'[s].at = now /\ placed'[s].evidence = pass.evidence
        /\ \A q \in Proposals \ {s} : placed'[q] = placed[q]
    BY <1>1, <2>1 DEF TypeOK
  <2>5. MinAge \in Nat /\ MaxReportAge \in Nat /\ MaxConsentAge \in Nat
    BY BoundFacts
  <2>6. now - created[s] >= MinAge /\ now - pass.evidence <= MaxReportAge + MaxConsentAge
    BY <2>1, <2>2, <2>3, <2>5
  <2> HIDE DEF s
  <2> QED BY <1>1, <2>1, <2>4, <2>6
<1> QED BY <1>2, <1>3, <1>4, WhoWrites

-------------------------------------------------------------------------------
(* The allowance of the hour                                                   *)

\* A part of a finite set has no more members, and with one member more at most one.
LEMMA Fewer ==
    ASSUME NEW S, IsFiniteSet(S), NEW T \in SUBSET S
    PROVE  IsFiniteSet(T) /\ Cardinality(T) \in Nat /\ Cardinality(S) \in Nat
           /\ Cardinality(T) <= Cardinality(S)
BY FS_Subset, FS_CardinalityType
LEMMA OneMore ==
    ASSUME NEW S, IsFiniteSet(S), NEW x, NEW T \in SUBSET (S \cup {x}), NEW n \in Nat,
           Cardinality(S) < n
    PROVE  Cardinality(T) <= n
<1>1. IsFiniteSet(S \cup {x}) /\ Cardinality(S \cup {x}) <= Cardinality(S) + 1
      /\ Cardinality(S) \in Nat
  <2>1. Cardinality(S) \in Nat
    BY FS_CardinalityType
  <2>2. CASE x \in S
    <3>1. S \cup {x} = S
      BY <2>2
    <3>2. IsFiniteSet(S \cup {x}) /\ Cardinality(S \cup {x}) = Cardinality(S)
      BY <3>1
    <3> QED BY <2>1, <3>2
  <2>3. CASE x \notin S
    <3>1. IsFiniteSet(S \cup {x})
          /\ Cardinality(S \cup {x}) = IF x \in S THEN Cardinality(S) ELSE Cardinality(S) + 1
      BY FS_AddElement
    <3>2. Cardinality(S \cup {x}) = Cardinality(S) + 1
      BY <2>3, <3>1
    <3>3. IsFiniteSet(S \cup {x})
      BY <3>1
    <3> QED BY <2>1, <3>2, <3>3
  <2> QED BY <2>2, <2>3
<1>2. Cardinality(T) \in Nat /\ Cardinality(S \cup {x}) \in Nat
      /\ Cardinality(T) <= Cardinality(S \cup {x})
  BY <1>1, Fewer
<1> QED BY <1>1, <1>2

\* HourlyAllowance, said of one order and any set of orders sent.
Near(S, at, p) ==
    {q \in S : at[q].at <= at[p].at /\ at[p].at - at[q].at <= Hour - MaxConsentAge}
NearSame(S, at, p) == {q \in Near(S, at, p) : DetectorOf[q] = DetectorOf[p]}
Allowed(S, at, p) ==
    /\ Cardinality(Near(S, at, p)) <= MaxTrades
    /\ Cardinality(NearSame(S, at, p)) <= MaxOfDetector
    /\ \A q \in NearSame(S, at, p) \ {p} :
           MarketOf[q] = MarketOf[p] => at[p].at - at[q].at >= Cooldown - MaxConsentAge

LEMMA AllowedIs == HourlyAllowance <=> \A p \in Sent : Allowed(Sent, placed, p)
BY DEF HourlyAllowance, Allowed, NearSame, Near
LEMMA AllowedIsNext == HourlyAllowance' <=> \A p \in Sent' : Allowed(Sent', placed', p)
BY DEF HourlyAllowance, Allowed, NearSame, Near

\* An order stays within the allowance when its window loses orders.
LEMMA AllowedOfFewer ==
    ASSUME NEW S \in SUBSET Proposals, NEW T \in SUBSET Proposals, NEW at, NEW bt,
           NEW p \in Proposals, Allowed(S, at, p), at[p] = bt[p],
           \A q \in Near(T, bt, p) : q \in S /\ bt[q] = at[q]
    PROVE  Allowed(T, bt, p)
<1>1. Near(T, bt, p) \subseteq Near(S, at, p)
  BY DEF Near
<1>2. NearSame(T, bt, p) \subseteq NearSame(S, at, p)
  BY <1>1 DEF NearSame
<1>3. IsFiniteSet(Near(S, at, p)) /\ IsFiniteSet(NearSame(S, at, p))
  <2>1. IsFiniteSet(Proposals)
    BY BoundFacts
  <2>2. Near(S, at, p) \in SUBSET Proposals /\ NearSame(S, at, p) \in SUBSET Proposals
    BY DEF NearSame, Near
  <2> QED BY <2>1, <2>2, Fewer
<1>4. /\ Cardinality(Near(T, bt, p)) <= Cardinality(Near(S, at, p))
      /\ Cardinality(Near(T, bt, p)) \in Nat /\ Cardinality(Near(S, at, p)) \in Nat
      /\ Cardinality(NearSame(T, bt, p)) <= Cardinality(NearSame(S, at, p))
      /\ Cardinality(NearSame(T, bt, p)) \in Nat /\ Cardinality(NearSame(S, at, p)) \in Nat
  BY <1>1, <1>2, <1>3, Fewer
<1>5. MaxTrades \in Nat /\ MaxOfDetector \in Nat
  BY BoundFacts
<1>6. \A q \in NearSame(T, bt, p) : at[q] = bt[q]
  BY DEF NearSame
<1>7. Cardinality(Near(T, bt, p)) <= MaxTrades
      /\ Cardinality(NearSame(T, bt, p)) <= MaxOfDetector
  BY <1>4, <1>5 DEF Allowed
<1>8. \A q \in NearSame(T, bt, p) \ {p} :
         MarketOf[q] = MarketOf[p] => bt[p].at - bt[q].at >= Cooldown - MaxConsentAge
  BY <1>2, <1>6 DEF Allowed
<1> QED BY <1>7, <1>8 DEF Allowed


\* An approval keeps to the allowance: what its window holds was in the window the
\* gate counted, whose clock runs behind by less than a consent's life.
LEMMA ApproveAllowed ==
    ASSUME SweepInv, Approve, NEW p \in Sent'
    PROVE  Allowed(Sent', placed', p)
<1> DEFINE s == pass.subject
           rows == {q \in Proposals : ledger[q] # None}
           hour == {q \in rows : ledger[q] >= pass.start - Hour}
<1>1. /\ s \in Proposals \ Sent /\ Sent' \subseteq Sent \cup {s} /\ Sent \subseteq Proposals
      /\ placed'[s].at = now
      /\ \A q \in Sent : placed'[q] = placed[q]
      /\ \A q \in Sent : /\ q \in rows /\ placed[q].at \in Nat
                         /\ placed[q].at <= now /\ ledger[q] \in Nat
                         /\ placed[q].at <= ledger[q] + MaxConsentAge
  BY ApproveFacts DEF Sent, Recorded
<1>2. /\ now \in Nat /\ pass.start \in Nat /\ pass.start <= now
      /\ now - pass.start <= MaxConsentAge
  BY ApproveFacts
<1>3. /\ Hour \in Nat /\ MaxConsentAge \in Nat /\ Cooldown \in Nat
      /\ MaxTrades \in Nat /\ MaxOfDetector \in Nat
  BY BoundFacts
<1>4. /\ Cardinality(hour) < MaxTrades
      /\ Cardinality({q \in hour : DetectorOf[q] = DetectorOf[s]}) < MaxOfDetector
      /\ \A q \in rows : DetectorOf[q] = DetectorOf[s] /\ MarketOf[q] = MarketOf[s]
                            => pass.start - ledger[q] >= Cooldown
  <2>1. Budgeted(ledger, s, pass.start)
    BY ApproveFacts
  <2> QED BY <2>1 DEF Budgeted
<1>5. IsFiniteSet(hour)
  <2>1. IsFiniteSet(Proposals) /\ hour \in SUBSET Proposals
    BY BoundFacts
  <2> QED BY <2>1, Fewer
<1>6. p \in Sent \cup {s}
  BY <1>1
<1>7. \A q \in Sent : Allowed(Sent, placed, q)
  BY AllowedIs DEF SweepInv
<1>8. \A q \in Sent : now - placed[q].at <= Hour - MaxConsentAge => q \in hour
  BY <1>1, <1>2, <1>3
<1>9. \A q \in Sent : pass.start - ledger[q] >= Cooldown
                         => now - placed[q].at >= Cooldown - MaxConsentAge
  BY <1>1, <1>2, <1>3
<1>10. Sent' \in SUBSET Proposals
  BY <1>1
<1> HIDE DEF s, hour, rows
<1>11. CASE p \in Sent /\ placed[p].at < now
  <2>1. \A q \in Near(Sent', placed', p) : q \in Sent /\ placed'[q] = placed[q]
    BY <1>1, <1>2, <1>11 DEF Near
  <2> QED BY <1>1, <1>7, <1>10, <1>11, <2>1, AllowedOfFewer
<1>12. CASE placed'[p].at = now
  <2> DEFINE W == Near(Sent', placed', p)
             T == NearSame(Sent', placed', p)
  <2>1. \A q \in W : q \in Sent \cup {s} /\ now - placed'[q].at <= Hour - MaxConsentAge
    BY <1>1, <1>12 DEF Near
  <2>2. W \in SUBSET (hour \cup {s})
    BY <1>1, <1>8, <2>1
  <2>3. Cardinality(W) <= MaxTrades
    BY <1>3, <1>4, <1>5, <2>2, OneMore
  <2>4. CASE DetectorOf[p] = DetectorOf[s]
    <3> DEFINE same == {q \in hour : DetectorOf[q] = DetectorOf[s]}
    <3>1. T \in SUBSET (same \cup {s})
      BY <2>2, <2>4 DEF NearSame
    <3>2. IsFiniteSet(same) /\ Cardinality(same) < MaxOfDetector
      <4>1. same \in SUBSET hour
        OBVIOUS
      <4> QED BY <1>4, <1>5, <4>1, Fewer
    <3>3. Cardinality(T) <= MaxOfDetector
      <4> HIDE DEF same, T
      <4> QED BY <1>3, <3>1, <3>2, OneMore
    <3>4. ASSUME NEW q \in T \ {p}, MarketOf[q] = MarketOf[p]
          PROVE  placed'[p].at - placed'[q].at >= Cooldown - MaxConsentAge
      <4>1. q \in Sent \cup {s} /\ DetectorOf[q] = DetectorOf[s]
        BY <2>1, <2>4, <3>4 DEF NearSame
      <4>2. CASE p = s
        <5>1. q \in Sent /\ pass.start - ledger[q] >= Cooldown
          BY <1>1, <1>4, <3>4, <4>1, <4>2
        <5> QED BY <1>1, <1>9, <1>12, <5>1
      <4>3. CASE p # s /\ q = s
        <5>1. p \in Sent /\ pass.start - ledger[p] >= Cooldown
          BY <1>1, <1>4, <1>6, <2>4, <3>4, <4>3
        <5>2. now - placed[p].at >= Cooldown - MaxConsentAge /\ placed[p].at = now
          BY <1>1, <1>9, <1>12, <5>1
        <5> QED BY <1>1, <1>2, <1>3, <1>12, <4>3, <5>2
      <4>4. CASE p # s /\ q # s
        <5>1. p \in Sent /\ q \in Sent /\ placed'[p] = placed[p] /\ placed'[q] = placed[q]
          BY <1>1, <1>6, <4>1, <4>4
        <5>2. q \in NearSame(Sent, placed, p) \ {p}
          BY <3>4, <5>1 DEF NearSame, Near
        <5> QED BY <1>7, <3>4, <5>1, <5>2 DEF Allowed
      <4> QED BY <4>2, <4>3, <4>4
    <3> QED BY <2>3, <3>3, <3>4 DEF Allowed
  <2>5. CASE DetectorOf[p] # DetectorOf[s]
    <3>1. p \in Sent /\ placed'[p] = placed[p]
      BY <1>1, <1>6, <2>5
    <3>2. T \in SUBSET NearSame(Sent, placed, p)
      BY <1>1, <2>1, <2>5, <3>1 DEF NearSame, Near
    <3>3. Cardinality(T) <= MaxOfDetector
      <4> DEFINE U == NearSame(Sent, placed, p)
      <4>1. IsFiniteSet(Proposals) /\ U \in SUBSET Proposals
        BY <1>1, BoundFacts DEF NearSame, Near
      <4>2. IsFiniteSet(U)
        BY <4>1, Fewer
      <4>3. Cardinality(U) <= MaxOfDetector
        BY <1>7, <3>1 DEF Allowed
      <4> HIDE DEF T, U
      <4>4. T \in SUBSET U
        BY <3>2 DEF U
      <4>5. Cardinality(T) \in Nat /\ Cardinality(U) \in Nat
            /\ Cardinality(T) <= Cardinality(U)
        BY <4>2, <4>4, Fewer
      <4> QED BY <1>3, <4>3, <4>5
    <3>4. ASSUME NEW q \in T \ {p}, MarketOf[q] = MarketOf[p]
          PROVE  placed'[p].at - placed'[q].at >= Cooldown - MaxConsentAge
      <4>1. q \in NearSame(Sent, placed, p) \ {p} /\ q \in Sent
        BY <3>2, <3>4 DEF NearSame, Near
      <4> QED BY <1>1, <1>7, <3>1, <3>4, <4>1 DEF Allowed
    <3> QED BY <2>3, <3>3, <3>4 DEF Allowed
  <2> QED BY <2>4, <2>5
<1>13. placed'[p].at = now \/ (p \in Sent /\ placed[p].at < now)
  BY <1>1, <1>2, <1>6
<1> QED BY <1>11, <1>12, <1>13

LEMMA HourlyStep ==
    ASSUME SweepInv, [Next]_vars
    PROVE  HourlyAllowance'
<1> SUFFICES ASSUME NEW p \in Sent' PROVE Allowed(Sent', placed', p)
  BY AllowedIsNext
<1>1. CASE Approve
  BY <1>1, ApproveAllowed
<1>2. CASE placed' = placed /\ lost \subseteq lost'
  <2>1. Sent' \subseteq Sent /\ Sent \in SUBSET Proposals
    BY <1>2, SentShrinks DEF Sent
  <2>2. Allowed(Sent, placed, p)
    BY <2>1, AllowedIs DEF SweepInv
  <2>3. \A q \in Near(Sent', placed', p) : q \in Sent /\ placed'[q] = placed[q]
    BY <1>2, <2>1 DEF Near
  <2> QED BY <1>2, <2>1, <2>2, <2>3, AllowedOfFewer
<1> QED BY <1>1, <1>2, WhoWrites

-------------------------------------------------------------------------------
(* The risk of the day                                                         *)

\* DailyRiskBounded, said of any audit trail.
RowsOf(l, n) == {p \in Proposals : l[p] # None /\ DayStart(l[p]) = DayStart(n)}
LEMMA DailyIs ==
    DailyRiskBounded <=> \A n \in Time : TotalOver(Loss, RowsOf(ledger, n)) <= MaxDailyRisk
<1>1. \A n : {p \in Recorded : DayStart(ledger[p]) = DayStart(n)} = RowsOf(ledger, n)
  BY DEF Recorded, RowsOf
<1> QED BY <1>1 DEF DailyRiskBounded, RiskOf
LEMMA DailyIsNext ==
    DailyRiskBounded' <=> \A n \in Time : TotalOver(Loss, RowsOf(ledger', n)) <= MaxDailyRisk
<1>1. \A n : {p \in Recorded' : DayStart(ledger'[p]) = DayStart(n)} = RowsOf(ledger', n)
  BY DEF Recorded, RowsOf
<1> QED BY <1>1 DEF DailyRiskBounded, RiskOf

\* The row an approval adds is dated after its pass began: the day the gate summed
\* holds everything on the day of the row.
LEMMA DailyStep ==
    ASSUME SweepInv, [Next]_vars
    PROVE  DailyRiskBounded'
<1>1. CASE ledger' = ledger
  <2>1. \A n \in Time : TotalOver(Loss, RowsOf(ledger, n)) <= MaxDailyRisk
    BY DailyIs DEF SweepInv
  <2> QED BY <1>1, <2>1, DailyIsNext
<1>2. ASSUME NEW wrong \in BOOLEAN, Commit(wrong) PROVE DailyRiskBounded'
  <2> DEFINE s == pass.subject
             t == pass.ts
             day == {q \in {q \in Proposals : ledger[q] # None} :
                        ledger[q] >= DayStart(pass.start)}
  <2>1. /\ s \in Proposals /\ ledger[s] = None /\ t \in Nat /\ pass.start \in Nat
        /\ pass.start <= t /\ ledger' = [ledger EXCEPT ![s] = t]
        /\ Budgeted(ledger, s, pass.start)
        /\ ledger \in [Proposals -> Maybe(Time)]
    <3>1. /\ pass.pc = "placing" /\ s \in Proposals /\ pass.ts # None
          /\ queue[s] = "pending" /\ Budgeted(ledger, s, pass.start)
      BY <1>2 DEF Commit, SweepInv, ConsentStands, PlacingIsFresh
    <3>2. ledger[s] = None
      BY <3>1 DEF SweepInv, RecordedIsDecided
    <3>3. t \in Nat /\ pass.start \in Nat
      BY <3>1, TimeFacts DEF SweepInv, TypeOK, Pass, Maybe
    <3> QED BY <1>2, <3>1, <3>2, <3>3 DEF SweepInv, PassInOrder, Commit, TypeOK
  <2>2. \A q \in Proposals : ledger[q] # None => ledger[q] \in Nat
    BY <2>1, TimeFacts DEF Maybe
  <2>3. \A q \in Proposals : ledger'[q] = IF q = s THEN t ELSE ledger[q]
    BY <2>1
  <2>4. t # None
    BY <2>1, SweepAssumption
  <2>5. IsFiniteSet(Proposals) /\ \A q \in Proposals : Loss[q] \in Nat
    BY BoundFacts
  <2> SUFFICES ASSUME NEW n \in Time
               PROVE  TotalOver(Loss, RowsOf(ledger', n)) <= MaxDailyRisk
    BY DailyIsNext
  <2> DEFINE old == RowsOf(ledger, n)
  <2>6. TotalOver(Loss, old) <= MaxDailyRisk
    BY DailyIs DEF SweepInv
  <2>7. CASE DayStart(t) # DayStart(n)
    <3>1. RowsOf(ledger', n) = old
      BY <2>1, <2>3, <2>7 DEF RowsOf
    <3> QED BY <2>6, <3>1
  <2>8. CASE DayStart(t) = DayStart(n)
    <3>1. RowsOf(ledger', n) = old \cup {s} /\ s \notin old
      BY <2>1, <2>3, <2>4, <2>8 DEF RowsOf
    <3>2. old \in SUBSET day
      <4> SUFFICES ASSUME NEW q \in old PROVE q \in day
        OBVIOUS
      <4>1. q \in Proposals /\ ledger[q] # None /\ DayStart(ledger[q]) = DayStart(t)
        BY <2>8 DEF RowsOf
      <4>2. DayStart(pass.start) \in Int /\ DayStart(t) \in Int
            /\ DayStart(pass.start) <= DayStart(t)
        BY <2>1, DayStartMonotone
      <4>3. DayStart(ledger[q]) \in Int /\ DayStart(ledger[q]) <= ledger[q]
            /\ ledger[q] \in Nat
        BY <2>2, <4>1, DayStartMonotone
      <4>4. ledger[q] >= DayStart(pass.start)
        BY <4>1, <4>2, <4>3
      <4> QED BY <4>1, <4>4
    <3>3. TotalOver(Loss, day) + Loss[s] <= MaxDailyRisk
      BY <2>1 DEF Budgeted
    <3>4. day \in SUBSET Proposals
      OBVIOUS
    <3>5. IsFiniteSet(day)
      BY <2>5, <3>4, Fewer
    <3> HIDE DEF day, old, s
    <3>6. IsFiniteSet(old) /\ \A q \in old : Loss[q] \in Nat
      BY <2>5, <3>2, <3>4, <3>5, Fewer
    <3>7. TotalOver(Loss, old \cup {s}) = TotalOver(Loss, old) + Loss[s]
      <4>1. \A x \in old \cup {s} : Loss[x] \in Int
        BY <2>1, <2>5, <3>6
      <4>2. s \notin old
        BY <3>1
      <4>3. TotalOver(Loss, old \cup {s}) = Loss[s] + TotalOver(Loss, old)
        BY <3>6, <4>1, <4>2, TotalOverAdd
      <4>4. Loss[s] \in Int /\ TotalOver(Loss, old) \in Nat
        BY <3>6, <4>1, TotalOverNat
      <4> QED BY <4>3, <4>4
    <3>8. TotalOver(Loss, old) <= TotalOver(Loss, day)
      BY <2>5, <3>2, <3>4, <3>5, TotalOverSubset
    <3>9. TotalOver(Loss, old) \in Nat /\ TotalOver(Loss, day) \in Nat
      BY <2>5, <3>4, <3>5, <3>6, TotalOverNat
    <3>10. Loss[s] \in Nat /\ MaxDailyRisk \in Nat
      BY <2>1, <2>5, BoundFacts
    <3> QED BY <3>1, <3>3, <3>7, <3>8, <3>9, <3>10
  <2> QED BY <2>7, <2>8
<1> QED BY <1>1, <1>2, WhoWrites

-------------------------------------------------------------------------------
(* The theorems                                                                *)

\* The machine's approvals keep the inductive invariant in every execution.
THEOREM SweepInvariant == Spec => []SweepInv
<1>1. Init => SweepInv
  BY SweepInit
<1>2. SweepInv /\ [Next]_vars => SweepInv'
  <2> SUFFICES ASSUME SweepInv, [Next]_vars PROVE SweepInv'
    OBVIOUS
  <2> QED BY TypeStep, RowsStep, PassStep, SentStep, LatchStep, ConsentStep, HourlyStep,
             DailyStep DEF SweepInv
<1> QED BY <1>1, <1>2, PTL DEF Spec

\* Type correctness of the gate and the sweep loop of worker/main.py.
THEOREM TypeCorrect == Spec => []TypeOK
BY SweepInvariant, PTL DEF SweepInv

\* What the machine sent had been open to the operator's veto for min_proposal_age,
\* came from a detector, and rested on a report card that was not too old
\* (trading/autonomy.py evaluate, interlocks.py _check_machine_consent).
THEOREM MachineConsent == Spec => []SentOnConsent
BY SweepInvariant, PTL DEF SweepInv

\* One ambiguous or partial placement stops the machine, and an operator's disarm
\* stops it after at most one more (worker/main.py's sweep and autonomy.disarm).
THEOREM MachineStops == Spec => []LatchStops
BY SweepInvariant, PTL DEF SweepInv

\* The hourly allowance and the repeat cooldown bound the orders that left, up to a
\* consent's life (autonomy.py _check_budget and _check_cooldown).
THEOREM AllowanceHolds == Spec => []HourlyAllowance
BY SweepInvariant, PTL DEF SweepInv

\* No day of the audit trail shows more than max_daily_risk_cents (autonomy.py
\* budget_state), also when a pass began before midnight.
THEOREM DailyRiskHolds == Spec => []DailyRiskBounded
BY SweepInvariant, PTL DEF SweepInv


===============================================================================
