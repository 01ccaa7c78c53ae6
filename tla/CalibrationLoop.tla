---------------------------- MODULE CalibrationLoop ----------------------------
(***************************************************************************)
(* The observations behind the longshot screen:                            *)
(* backend/app/worker/calibration.py. A sweep notes the markets priced in  *)
(* a tail, one row for each ever, and fills in how those that resolved     *)
(* came out; both halves are capped. Where a quote lies is all that is     *)
(* kept of a price.                                                        *)
(***************************************************************************)
EXTENDS Integers, FiniteSets, Sequences, SequencesExt

CONSTANTS
    Surveyed,       \* the markets
    Sweepers,       \* worker processes: two while one replaces the other
    MaxCandidates,  \* MAX_CANDIDATES
    MaxBackfill,    \* MAX_BACKFILL
    MaxMoves,       \* bound: times a quote moves
    MaxSlipped      \* bound: failed sweeps

ASSUME CalibrationAssumption ==
    {MaxCandidates, MaxBackfill} \subseteq Nat \ {0} /\ {MaxMoves, MaxSlipped} \subseteq Nat

VARIABLES
    lies,       \* Market.yes_bid and yes_ask of an active market: in a tail, on its
                \* "edge", in the "middle"; "closed" when it is not active
    results,    \* Market.result
    observed,   \* calibration_log in the order of id: the market, settled_yes
    holding,    \* what a sweep read and will insert; Resting between sweeps
    moves, slipped

calVars == <<lies, results, observed, holding, moves, slipped>>

Resting == {"resting"}
Logged == {observed[i].market : i \in DOMAIN observed}

CalibrationInit ==
    /\ lies = [m \in Surveyed |-> "middle"] /\ results = [m \in Surveyed |-> ""]
    /\ observed = <<>> /\ holding = [w \in Sweepers |-> Resting]
    /\ moves = 0 /\ slipped = 0

-------------------------------------------------------------------------------
(* EXTERNAL: the rows the ingest writes *)

Requoted(m) ==
    /\ moves < MaxMoves /\ moves' = moves + 1
    /\ lies[m] # "closed"
    /\ \E where \in {"tail", "edge", "middle"} \ {lies[m]} : lies' = [lies EXCEPT ![m] = where]
    /\ UNCHANGED <<results, observed, holding, slipped>>

Closes(m) ==
    /\ lies[m] # "closed" /\ lies' = [lies EXCEPT ![m] = "closed"]
    /\ UNCHANGED <<results, observed, holding, moves, slipped>>

Resolves(m) ==
    /\ lies[m] = "closed" /\ results[m] = ""
    /\ \E r \in {"yes", "no", "void"} : results' = [results EXCEPT ![m] = r]
    /\ UNCHANGED <<lies, observed, holding, moves, slipped>>

-------------------------------------------------------------------------------
(* sweep_calibration *)

\* record_observations: the query is a cent wider than the bands on both sides
\* and stops at its cap, in no order; what it reads on an edge has no bucket.
Candidates == {m \in Surveyed : lies[m] \in {"tail", "edge"} /\ m \notin Logged}

ReadCandidates(w) ==
    /\ holding[w] = Resting
    /\ \E S \in SUBSET Candidates :
        /\ S = Candidates \/ Cardinality(S) = MaxCandidates
        /\ Cardinality(S) <= MaxCandidates
        /\ holding' = [holding EXCEPT ![w] = {m \in S : lies[m] = "tail"}]
    /\ UNCHANGED <<lies, results, observed, moves, slipped>>

\* The unique constraint: with one of them there already, none is inserted.
Inserted(S) ==
    IF S \cap Logged # {} THEN observed
    ELSE observed \o SetToSeq({[market |-> m, settled |-> ""] : m \in S})

\* backfill_outcomes: the oldest rows whose market says yes or no.
Pending_Any(rows) == {i \in DOMAIN rows : rows[i].settled = ""}
Pending(rows) ==
    {i \in DOMAIN rows : rows[i].settled = "" /\ results[rows[i].market] \in {"yes", "no"}}

Backfilled(rows) ==
    LET pending == Pending(rows)
        due == {i \in pending : Cardinality({j \in pending : j < i}) < MaxBackfill}
    IN [i \in DOMAIN rows |->
            IF i \in due /\ results[rows[i].market] \in {"yes", "no"}
            THEN [rows[i] EXCEPT !.settled = results[rows[i].market]] ELSE rows[i]]

\* The insertion waits for another sweep's uncommitted row of the same market, so
\* from the flush to the commit a sweep is one step.
WriteSweep(w) ==
    /\ holding[w] # Resting
    /\ observed' = Backfilled(Inserted(holding[w]))
    /\ holding' = [holding EXCEPT ![w] = Resting]
    /\ UNCHANGED <<lies, results, moves, slipped>>

\* The loop logs it and goes on; or the process is another one from here on.
SweepFails(w) ==
    /\ slipped < MaxSlipped /\ slipped' = slipped + 1
    /\ holding[w] # Resting /\ holding' = [holding EXCEPT ![w] = Resting]
    /\ UNCHANGED <<lies, results, observed, moves>>

CalibrationNext ==
    \/ \E m \in Surveyed : Requoted(m) \/ Closes(m) \/ Resolves(m)
    \/ \E w \in Sweepers : ReadCandidates(w) \/ WriteSweep(w) \/ SweepFails(w)

\* _calibration_loop: every worker sweeps on, whatever the last sweep did.
CalibrationFairness ==
    \A w \in Sweepers : WF_calVars(ReadCandidates(w)) /\ WF_calVars(WriteSweep(w))

CalibrationSpec == CalibrationInit /\ [][CalibrationNext]_calVars /\ CalibrationFairness

-------------------------------------------------------------------------------
(* Properties *)

Unloggable == {m \in Surveyed : lies[m] = "edge" /\ m \notin Logged}
Answer(m) == {observed[i].settled : i \in {j \in DOMAIN observed : observed[j].market = m}}

\* A market that stays in a tail is noted sooner or later, whatever else the cap
\* lets through and however the sweeps of two workers undo each other - as long as
\* the rows the query reads in vain do not fill it; and a noted market that says
\* yes or no gets that answer, however many before it never will.
NoObservationStarves ==
    \A m \in Surveyed :
        /\ (/\ m \notin Logged /\ lies[m] = "tail")
           ~> (\/ m \in Logged \/ lies[m] # "tail"
               \/ Cardinality(Unloggable) >= MaxCandidates)
        /\ (m \in Logged /\ results[m] \in {"yes", "no"}) ~> (Answer(m) = {results[m]})

===============================================================================
