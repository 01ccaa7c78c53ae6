------------------------------ MODULE CatalogSync ------------------------------
(***************************************************************************)
(* The catalogue of markets: backend/app/ingest/catalog.py, called by      *)
(* _catalog_loop of ingest/main.py. The exchange serves it in pages, which *)
(* are committed in batches while the markets go on changing; the next     *)
(* refresh asks for what changed since the newest row there is, less an    *)
(* overlap. A row's content is the time of the change it reflects, the     *)
(* result that settlements wait for included.                              *)
(***************************************************************************)
EXTENDS Integers, FiniteSets

CONSTANTS
    Listing,        \* the markets
    Overlap,        \* refresh_since
    MaxTime,        \* bound: the clock stops there
    MaxBreaks       \* bound: failed refreshes and restarts

ASSUME CatalogAssumption == {Overlap, MaxTime, MaxBreaks} \subseteq Nat

VARIABLES
    time,
    updated,        \* EXTERNAL: updated_time of each market; Never before it is listed
    tradable,       \* EXTERNAL: the markets whose status is open
    catalog,        \* updated_time of the rows; Never where there is none
    walk,           \* the refresh in progress
    booted,         \* bootstrapped
    breaks,         \* failures and restarts so far (bounded by MaxBreaks)
    completed,      \* history: when the last complete refresh began
    broken          \* history: a refresh was cut short after a batch of it was
                    \* committed, or took longer than the overlap

catVars == <<time, updated, tradable, catalog, walk, booted, breaks, completed, broken>>

Never == 0
NoWalk == [on |-> FALSE, all |-> FALSE, began |-> 0, todo |-> {}, kept |-> FALSE]
Newest(S) == CHOOSE a \in S : \A b \in S : b <= a

CatalogInit ==
    /\ time = 1
    /\ updated = [m \in Listing |-> Never] /\ tradable = {}
    /\ catalog = [m \in Listing |-> Never]
    /\ walk = NoWalk /\ booted = FALSE
    /\ breaks = 0 /\ completed = Never /\ broken = FALSE

-------------------------------------------------------------------------------
(* EXTERNAL: the exchange *)

Passes ==
    /\ time < MaxTime /\ time' = time + 1
    /\ UNCHANGED <<updated, tradable, catalog, walk, booted, breaks, completed, broken>>

\* A market is listed, changes, closes or is resolved.
Change(m, stays) ==
    /\ updated[m] < time
    /\ updated' = [updated EXCEPT ![m] = time]
    /\ tradable' = IF stays /\ (updated[m] = Never \/ m \in tradable)
                   THEN tradable \cup {m} ELSE tradable \ {m}
    /\ UNCHANGED <<time, catalog, walk, booted, breaks, completed, broken>>

-------------------------------------------------------------------------------
(* A refresh *)

\* last_updated and refresh_since.
LastUpdated == Newest({catalog[m] : m \in Listing})
Since_Last == LastUpdated
Since == IF LastUpdated = Never THEN Never ELSE LastUpdated - Overlap

\* get_markets and paginate. No row at all, and there is no since to ask for.
\* Pages cover what matches as they begin; of what comes to match later nothing is
\* promised.
Matching(open) ==
    {m \in Listing : updated[m] # Never /\ updated[m] >= Since /\ (open => m \in tradable)}

\* _catalog_loop: everything open the first time, then what changed since.
BeginWalk ==
    /\ ~walk.on
    /\ LET first == ~booted /\ LastUpdated = Never
       IN walk' = [on |-> TRUE, all |-> first, began |-> time, kept |-> FALSE,
                   todo |-> Matching(first)]
    /\ UNCHANGED <<time, updated, tradable, catalog, booted, breaks, completed, broken>>

\* Up to BATCH_SIZE markets as their pages show them, upserted and committed. A
\* walk over the open markets does not show one that closed.
Batch(S) ==
    /\ walk.on /\ S # {} /\ S \subseteq walk.todo
    /\ LET shown == IF walk.all THEN S \cap tradable ELSE S
       IN /\ catalog' = [m \in Listing |-> IF m \in shown THEN updated[m] ELSE catalog[m]]
          /\ walk' = [walk EXCEPT !.todo = @ \ S, !.kept = @ \/ shown # {}]
    /\ UNCHANGED <<time, updated, tradable, booted, breaks, completed, broken>>

\* The pages are through; the events that follow the first time may still fail.
EndWalk(events) ==
    /\ walk.on /\ walk.todo = {}
    /\ walk' = NoWalk
    /\ booted' = (booted \/ events)
    /\ completed' = walk.began
    /\ broken' = (broken \/ time - walk.began > Overlap)
    /\ UNCHANGED <<time, updated, tradable, catalog, breaks>>

\* A page fails for good, or the process restarts: what is committed stays.
Break(restart) ==
    /\ breaks < MaxBreaks /\ breaks' = breaks + 1
    /\ walk.on \/ restart
    /\ walk' = NoWalk
    /\ booted' = (booted /\ ~restart)
    /\ broken' = (broken \/ walk.kept)
    /\ UNCHANGED <<time, updated, tradable, catalog, completed>>

CatalogNext ==
    \/ Passes \/ BeginWalk
    \/ \E m \in Listing, stays \in BOOLEAN : Change(m, stays)
    \/ \E S \in SUBSET Listing : Batch(S)
    \/ \E flag \in BOOLEAN : EndWalk(flag) \/ Break(flag)

CatalogSpec == CatalogInit /\ [][CatalogNext]_catVars

-------------------------------------------------------------------------------
(* Properties *)

\* Every change of a market made before the last complete refresh began is in the
\* catalogue, the ones made while an earlier refresh was walking the pages
\* included - unless a refresh took longer than the overlap, or was cut short with
\* some of it committed: the newest row of that part hides the rest. A market that
\* had closed before it was first seen is left out.
CatalogMissesNothing ==
    ~broken => \A m \in Listing :
        updated[m] # Never /\ updated[m] < completed
            => catalog[m] = updated[m] \/ (catalog[m] = Never /\ m \notin tradable)

===============================================================================
