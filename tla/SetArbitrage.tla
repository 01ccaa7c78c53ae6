----------------------------- MODULE SetArbitrage ------------------------------
(***************************************************************************)
(* One event of a scan of backend/app/detectors/runner.py's                *)
(* SetArbitrageDetector: the books of its legs are read, the set is priced *)
(* at several sizes (set_arbitrage.py), the best becomes a finding and, in *)
(* detectors/base.propose_finding, the legs of one proposal, which the     *)
(* executor sends out as IOC orders.                                       *)
(*                                                                         *)
(* A set is traded in YES: selling it sells every leg, and at most one of  *)
(* them resolves YES; buying it needs one of them to.                      *)
(***************************************************************************)
EXTENDS Pricing

CONSTANTS
    Legs,           \* the markets of one mutually exclusive event
    LegSeries,      \* its series
    LegBooks,       \* books a leg can have
    CandidateSizes, \* set sizes tried
    MinEdge,        \* min_net_edge_cents, in centicents per set
    Slippage        \* slippage_buffer_cents

ASSUME SetAssumption ==
    /\ IsFiniteSet(Legs) /\ Cardinality(Legs) > 1
    /\ LegBooks \subseteq [yes : Bids, no : Bids]
    /\ CandidateSizes \subseteq Nat \ {0} /\ Slippage \in Nat

VARIABLES
    scanned,        \* "idle", "read" (the books are in) or "found"
    books,          \* the book of each leg
    exhaustive,     \* the operator declared the series exhaustive
    finding         \* direction, size, hits per leg and edge of the finding

setVars == <<scanned, books, exhaustive, finding>>

NoFinding == [direction |-> "none"]
NoBook == [yes |-> <<>>, no |-> <<>>]

-------------------------------------------------------------------------------
(* set_arbitrage.py *)

\* walk: a leg is consumed best first, without a limit; anything short of the
\* whole size is no price at all.
Walk(book, buying, size) ==
    SimulateFills(book, "yes", buying, IF buying THEN 100 ELSE 0, size, LegSeries, Slippage)
Fillable(buying, size) ==
    \A leg \in Legs : Filled(Walk(books[leg], buying, size)) = size

\* What a set collects or costs, before fees: the sum over its legs.
Notional(hits) == SumOf([i \in DOMAIN hits |-> hits[i].price * hits[i].contracts * 100])
OverLegs(amount) == TotalOver(amount, Legs)

\* price_set: the net of the whole trade (the field's comment says "per set").
PriceSet(buying, size) ==
    LET hits == [leg \in Legs |-> Walk(books[leg], buying, size)]
        gross == OverLegs([leg \in Legs |-> Notional(hits[leg])])
        fees == OverLegs([leg \in Legs |-> Fees(hits[leg])])
    IN [direction |-> IF buying THEN "buy" ELSE "sell", size |-> size, hits |-> hits,
        gross |-> gross, fees |-> fees,
        edge |-> (IF buying THEN 10000 * size - gross ELSE gross - 10000 * size) - fees]

\* max_executable_sets: the thinnest leg decides.
DepthOf(book, buying) ==
    LET levels == Source(book, "yes", buying)
    IN SumOf([i \in DOMAIN levels |-> levels[i].size])
Executable(buying, size) == \A leg \in Legs : size <= DepthOf(books[leg], buying)

\* _best_for: the largest total edge, kept if a set of it earns enough.
Priced(buying) ==
    {PriceSet(buying, size) : size \in
        {c \in CandidateSizes : Executable(buying, c) /\ Fillable(buying, c)}}
Best(buying) ==
    {opp \in Priced(buying) : /\ \A other \in Priced(buying) : other.edge <= opp.edge
                              /\ opp.edge >= MinEdge * opp.size}

-------------------------------------------------------------------------------
(* The scan *)

SetInit == /\ scanned = "idle" /\ books = [leg \in Legs |-> NoBook]
           /\ exhaustive \in BOOLEAN /\ finding = NoFinding

\* Every leg is watched and active, and its book is read over REST; a leg
\* without one ends the event's scan.
ReadBooks ==
    /\ scanned = "idle" /\ scanned' = "read"
    /\ books' \in [Legs -> LegBooks]
    /\ UNCHANGED <<exhaustive, finding>>

\* Selling needs exclusivity alone; buying is tried only of a declared series.
Find_BuysAnySet(buying) ==
    /\ scanned = "read"
    /\ \E opp \in Best(buying) : finding' = opp
    /\ scanned' = "found"
    /\ UNCHANGED <<books, exhaustive>>
Find(buying) ==
    /\ scanned = "read" /\ (buying => exhaustive)
    /\ \E opp \in Best(buying) : finding' = opp
    /\ scanned' = "found"
    /\ UNCHANGED <<books, exhaustive>>

SetNext == ReadBooks \/ Find(TRUE) \/ Find(FALSE)

\* propose_finding's worst case for the bankroll guard.
MaxLoss(f) ==
    LET short == IF f.direction = "sell" THEN 10000 * f.size - f.gross ELSE f.gross
    IN (IF short > 0 THEN short ELSE 0) + f.fees

\* The legs as IOC orders, each limited at the average its walk came to, on the
\* book it was priced from: what trades before the limit cuts the walk.
LegSent(f, leg) ==
    LET hits == f.hits[leg]
        within(h) == ~Through(f.direction = "buy", h.price * f.size * 100, Notional(hits))
    IN [i \in {k \in DOMAIN hits : within(hits[k])} |-> hits[i]]

SetSpec == SetInit /\ [][SetNext]_setVars

-------------------------------------------------------------------------------
(* Properties *)

LegResult(f, leg, won) == ResultOf(f.hits[leg], f.direction = "buy", won)
SetResult(f, winners) == OverLegs([leg \in Legs |-> LegResult(f, leg, leg \in winners)])

\* The edge is what the set earns whatever happens: over every way the event can
\* resolve (at most one leg YES, exactly one if it is exhaustive), the legs'
\* settled results never come to less than the edge, which is reached; and the
\* loss the bankroll guard judges is never exceeded.
SetEdgeIsWorstCase ==
    scanned = "found" =>
        LET outcomes == {W \in SUBSET Legs : /\ Cardinality(W) <= 1
                                             /\ (exhaustive => W # {})}
        IN /\ \A W \in outcomes : /\ SetResult(finding, W) >= finding.edge
                                  /\ SetResult(finding, W) >= -MaxLoss(finding)
           /\ \E W \in outcomes : SetResult(finding, W) = finding.edge

\* set_arbitrage.py says of a book that cannot fill the full size: "a partial
\* set is not an arb, it is an uncovered position in whatever legs did fill".
\* On the very books it was priced from, every leg that is sent fills the size.
SetFillsAsPriced ==
    scanned = "found" =>
        \A leg \in Legs : Filled(LegSent(finding, leg)) = finding.size

===============================================================================
