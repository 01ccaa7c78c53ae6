------------------------------- MODULE Pricing ---------------------------------
(***************************************************************************)
(* What a trade costs: fees (backend/app/core/fees.py), the fills a book   *)
(* gives (trading/paper.py), the ticket an operator approves               *)
(* (trading/pricing.py).                                                   *)
(*                                                                         *)
(* Prices are whole cents, contracts whole, money in centicents (hundredths*)
(* of a cent), the unit fees are rounded up to.                            *)
(***************************************************************************)
EXTENDS Sums, Integers, Sequences, FiniteSets

CONSTANTS
    Listed,         \* series -> its multipliers, in halves: [maker, taker]
    DefaultTaker, DefaultMaker      \* multipliers of a series not listed, in halves

\* A fee is not so high that a better price is the dearer one: the schedule's
\* multipliers are 0 to 1.
MostTaker == 28
ASSUME PricingAssumption ==
    /\ DefaultTaker \in 0 .. MostTaker /\ DefaultMaker \in Nat
    /\ \A s \in DOMAIN Listed : Listed[s].maker \in Nat /\ Listed[s].taker \in 0 .. MostTaker

Tradeable(price) == 0 < price /\ price < 100
Smaller(a, b) == IF a < b THEN a ELSE b
SumOf(f) == TotalOver(f, DOMAIN f)

-------------------------------------------------------------------------------
(* fees.py *)

\* _multipliers: a listed series has its own; the default is assumed of another
\* only if no listed multiplier of the needed side exceeds it.
DefaultIsSafe(taker) ==
    \A s \in DOMAIN Listed :
        IF taker THEN Listed[s].taker <= DefaultTaker ELSE Listed[s].maker <= DefaultMaker
FeeKnown(series, taker) == series \in DOMAIN Listed \/ DefaultIsSafe(taker)
Multiplier(series, taker) ==
    IF series \in DOMAIN Listed
    THEN IF taker THEN Listed[series].taker ELSE Listed[series].maker
    ELSE IF taker THEN DefaultTaker ELSE DefaultMaker

RoundedUp(a, b) == (a + b - 1) \div b

\* taker_fee_cents and maker_fee_cents: 7% and 1.75% of p (1 - p), times the
\* multiplier, rounded up to a centicent once per fill.
Fee(series, taker, price, contracts) ==
    LET rate == (IF taker THEN 700 ELSE 175) * Multiplier(series, taker)
    IN RoundedUp(rate * contracts * price * (100 - price), 20000)

\* net_edge_cents, which is per contract, times the contracts: whole numbers.
NetEdge(series, taker, fair, price, contracts, slip) ==
    (fair - price - slip) * contracts * 100 - Fee(series, taker, price, contracts)

-------------------------------------------------------------------------------
(* paper.py. A book quotes both sides as bids: sequences of [price, size]. *)

Bids == Seq([price : Int, size : Nat])

\* levels_for: a buyer lifts the other side's bids, seen from this side; a seller
\* hits this side's bids. Best first: the cheaper comes first for a buyer, the
\* richer for a seller, and of two alike the one listed first.
Source(book, side, buying) == IF (side = "yes") = buying THEN book.no ELSE book.yes
Before(price, buying, j, i) ==
    IF price[j] = price[i] THEN j < i ELSE (price[j] < price[i]) = buying

Through(buying, price, limit) == IF buying THEN price > limit ELSE price < limit

\* simulate_fills: adverse slippage first, empty levels and untradeable prices
\* skipped, nothing through the limit. A level is asked for what the ones before
\* it left of the order, and each fill is charged by itself.
SimulateFills(book, side, buying, limit, contracts, series, slip) ==
    LET raw == Source(book, side, buying)
        size == [i \in DOMAIN raw |-> raw[i].size]
        price == [i \in DOMAIN raw |->
                    IF buying THEN 100 - raw[i].price + slip ELSE raw[i].price - slip]
        open == {i \in DOMAIN raw : /\ size[i] > 0 /\ Tradeable(price[i])
                                    /\ ~Through(buying, price[i], limit)}
        left == [i \in open |->
                   contracts - TotalOver(size, {j \in open : Before(price, buying, j, i)})]
        take == [i \in open |-> Smaller(size[i], left[i])]
    IN [i \in {k \in open : left[k] > 0} |->
          [price |-> price[i], contracts |-> take[i],
           fee |-> Fee(series, TRUE, price[i], take[i])]]

Filled(hits) == SumOf([i \in DOMAIN hits |-> hits[i].contracts])
Fees(hits) == SumOf([i \in DOMAIN hits |-> hits[i].fee])
\* What fills are worth once the traded side paid or did not.
ResultOf(hits, buying, won) ==
    LET worth == IF won THEN 100 ELSE 0
        each(h) == (IF buying THEN worth - h.price ELSE h.price - worth) * h.contracts * 100
    IN SumOf([i \in DOMAIN hits |-> each(hits[i])]) - Fees(hits)

-------------------------------------------------------------------------------
(* price_ticket *)

Ticket_FeeOnBuys(series, taker, buying, price, contracts) ==
    LET fee == Fee(series, taker, price, contracts)
    IN [maxLoss |-> IF buying THEN price * contracts * 100 + fee
                    ELSE (100 - price) * contracts * 100 - fee,
        maxWin |-> IF buying THEN (100 - price) * contracts * 100 - fee
                   ELSE price * contracts * 100 - fee]
Ticket(series, taker, buying, price, contracts) ==
    LET fee == Fee(series, taker, price, contracts)
    IN [maxLoss |-> IF buying THEN price * contracts * 100 + fee
                    ELSE (100 - price) * contracts * 100 + fee,
        maxWin |-> IF buying THEN (100 - price) * contracts * 100 - fee
                   ELSE price * contracts * 100 - fee]

\* A sell is priced as a buy of the opposite contract.
EdgeOf(series, taker, buying, price, contracts, fair, slip) ==
    IF buying THEN NetEdge(series, taker, fair, price, contracts, slip)
    ELSE NetEdge(series, taker, 100 - fair, 100 - price, contracts, slip)

-------------------------------------------------------------------------------
(* sizing.py *)

\* The all-in cost of a contract, times the size it was probed at: what a finding
\* has left of its fair value after the edge of the probe (runner.py).
AllInCost(series, price, probe, slip) ==
    (price + slip) * 100 * probe + Fee(series, TRUE, price, probe)

\* recommend_size, in whole contracts: each cap is a stake in cents, the smallest
\* wins, and what it buys is rounded down. The first is the 1/divisor of full
\* Kelly; no depth is known where it is negative.
Stakes(fair, cost, probe, bankroll, divisor, share, headroom, depth) ==
    {(bankroll * (fair * 100 * probe - cost)) \div (divisor * (10000 * probe - cost)),
     bankroll \div share, headroom}
    \cup (IF depth < 0 THEN {} ELSE {RoundedUp(depth * cost, 100 * probe)})
Bought_Up(stake, cost, probe) == RoundedUp(stake * 100 * probe, cost)
Bought(stake, cost, probe) == (stake * 100 * probe) \div cost
RecommendSize(fair, cost, probe, bankroll, divisor, share, headroom, depth) ==
    IF cost >= 10000 * probe \/ fair * 100 * probe <= cost THEN 0
    ELSE LET stakes == Stakes(fair, cost, probe, bankroll, divisor, share, headroom, depth)
             least == CHOOSE s \in stakes : \A t \in stakes : s <= t
         IN IF least <= 0 THEN 0 ELSE Bought(least, cost, probe)

===============================================================================
