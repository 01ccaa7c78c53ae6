------------------------------ MODULE TicketDesk -------------------------------
(***************************************************************************)
(* The two ways a single-leg ticket is written: the operator asks for a    *)
(* price (trading/pricing.price_ticket), or a detector that has a fair     *)
(* value of its own (the StaleQuote and Weather detectors of               *)
(* backend/app/detectors/runner.py) picks a side, sizes and prices it.     *)
(***************************************************************************)
EXTENDS Pricing

CONSTANTS
    TicketSeries, TicketPrices, TicketSizes, Fairs, Slips,  \* what is asked
    TicketBooks,    \* books the ticket may trade against
    MarketQuotes,         \* markets' quotes: [bid, ask, bidSize, askSize]
    Probe,          \* size_hint, the size edges are probed at
    MinTicketEdge,  \* min_net_edge_cents, in centicents per contract
    Bankroll,       \* bankroll_usd, in cents
    KellyDivisor,   \* 1 / kelly_fraction
    MarketShare,    \* 1 / max_pct_per_market
    Headrooms       \* what the exposure limit may have left, in cents

ASSUME TicketAssumption ==
    /\ Probe \in Nat \ {0} /\ MinTicketEdge \in Nat /\ Bankroll \in Nat
    /\ KellyDivisor \in Nat \ {0} /\ MarketShare \in Nat \ {0}
    /\ Slips \subseteq Nat /\ TicketSizes \subseteq Nat \ {0}
    /\ Fairs \subseteq Int /\ Headrooms \subseteq Int
    /\ TicketPrices \subseteq 1 .. 99
    /\ TicketBooks \subseteq [yes : Bids, no : Bids]
    /\ MarketQuotes \subseteq [bid : Int, ask : Int, bidSize : Nat, askSize : Nat]

VARIABLES
    ask             \* the ticket priced last

NoTicket == [by |-> "nobody"]
TicketInit == ask = NoTicket

\* price_ticket, through POST /quote or /proposals: refused of a series whose
\* multiplier is not known.
Quote ==
    /\ ask = NoTicket
    /\ \E series \in TicketSeries, side \in {"yes", "no"}, taker, buying \in BOOLEAN,
          price \in TicketPrices, fair \in Fairs, contracts \in TicketSizes,
          slip \in Slips, book \in TicketBooks :
        /\ FeeKnown(series, taker)
        /\ ask' = [by |-> "operator", series |-> series, side |-> side, taker |-> taker,
                   buying |-> buying, price |-> price, fair |-> fair,
                   contracts |-> contracts, slip |-> slip, book |-> book]

\* The stale-quote detector buys the side its reference says is right.
StaleSide(yes, fair, quote) ==
    IF yes THEN [side |-> "yes", price |-> quote.ask, fair |-> fair, depth |-> quote.askSize]
    ELSE [side |-> "no", price |-> 100 - quote.bid, fair |-> 100 - fair, depth |-> -1]
\* The weather detector buys the side its model finds cheap.
WeatherSide(fair, quote) ==
    IF fair > quote.ask
    THEN [side |-> "yes", price |-> quote.ask, fair |-> fair, depth |-> quote.askSize]
    ELSE [side |-> "no", price |-> 100 - quote.bid, fair |-> 100 - fair,
          depth |-> quote.bidSize]

\* Probe, size against the all-in cost, price again at that size: both must earn
\* the minimum.
Ticketed(series, pick, slip, headroom) ==
    LET cost == AllInCost(series, pick.price, Probe, slip)
        size == RecommendSize(pick.fair, cost, Probe, Bankroll, KellyDivisor, MarketShare,
                              headroom, pick.depth)
        edge(n) == NetEdge(series, TRUE, pick.fair, pick.price, n, slip)
    IN /\ Tradeable(pick.price)
       /\ edge(Probe) >= MinTicketEdge * Probe
       /\ size > 0 /\ edge(size) >= MinTicketEdge * size
       /\ \E book \in TicketBooks :
            ask' = [by |-> "detector", series |-> series, side |-> pick.side, taker |-> TRUE,
                    buying |-> TRUE, price |-> pick.price, fair |-> pick.fair,
                    contracts |-> size, slip |-> slip, book |-> book, headroom |-> headroom]

DetectStale ==
    /\ ask = NoTicket
    /\ \E series \in TicketSeries, yes \in BOOLEAN, fair \in Fairs, quote \in MarketQuotes,
          slip \in Slips, headroom \in Headrooms :
        /\ FeeKnown(series, TRUE)
        /\ Ticketed(series, StaleSide(yes, fair, quote), slip, headroom)
DetectWeather ==
    /\ ask = NoTicket
    /\ \E series \in TicketSeries, fair \in Fairs, quote \in MarketQuotes, slip \in Slips,
          headroom \in Headrooms :
        /\ FeeKnown(series, TRUE)
        /\ fair > quote.ask \/ fair < quote.bid
        /\ Ticketed(series, WeatherSide(fair, quote), slip, headroom)

TicketNext == Quote \/ DetectStale \/ DetectWeather

TicketSpec == TicketInit /\ [][TicketNext]_ask

-------------------------------------------------------------------------------
(* Properties *)

Written == ask.by # "nobody"
\* The ticket traded in one fill, once the side paid or did not.
AtLimit(won) == ResultOf(<<[price |-> ask.price, contracts |-> ask.contracts,
                            fee |-> Fee(ask.series, ask.taker, ask.price, ask.contracts)]>>,
                         ask.buying, won)
PaperFills == SimulateFills(ask.book, ask.side, ask.buying, ask.price, ask.contracts,
                            ask.series, ask.slip)

\* What a ticket says of itself is what the ledger will say of it: its worst and
\* best case are the two ways it can settle, its edge is their average weighted
\* with the fair value (less slippage), and no paper fill of it, whatever the
\* book, loses more than the worst case beyond the rounding of each extra fill.
TicketIsHonest ==
    Written =>
        LET ticket == Ticket(ask.series, ask.taker, ask.buying, ask.price, ask.contracts)
            edge == EdgeOf(ask.series, ask.taker, ask.buying, ask.price, ask.contracts,
                           ask.fair, ask.slip)
            results == {AtLimit(won) : won \in BOOLEAN}
        IN /\ -ticket.maxLoss \in results /\ ticket.maxWin \in results
           /\ \A r \in results : -ticket.maxLoss <= r /\ r <= ticket.maxWin
           /\ ask.fair * AtLimit(TRUE) + (100 - ask.fair) * AtLimit(FALSE)
                = 100 * (edge + ask.slip * ask.contracts * 100)
           /\ ask.taker => \A won \in BOOLEAN :
                ResultOf(PaperFills, ask.buying, won)
                    >= -ticket.maxLoss - Cardinality(DOMAIN PaperFills)

\* A ticket a detector sized is never one the guards would refuse: its worst
\* case, fee of the real size included, fits the share of the bankroll a market
\* may take and what the exposure limit had left.
SizedWithinCaps ==
    ask.by = "detector" =>
        LET worst == Ticket(ask.series, TRUE, TRUE, ask.price, ask.contracts).maxLoss
        IN /\ worst * MarketShare <= Bankroll * 100
           /\ worst <= ask.headroom * 100

===============================================================================
