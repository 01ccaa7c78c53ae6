------------------------------ MODULE MCReadSide -------------------------------
(* The components that neither the queue nor the ledger shares state with: a  *)
(* behaviour is one of one of them, and the others stay as they began.        *)
EXTENDS MCBacktest, MCReportCard, MCSetArbitrage, TicketDesk, RestClient,
        BookFeed, TapeRecorder, CatalogSync, FanOut

CONSTANTS t1, t2, x1, x2, x3, bid, ask1, w1, r1, r2, plain,
          c1, c2, b1, b2, h1, h2

MCMinuteOf == (x1 :> 0) @@ (x2 :> 0) @@ (x3 :> 1)

MCTicketBooks == {[yes |-> <<Level(40, 1), Level(44, 2)>>, no |-> <<Level(30, 1), Level(52, 2)>>],
                  [yes |-> <<Level(58, 2)>>, no |-> <<Level(40, 1)>>],
                  [yes |-> <<Level(66, 1), Level(62, 1)>>, no |-> <<>>]}
MCMarketQuotes == {[bid |-> 40, ask |-> 45, bidSize |-> 4, askSize |-> 3],
                   [bid |-> 1, ask |-> 3, bidSize |-> 50, askSize |-> 50],
                   [bid |-> 60, ask |-> 61, bidSize |-> 2, askSize |-> 60]}

VARIABLE part

vars == <<part, feedVars, tapeVars, btVars, rcVars, setVars, ask, restVars,
          catVars, hubVars>>

Init ==
    /\ part \in {"books", "tape", "backtest", "report", "sets", "tickets", "rest",
                "catalog", "hub"}
    /\ FeedInit /\ TapeInit /\ ReportInit /\ TicketInit /\ RestInit
    /\ CatalogInit /\ HubInit
    /\ SetInit /\ (part # "sets" => ~exhaustive)
    /\ BacktestInit
    /\ part = "backtest" => outcomes[m2].result # "yes"    \* m1 has both results
    /\ part # "backtest" => /\ ~ignoring /\ \A m \in Markets : snaps[m] = {}
                            /\ \A m \in Markets : outcomes[m].result = "open"

Next ==
    /\ UNCHANGED part
    /\ \/ /\ part = "books" /\ FeedNext
          /\ UNCHANGED <<tapeVars, btVars, rcVars, setVars, ask, restVars, catVars, hubVars>>
       \/ /\ part = "tape" /\ TapeNext
          /\ UNCHANGED <<feedVars, btVars, rcVars, setVars, ask, restVars, catVars, hubVars>>
       \/ /\ part = "backtest" /\ BacktestNext
          /\ UNCHANGED <<feedVars, tapeVars, rcVars, setVars, ask, restVars, catVars, hubVars>>
       \/ /\ part = "report" /\ ReportNext
          /\ UNCHANGED <<feedVars, tapeVars, btVars, setVars, ask, restVars, catVars, hubVars>>
       \/ /\ part = "sets" /\ SetNext
          /\ UNCHANGED <<feedVars, tapeVars, btVars, rcVars, ask, restVars, catVars, hubVars>>
       \/ /\ part = "tickets" /\ TicketNext
          /\ UNCHANGED <<feedVars, tapeVars, btVars, rcVars, setVars, restVars, catVars, hubVars>>
       \/ /\ part = "rest" /\ RestNext
          /\ UNCHANGED <<feedVars, tapeVars, btVars, rcVars, setVars, ask, catVars, hubVars>>
       \/ /\ part = "catalog" /\ CatalogNext
          /\ UNCHANGED <<feedVars, tapeVars, btVars, rcVars, setVars, ask, restVars, hubVars>>
       \/ /\ part = "hub" /\ HubNext
          /\ UNCHANGED <<feedVars, tapeVars, btVars, rcVars, setVars, ask, restVars, catVars>>

Spec ==
    /\ Init /\ [][Next]_vars
    /\ part = "books" => FeedFairness
===============================================================================
