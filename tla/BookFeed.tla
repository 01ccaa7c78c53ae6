------------------------------- MODULE BookFeed -------------------------------
(***************************************************************************)
(* The order books the ingest service keeps from the exchange's websocket: *)
(* backend/app/kalshi/ws.py (numbering, gaps, reconnects), orderbook.py    *)
(* (one book), ingest/streams.py (which book needs a snapshot) and the     *)
(* heal loop of ingest/main.py.                                            *)
(*                                                                         *)
(* One subscription covers every watched market, and its sequence numbers  *)
(* count the subscription, not a market.  A book's content is the number   *)
(* of changes it reflects; the exchange changes a book by one at a time.   *)
(***************************************************************************)
EXTENDS Integers, FiniteSets, Sequences

CONSTANTS
    Tickers,        \* the watchlist
    HealMinStale,   \* BOOK_HEAL_MIN_STALE
    MaxChanges,     \* bound: changes of a book
    MaxFaults,      \* bound: losses, replays, errors and disconnects
    NoSeq           \* no sequence number yet

ASSUME FeedAssumption ==
    /\ {HealMinStale, MaxChanges, MaxFaults} \subseteq Nat
    /\ NoSeq = 0

VARIABLES
    real,       \* EXTERNAL: content of each book at the exchange
    sent,       \* EXTERNAL: the messages of this subscription, by sequence number
    served,     \* EXTERNAL: whether the exchange still serves it
    wire,       \* what is on its way, in order: sequence numbers of sent, 0 an error
    connected,
    last,       \* _SidState.last_seq
    book,       \* the local books; Absent before the first snapshot
    awaiting,   \* StreamProcessor.resync_needed
    rested,     \* BOOK_HEAL_INTERVAL_SEC have passed since the last forced reconnect
    faults,     \* losses, replays, errors, disconnects so far (bounded by MaxFaults)
    regressed   \* history: books that took a snapshot a second time

feedVars == <<real, sent, served, wire, connected, last, book, awaiting, rested,
              faults, regressed>>

-------------------------------------------------------------------------------
Content == 0 .. MaxChanges
Message == [kind : {"snapshot", "delta", "odd"}, ticker : Tickers, value : Content]
Book == [value : Nat, seq : Nat, stale : BOOLEAN]
Absent == [value |-> 0, seq |-> 0, stale |-> FALSE, absent |-> TRUE]

Known(b, t) == b[t] # Absent

FeedTypeOK ==
    /\ real \in [Tickers -> Content]
    /\ sent \in Seq(Message)
    /\ {served, connected, rested} \subseteq BOOLEAN
    /\ \A i \in 1 .. Len(wire) : wire[i] \in 0 .. Len(sent)
    /\ last \in 0 .. Len(sent)
    /\ book \in [Tickers -> Book \cup {Absent}]
    /\ awaiting \subseteq Tickers
    /\ faults \in 0 .. MaxFaults
    /\ regressed \subseteq Tickers

-------------------------------------------------------------------------------
FeedInit ==
    /\ real = [t \in Tickers |-> 0]
    /\ sent = <<>>
    /\ served = FALSE /\ connected = FALSE
    /\ wire = <<>>
    /\ last = NoSeq
    /\ book = [t \in Tickers |-> Absent]
    /\ awaiting = {}
    /\ rested = TRUE
    /\ faults = 0
    /\ regressed = {}

exchange == <<real, sent, served>>
consumer == <<last, book, awaiting, regressed>>

(* Handling a message: each operator gives the books and who awaits a snapshot *)

MarkStale(b) == IF b = Absent THEN b ELSE [b EXCEPT !.stale = TRUE]

\* _on_resync: every book there is.
Resync == [book |-> [t \in Tickers |-> MarkStale(book[t])],
           awaiting |-> awaiting \cup {t \in Tickers : Known(book, t)}]

\* OrderBook.apply_snapshot and _on_snapshot: whatever the book held before.
ApplySnapshot(t, v, n, S) ==
    [book |-> [S.book EXCEPT ![t] = [value |-> v, seq |-> n, stale |-> FALSE]],
     awaiting |-> S.awaiting \ {t}]

\* OrderBook.apply_delta refuses a stale book, and a number it has already seen.
Takes_AnyNumber(b, n) == b # Absent /\ ~b.stale
Takes(b, n) == b # Absent /\ ~b.stale /\ n > b.seq

\* _on_delta: a delta that cannot be applied asks for a snapshot.
ApplyDelta(t, n, S) ==
    IF Takes(S.book[t], n)
    THEN [book |-> [S.book EXCEPT ![t].value = @ + 1, ![t].seq = n], awaiting |-> S.awaiting]
    ELSE [book |-> S.book, awaiting |-> S.awaiting \cup {t}]

\* A side that is neither yes nor no.
ApplyOdd_Taken(t, n, S) ==
    IF Takes(S.book[t], n)
    THEN [book |-> [S.book EXCEPT ![t].stale = TRUE], awaiting |-> S.awaiting]
    ELSE [book |-> S.book, awaiting |-> S.awaiting \cup {t}]
ApplyOdd(t, n, S) ==
    IF Takes(S.book[t], n)
    THEN [book |-> [S.book EXCEPT ![t].stale = TRUE], awaiting |-> S.awaiting \cup {t}]
    ELSE [book |-> S.book, awaiting |-> S.awaiting \cup {t}]

Handle(m, n, S) ==
    CASE m.kind = "snapshot" -> ApplySnapshot(m.ticker, m.value, n, S)
      [] m.kind = "delta" -> ApplyDelta(m.ticker, n, S)
      [] OTHER -> ApplyOdd(m.ticker, n, S)

\* _check_seq: a gap resyncs before its message is handled; the first number is
\* taken as it is, and a lower one neither counts nor is withheld.
Gap_OffByOne(n) == last # NoSeq /\ n > last + 2
Gap(n) == last # NoSeq /\ n > last + 1
Behind(n) == last # NoSeq /\ n <= last

(* The connection *)

\* _sids.clear(): what a new connection knows of the numbering.
FirstSeq == NoSeq

\* stream: a new connection forgets the numbering, replays the subscriptions and
\* tells the consumer to discard what it holds.  EXTERNAL: the confirmation of a
\* subscription comes before its first message.
Connect ==
    /\ ~connected
    /\ connected' = TRUE /\ served' = TRUE
    /\ sent' = <<>> /\ wire' = <<>> /\ last' = FirstSeq
    /\ book' = Resync.book /\ awaiting' = Resync.awaiting
    /\ UNCHANGED <<real, rested, faults, regressed>>

Dropped == connected' = FALSE /\ served' = FALSE /\ wire' = <<>> /\ sent' = sent

\* The network or the exchange ends the connection: what was on its way is gone.
Disconnect ==
    /\ connected
    /\ faults < MaxFaults /\ faults' = faults + 1
    /\ Dropped
    /\ UNCHANGED <<real, consumer, rested>>

\* _book_heal_loop and force_reconnect.
EnoughStale_More == Cardinality(awaiting) > HealMinStale
EnoughStale == Cardinality(awaiting) >= HealMinStale
Heal ==
    /\ connected
    /\ rested /\ rested' = FALSE
    /\ EnoughStale
    /\ Dropped
    /\ UNCHANGED <<real, consumer, faults>>

Snapshotted(t) == \E i \in 1 .. Len(sent) : sent[i].kind = "snapshot" /\ sent[i].ticker = t

\* The interval of the heal loop: five minutes, in which the snapshots of a
\* connection arrive and are taken in - a slower network counts as a fault.
Settled == connected /\ wire = <<>> /\ (served => \A t \in Tickers : Snapshotted(t))
Interval ==
    /\ ~rested /\ rested' = TRUE
    /\ \/ Settled /\ UNCHANGED faults
       \/ ~Settled /\ faults < MaxFaults /\ faults' = faults + 1
    /\ UNCHANGED <<exchange, wire, connected, consumer>>

(* EXTERNAL: the exchange *)

\* It numbers what it sends; a message may be lost on the way.
Emit(m, arrives) ==
    /\ served
    /\ sent' = Append(sent, m)
    /\ wire' = IF arrives THEN Append(wire, Len(sent) + 1) ELSE wire
    /\ arrives \/ faults < MaxFaults
    /\ faults' = IF arrives THEN faults ELSE faults + 1

\* One snapshot per market on subscribing.
SendSnapshot(t, arrives) ==
    /\ ~Snapshotted(t)
    /\ Emit([kind |-> "snapshot", ticker |-> t, value |-> real[t]], arrives)
    /\ UNCHANGED <<real, served, connected, consumer, rested>>

\* The book changes; a subscriber that has its snapshot is told.
SendDelta(t, arrives) ==
    /\ Snapshotted(t)
    /\ real[t] < MaxChanges
    /\ real' = [real EXCEPT ![t] = @ + 1]
    /\ Emit([kind |-> "delta", ticker |-> t, value |-> real[t] + 1], arrives)
    /\ UNCHANGED <<served, connected, consumer, rested>>

\* Changes nobody is told of: no connection, or no subscription on it any more.
ChangeUnheard(t) ==
    /\ ~served \/ ~Snapshotted(t)
    /\ real[t] < MaxChanges
    /\ real' = [real EXCEPT ![t] = @ + 1]
    /\ UNCHANGED <<sent, served, wire, connected, consumer, rested, faults>>

\* A delta on a side the code does not know.
SendOdd(t) ==
    /\ Snapshotted(t)
    /\ faults < MaxFaults /\ faults' = faults + 1
    /\ served
    /\ sent' = Append(sent, [kind |-> "odd", ticker |-> t, value |-> real[t]])
    /\ wire' = Append(wire, Len(sent) + 1)
    /\ UNCHANGED <<real, served, connected, consumer, rested>>

\* A message is sent again, under its number.
Replay(n) ==
    /\ served /\ n \in 1 .. Len(sent)
    /\ faults < MaxFaults /\ faults' = faults + 1
    /\ wire' = Append(wire, n)
    /\ UNCHANGED <<exchange, connected, consumer, rested>>

\* A terminal error ends the subscription, not the connection.
SendError ==
    /\ served
    /\ faults < MaxFaults /\ faults' = faults + 1
    /\ served' = FALSE
    /\ wire' = Append(wire, 0)
    /\ UNCHANGED <<real, sent, connected, consumer, rested>>

(* The consumer *)

\* A snapshot sent again is a snapshot like any other to apply_snapshot.
Regressed(m, n) ==
    IF m.kind # "snapshot" THEN regressed
    ELSE IF Behind(n) THEN regressed \cup {m.ticker} ELSE regressed \ {m.ticker}

\* _handle_raw, then StreamProcessor.handle for what it yields.
Receive ==
    /\ connected /\ wire # <<>>
    /\ LET n == Head(wire)
           S == [book |-> book, awaiting |-> awaiting]
           H == IF n = 0 THEN Resync
                ELSE Handle(sent[n], n, IF Gap(n) THEN Resync ELSE S)
       IN  /\ book' = H.book
           /\ awaiting' = H.awaiting
           /\ last' = IF n = 0 \/ Behind(n) THEN last ELSE n
           /\ regressed' = IF n = 0 THEN regressed ELSE Regressed(sent[n], n)
    /\ wire' = Tail(wire)
    /\ UNCHANGED <<exchange, connected, rested, faults>>

FeedNext ==
    \/ Connect \/ Disconnect \/ Heal \/ Interval \/ SendError \/ Receive
    \/ \E t \in Tickers, arrives \in BOOLEAN : SendSnapshot(t, arrives) \/ SendDelta(t, arrives)
    \/ \E t \in Tickers : ChangeUnheard(t) \/ SendOdd(t)
    \/ \E n \in 1 .. Len(sent) : Replay(n)

FeedSpec == FeedInit /\ [][FeedNext]_feedVars

\* The stream loop reconnects and consumes, the heal loop runs every few minutes,
\* and the exchange sends the snapshots of a subscription.
FeedFairness ==
    /\ WF_feedVars(Connect) /\ WF_feedVars(Receive)
    /\ WF_feedVars(Heal) /\ WF_feedVars(Interval)
    /\ \A t \in Tickers : WF_feedVars(SendSnapshot(t, TRUE))

-------------------------------------------------------------------------------
(* What must hold *)

\* The exchange's book of t as of the n-th message.
RealAt(t, n) ==
    LET I == {i \in 1 .. n : sent[i].ticker = t}
    IN  sent[CHOOSE i \in I : \A j \in I : j <= i].value

\* A book that answers is right: it is the exchange's book as of the last message
\* of the subscription, whatever was lost or repeated before - unless a snapshot
\* was sent again and took the book back, which nothing in ws.py or orderbook.py
\* keeps out.
AnsweringBookIsRight ==
    \A t \in Tickers :
        Known(book, t) /\ ~book[t].stale /\ t \notin regressed
            => book[t].value = RealAt(t, last)

\* Every book that answers nothing is counted by the heal loop; one that is not
\* would stay stale for as long as the connection lasts.
StaleIsAwaited ==
    \A t \in Tickers : Known(book, t) /\ book[t].stale => t \in awaiting

\* To a reader of the books this is BookView: whatever the wire loses, repeats or
\* cuts off, a book that answers was the exchange's at an earlier moment, moves on
\* with it one change or one snapshot at a time, and speaks again only from a
\* snapshot; one taken back by an old snapshot is still never ahead.
View == INSTANCE BookView WITH
    shown <- [t \in Tickers |-> book[t].value],
    answering <- {t \in Tickers : Known(book, t) /\ ~book[t].stale},
    astray <- regressed

ImplementsView == View!Spec

\* When enough books wait for a snapshot, they do not wait for good.
BooksHeal == (Cardinality(awaiting) >= HealMinStale) ~> (Cardinality(awaiting) < HealMinStale)

===============================================================================
