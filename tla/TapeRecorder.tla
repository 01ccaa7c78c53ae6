----------------------------- MODULE TapeRecorder -----------------------------
(***************************************************************************)
(* What the ingest service keeps of the trade and ticker channels:         *)
(* backend/app/ingest/streams.py (CandleBuilder, the batches, flush) and   *)
(* the start and stop of its loops in ingest/main.py.  One market; a       *)
(* candle's range, close and volume are what the trades it counts make     *)
(* them, so a candle is the sequence of trades it counts.                  *)
(***************************************************************************)
EXTENDS Integers, FiniteSets, SequencesExt

CONSTANTS
    Trades,         \* the prints of the market
    MinuteOf,       \* the minute each is stamped with
    Columns,        \* the fields a ticker message may carry
    MaxMinute,      \* bound: minutes
    MaxQuotes,      \* bound: ticker messages
    MaxSlips        \* bound: repeats, late trades, failed flushes, stops, crashes

ASSUME TapeAssumption ==
    /\ {MaxMinute, MaxQuotes, MaxSlips} \subseteq Nat
    /\ MinuteOf \in [Trades -> 0 .. MaxMinute]

VARIABLES
    clock,      \* the minute it is
    running,    \* the stream loop of ingest/main.py is running
    stopping,   \* the stop event is set
    open,       \* CandleBuilder._open
    batch,      \* _tape_batch
    update,     \* _ticker_updates
    job,        \* what the flush in progress took
    tape,       \* the tape table
    candle,     \* the candles table
    market,     \* the quote columns of the markets row
    quoted,     \* ticker messages so far (bounded by MaxQuotes)
    slips,      \* faults so far (bounded by MaxSlips)
    said,       \* history: the newest value of each column the service was sent
    handled,    \* history: trades handled
    lost,       \* history: trades that went with a failed flush or a crash
    spoiled,    \* history: minutes that had a repeat, a late trade, a loss or a stop
    dropped     \* history: a ticker update went with a failed flush or a crash

stored == <<tape, candle, market>>
buffers == <<open, batch, update>>
history == <<said, handled, lost, spoiled, dropped>>
tapeVars == <<clock, running, stopping, buffers, job, stored, quoted, slips, history>>

-------------------------------------------------------------------------------
Minutes == 0 .. MaxMinute
Unsaid == 0     \* a field the message does not carry, a column never written
Nothing == [tape |-> <<>>, candles |-> [m \in Minutes |-> <<>>],
            update |-> [c \in Columns |-> Unsaid]]
NoCandle == [first |-> {}, counts |-> <<>>]

\* What Postgres keeps is what a later flush or a restart finds.
TapeInit ==
    /\ clock = 0
    /\ running = TRUE /\ stopping = FALSE
    /\ open = Nothing.candles /\ batch = <<>> /\ update = Nothing.update
    /\ job = Nothing
    /\ tape = {} /\ candle = [m \in Minutes |-> NoCandle]
    /\ market = [c \in Columns |-> Unsaid]
    /\ quoted = 0 /\ slips = 0
    /\ said = [c \in Columns |-> Unsaid]
    /\ handled = {} /\ lost = {} /\ spoiled = {} /\ dropped = FALSE

Slip == slips < MaxSlips /\ slips' = slips + 1

\* A minute passes.
Minute ==
    /\ clock < MaxMinute
    /\ clock' = clock + 1
    /\ UNCHANGED <<running, stopping, buffers, job, stored, quoted, slips, history>>

(* Handling a message *)

\* CandleBuilder.add_trade.
AddTrade(t) == [open EXCEPT ![MinuteOf[t]] = Append(@, t)]

\* _on_trade.  A trade may come again after a reconnect, and after its minute.
OnTrade(t) ==
    /\ running
    /\ MinuteOf[t] <= clock
    /\ batch' = Append(batch, t)
    /\ open' = AddTrade(t)
    /\ handled' = handled \cup {t}
    /\ IF t \in handled \/ MinuteOf[t] < clock
       THEN Slip /\ spoiled' = spoiled \cup {MinuteOf[t]}
       ELSE UNCHANGED <<slips, spoiled>>
    /\ UNCHANGED <<clock, running, stopping, update, job, stored, quoted, said, lost, dropped>>

\* _on_ticker: normalize_ticker carries over the fields a message has, and the
\* newest message of a window replaces the one before it.
OnTicker(C) ==
    /\ running
    /\ quoted < MaxQuotes /\ quoted' = quoted + 1
    /\ update' = [c \in Columns |-> IF c \in C THEN quoted' ELSE Unsaid]
    /\ said' = [c \in Columns |-> IF c \in C THEN quoted' ELSE said[c]]
    /\ UNCHANGED <<clock, running, stopping, open, batch, job, stored, slips,
                   handled, lost, spoiled, dropped>>

MinutesIn(buckets) == {m \in Minutes : buckets[m] # <<>>}
MinutesOf(S) == {MinuteOf[t] : t \in ToSet(S)}

(* The flush *)

\* take_closed: the buckets of the minutes that are over.
Closed_Running(m) == m <= clock
Closed(m) == m < clock

\* What a flush takes: every bucket when it is the last one (take_all).
Taken(final) ==
    [tape |-> batch, update |-> update,
     candles |-> [m \in Minutes |-> IF final \/ Closed(m) THEN open[m] ELSE <<>>]]
Left(final) == [m \in Minutes |-> IF final \/ Closed(m) THEN <<>> ELSE open[m]]

Take(final) ==
    /\ job' = Taken(final)
    /\ open' = Left(final) /\ batch' = <<>> /\ update' = Nothing.update

\* A last flush takes the running minute before it is over.
CutShort(final) == IF final /\ open[clock] # <<>> THEN {clock} ELSE {}

\* run_flusher.
StartFlush ==
    /\ running /\ job = Nothing
    /\ Taken(stopping) # Nothing
    /\ Take(stopping)
    /\ spoiled' = spoiled \cup CutShort(stopping)
    /\ UNCHANGED <<clock, running, stopping, stored, quoted, slips, said, handled, lost, dropped>>

\* _insert_candles: a row that is there keeps its open and takes the rest.
MergeCandle(row, counts) ==
    IF counts = <<>> THEN row
    ELSE [first |-> IF row = NoCandle THEN {Head(counts)} ELSE row.first, counts |-> counts]

\* _update_tickers: COALESCE(excluded, stored).
Coalesce_Excluded(new, old) == new
Coalesce(new, old) == IF new = Unsaid THEN old ELSE new

\* What is left in the batch once a flush is through.
AfterCommit_Cleared == <<>>
AfterCommit == batch

\* The transaction commits; what came meanwhile waits for the next.
\* _insert_tape does nothing with a trade that is there.
Commit ==
    /\ job # Nothing
    /\ tape' = tape \cup ToSet(job.tape)
    /\ candle' = [m \in Minutes |-> MergeCandle(candle[m], job.candles[m])]
    /\ market' = IF job.update = Nothing.update THEN market
                 ELSE [c \in Columns |-> Coalesce(job.update[c], market[c])]
    /\ batch' = AfterCommit
    /\ job' = Nothing
    /\ UNCHANGED <<clock, running, stopping, open, update, quoted, slips, history>>

(* Losing what was taken *)

Lose(T, M, u) ==
    /\ lost' = lost \cup T
    /\ spoiled' = spoiled \cup M
    /\ dropped' = (dropped \/ u # Nothing.update)
    /\ UNCHANGED <<said, handled>>

\* A flush that fails is logged; what it took is gone.
FlushFails ==
    /\ job # Nothing
    /\ Slip
    /\ Lose(ToSet(job.tape), MinutesIn(job.candles) \cup MinutesOf(job.tape), job.update)
    /\ job' = Nothing
    /\ UNCHANGED <<clock, running, stopping, buffers, stored, quoted>>

SetStop ==
    /\ running /\ ~stopping
    /\ Slip
    /\ stopping' = TRUE
    /\ UNCHANGED <<clock, running, buffers, job, stored, quoted, history>>

\* The finally of _stream_loop: the flusher is cancelled, in a flush or not, and
\* a last flush takes what is left.
StreamEnds ==
    /\ running /\ stopping
    /\ running' = FALSE
    /\ Lose(ToSet(job.tape),
            MinutesIn(job.candles) \cup MinutesOf(job.tape) \cup CutShort(TRUE), job.update)
    /\ Take(TRUE)
    /\ UNCHANGED <<clock, stopping, stored, quoted, slips>>

\* The process dies with its buffers.
Crash ==
    /\ running
    /\ Slip
    /\ Lose(ToSet(batch \o job.tape),
            MinutesIn(open) \cup MinutesIn(job.candles) \cup MinutesOf(batch \o job.tape),
            [c \in Columns |-> Coalesce(update[c], job.update[c])])
    /\ running' = FALSE
    /\ job' = Nothing
    /\ open' = Nothing.candles /\ batch' = <<>> /\ update' = Nothing.update
    /\ UNCHANGED <<clock, stopping, stored, quoted>>

Restart ==
    /\ ~running /\ job = Nothing
    /\ running' = TRUE /\ stopping' = FALSE
    /\ UNCHANGED <<clock, buffers, job, stored, quoted, slips, history>>

TapeNext ==
    \/ Minute \/ StartFlush \/ Commit \/ FlushFails
    \/ SetStop \/ StreamEnds \/ Crash \/ Restart
    \/ \E t \in Trades : OnTrade(t)
    \/ \E C \in SUBSET Columns \ {{}} : OnTicker(C)

TapeSpec == TapeInit /\ [][TapeNext]_tapeVars

-------------------------------------------------------------------------------
(* What must hold *)

\* Between arrival and commit no trade is forgotten: one that was handled is
\* buffered, with the flush in progress, on the tape, or went with a failed
\* flush or a crash - also when it arrived while a flush was under way.
NothingHandledIsForgotten ==
    handled \subseteq ToSet(batch) \cup ToSet(job.tape) \cup tape \cup lost

\* A stored candle is its minute: every trade of the minute that is on the tape,
\* counted once and nothing else, and opened by the first of them - unless the
\* minute had a repeat, a late trade, a loss or a stop.
CandleIsItsMinute ==
    \A m \in Minutes \ spoiled :
        candle[m] # NoCandle =>
            /\ IsInjective(candle[m].counts)
            /\ ToSet(candle[m].counts) = {t \in handled : MinuteOf[t] = m}
            /\ candle[m].first = {Head(candle[m].counts)}

\* A partial ticker message never clears a quote, and no flush takes one back to
\* an older message, whatever was collapsed, lost or restarted in between.
QuotesOnlyAdvance == [][\A c \in Columns : market'[c] >= market[c]]_tapeVars

\* streams.py:310: "merge rather than duplicate, keeping the widest range and
\* largest volume seen" - a bucket flushed again never counts fewer trades.
WidestCandleKept ==
    [][\A m \in Minutes : Len(candle'[m].counts) >= Len(candle[m].counts)]_tapeVars

\* streams.py:199: "ticker updates are snapshots, not increments, so collapsing
\* them loses nothing" - once all is flushed the row has the newest of each field.
CollapsingLosesNothing ==
    update = Nothing.update /\ job = Nothing /\ ~dropped => market = said

===============================================================================
