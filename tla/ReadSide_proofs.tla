---------------------------- MODULE ReadSide_proofs ----------------------------
(***************************************************************************)
(* Theorems about the components that bring the exchange's data in and     *)
(* carry it out to the browsers: RestClient, BookFeed, CatalogSync, FanOut *)
(* and TapeRecorder. They share no state; each has its own inductive       *)
(* invariant.                                                              *)
(***************************************************************************)
EXTENDS RestClient, BookFeed, CatalogSync, FanOut, TapeRecorder,
        FiniteSetTheorems, SequenceTheorems, WellFoundedInduction, TLAPS

-------------------------------------------------------------------------------
(* RestClient: the inductive invariant *)

CallState == {"idle", "acquire", "flying", "executed", "backoff",
              "ok", "refused", "ambiguous", "raised"}
Call == [pc : CallState, attempt : Nat, ready : Nat]
TokenBucket == [tokens : Int, rate : 1 .. MaxRate, successes : Nat]

RestTypeOK ==
    /\ tick \in Nat
    /\ request \in [Requests -> Call]
    /\ bucket \in [Directions -> TokenBucket]
    /\ executed \in [Requests -> Nat]
    /\ sends \in [Directions -> Seq(Nat)]

\* How often a write can have been carried out, by where its call is.
WriteIsCounted ==
    \A r \in Writes :
        executed[r] \in CASE request[r].pc \in {"executed", "ok"} -> {1}
                          [] request[r].pc \in {"ambiguous", "raised"} -> {0, 1}
                          [] OTHER -> {0}

\* What n requests cost, and what t ticks bring in at the most.
CostOf(n) == n * TokenCost
IncomeOf(t) == MaxRate * t

\* Every stretch of time that ends now: what was sent in it and what the bucket
\* still holds were in a full bucket or have come in since.
StretchIsPaid(d) ==
    /\ bucket[d].tokens <= Capacity
    /\ \A i \in DOMAIN sends[d] :
        /\ sends[d][i] <= tick
        /\ CostOf(Len(sends[d]) - i + 1) + bucket[d].tokens
              <= Capacity + IncomeOf(tick - sends[d][i])

\* And every stretch from one request to another.
StretchWasPaid(d) ==
    \A i, j \in DOMAIN sends[d] :
        i < j => CostOf(j - i + 1) <= Capacity + IncomeOf(sends[d][j] - sends[d][i])

RestInv ==
    /\ RestTypeOK /\ WriteIsCounted
    /\ \A d \in Directions : StretchWasPaid(d)
    /\ \A d \in Directions : StretchIsPaid(d)

-------------------------------------------------------------------------------
(* BookFeed: the inductive invariant *)

\* No message of t among those numbered from i to j.
Silent(t, i, j) == \A k \in i .. j : sent[k].ticker # t

\* The exchange's side: a market's first message is a snapshot, each delta adds
\* one to the content before it, and while the subscription is served the newest
\* message tells the book as it is.
SentIsConsistent ==
    /\ \A i \in 1 .. Len(sent) : Snapshotted(sent[i].ticker)
    /\ \A i, j \in 1 .. Len(sent) :
          i < j /\ sent[i].ticker = sent[j].ticker /\ Silent(sent[i].ticker, i + 1, j - 1)
             => (sent[j].kind = "delta" => sent[j].value = sent[i].value + 1)
    /\ served => \A i \in 1 .. Len(sent) :
          Silent(sent[i].ticker, i + 1, Len(sent)) => sent[i].value = real[sent[i].ticker]

\* A book b of t stands at the newest message of t up to the n-th.
StandsAt(b, t, n) ==
    /\ b.seq \in 1 .. n
    /\ sent[b.seq].ticker = t
    /\ sent[b.seq].value = b.value
    /\ Silent(t, b.seq + 1, n)

\* The consumer's side: a book that answers stands at the newest of the messages
\* that were let pass.
Answers(b) == b # Absent /\ ~b.stale
BooksKeepUp ==
    \A t \in Tickers \ regressed : Answers(book[t]) => StandsAt(book[t], t, last)

FeedInv ==
    /\ FeedTypeOK /\ wire \in Seq(Nat)
    /\ SentIsConsistent /\ BooksKeepUp /\ StaleIsAwaited

\* The messages of a market tell its content in order, none more than there is.
MessagesInOrder ==
    \A i \in 1 .. Len(sent) :
        /\ sent[i].value <= real[sent[i].ticker]
        /\ \A j \in (i + 1) .. Len(sent) : sent[i].ticker = sent[j].ticker =>
              /\ sent[i].value <= sent[j].value
              /\ sent[j].kind = "delta" => sent[i].value < sent[j].value

\* No book is ahead: not of the exchange, not of a message yet to be let pass, and
\* one that answers not of a delta it would still take.
NoneAhead ==
    \A t \in Tickers :
        /\ book[t].value <= real[t]
        /\ \A i \in 1 .. Len(sent) : sent[i].ticker = t =>
              /\ i > last => book[t].value <= sent[i].value
              /\ Answers(book[t]) /\ sent[i].kind = "delta" /\ i > book[t].seq
                    => book[t].value < sent[i].value

ViewInv == FeedInv /\ MessagesInOrder /\ NoneAhead

-------------------------------------------------------------------------------
(* CatalogSync: the inductive invariant *)

Walk == [on : BOOLEAN, all : BOOLEAN, began : Nat, todo : SUBSET Listing, kept : BOOLEAN]

CatalogTypeOK ==
    /\ time \in Nat
    /\ updated \in [Listing -> Nat] /\ tradable \subseteq Listing
    /\ catalog \in [Listing -> Nat]
    /\ \A m \in Listing : catalog[m] <= updated[m] /\ updated[m] <= time
    /\ walk \in Walk /\ walk.began <= time
    /\ completed \in 0 .. time
    /\ {booted, broken} \subseteq BOOLEAN

\* The row of m is the market's newest, or it has none and is none to trade.
InCatalogue(m) == catalog[m] = updated[m] \/ (catalog[m] = Never /\ m \notin tradable)

\* What a refresh in progress has gone past: of the changes before it began those
\* it is still to show are all that is missing.
WalkCovers ==
    walk.on => /\ ~broken => \A m \in Listing \ walk.todo :
                    updated[m] # Never /\ updated[m] < walk.began => InCatalogue(m)
               /\ walk.all => \A m \in walk.todo : catalog[m] = Never

\* Unless the refresh in progress committed some of it, no row is newer than the
\* last complete refresh by more than the overlap.
OverlapSuffices ==
    ~broken /\ ~walk.kept => \A m \in Listing : catalog[m] <= completed + Overlap

CatalogInv ==
    /\ CatalogTypeOK /\ CatalogMissesNothing /\ WalkCovers /\ OverlapSuffices
    /\ ~walk.on => ~walk.kept

-------------------------------------------------------------------------------
(* FanOut: the inductive invariant *)

Received(c) == shown[c] \o queued[c]

HubTypeOK ==
    /\ joined \subseteq Clients
    /\ queued \in [Clients -> Seq(Nat)] /\ shown \in [Clients -> Seq(Nat)]
    /\ task \in Pumps \cup {NoPump}
    /\ pumping \in [Pumps -> {"subscribing", "listening", "done"}]
    /\ published \in Nat
    /\ urgent \in [Clients -> SUBSET Nat]

\* What a browser got, of n messages, is in order and never twice, and has all of U
\* unless some were dropped.
GetsRight(got, dropped_, U, n) ==
    /\ got \in Seq(Nat)
    /\ \A i \in 1 .. Len(got) : got[i] <= n
    /\ \A i, j \in 1 .. Len(got) : i < j => got[i] < got[j]
    /\ ~dropped_ => U \subseteq {got[i] : i \in 1 .. Len(got)}

\* No pump but the hub's own is at work, so no message comes twice.
HubInv ==
    /\ HubTypeOK
    /\ joined # {} => task \in Alive \/ deaf
    /\ Alive \subseteq {task}
    /\ \A c \in joined :
        /\ Len(queued[c]) <= QueueMax
        /\ GetsRight(Received(c), c \in overflown, urgent[c], published)

-------------------------------------------------------------------------------
(* TapeRecorder: the inductive invariant *)

FlushJob == [tape : Seq(Trades), candles : [Minutes -> Seq(Trades)], update : [Columns -> Nat]]
CandleRow == [first : SUBSET Trades, counts : Seq(Trades)]

TapeTypeOK ==
    /\ clock \in Minutes
    /\ {running, stopping, dropped} \subseteq BOOLEAN
    /\ open \in [Minutes -> Seq(Trades)] /\ batch \in Seq(Trades)
    /\ update \in [Columns -> Nat] /\ market \in [Columns -> Nat] /\ quoted \in Nat
    /\ job \in FlushJob
    /\ tape \subseteq Trades /\ handled \subseteq Trades /\ lost \subseteq Trades
    /\ candle \in [Minutes -> CandleRow]
    /\ spoiled \subseteq Minutes

\* What the buffer holds of a column is newer than what the flush in progress
\* holds of it, and that is newer than the row.
QuotesInOrder(held, taken, row, newest) ==
    /\ held <= newest /\ taken <= newest /\ row <= newest
    /\ taken # Unsaid => row <= taken
    /\ held # Unsaid => row <= held /\ taken <= held
QuotesAreOrdered ==
    \A c \in Columns : QuotesInOrder(update[c], job.update[c], market[c], quoted)

HandledOf(m) == {t \in handled : MinuteOf[t] = m}

\* The trades H, each once.
CountsJust(bucket_, H) == IsInjective(bucket_) /\ ToSet(bucket_) = H

\* The trades H of minute m are in one place: in its open bucket, in the flush in
\* progress, or in the candles table, the last two once the minute is over.
InOnePlace(m, bucket_, taken, row, H, now) ==
    /\ m > now => H = {}
    /\ \/ /\ CountsJust(bucket_, H)
          /\ taken = <<>> /\ row = NoCandle
       \/ /\ CountsJust(taken, H)
          /\ bucket_ = <<>> /\ row = NoCandle /\ m < now
       \/ /\ CountsJust(row.counts, H)
          /\ row.counts # <<>> /\ row.first = {Head(row.counts)}
          /\ bucket_ = <<>> /\ taken = <<>> /\ m < now
MinuteIsInOnePlace ==
    \A m \in Minutes \ spoiled :
        InOnePlace(m, open[m], job.candles[m], candle[m], HandledOf(m), clock)

TapeInv ==
    /\ TapeTypeOK /\ NothingHandledIsForgotten /\ QuotesAreOrdered /\ MinuteIsInOnePlace

-------------------------------------------------------------------------------
(* RestClient keeps its invariant *)

LEMMA CostAndIncome ==
    ASSUME RestAssumption
    PROVE  /\ CostOf(1) = TokenCost /\ IncomeOf(0) = 0
           /\ \A n \in Int : /\ CostOf(n) \in Int /\ CostOf(n + 1) = CostOf(n) + TokenCost
                            /\ IncomeOf(n) \in Int /\ IncomeOf(n + 1) = IncomeOf(n) + MaxRate
<1>1. TokenCost \in Int /\ MaxRate \in Int
  BY DEF RestAssumption
<1> QED
  BY <1>1 DEF CostOf, IncomeOf

\* A bucket whose tokens change keeps the rest.
LEMMA BucketWith ==
    ASSUME NEW b \in TokenBucket, NEW n \in Int
    PROVE  /\ [b EXCEPT !.tokens = n] \in TokenBucket
           /\ [b EXCEPT !.tokens = n].tokens = n
<1>1. [b EXCEPT !.tokens = n] = [tokens |-> n, rate |-> b.rate, successes |-> b.successes]
  BY DEF TokenBucket
<1> QED
  BY <1>1 DEF TokenBucket

\* A bucket that is penalised keeps a rate and has no more tokens than before.
LEMMA PenalizedBucket ==
    ASSUME RestAssumption, NEW delay \in Delays,
           NEW b \in TokenBucket
    PROVE  /\ Penalized(b, delay) \in TokenBucket
           /\ Penalized(b, delay).tokens <= b.tokens
<1> DEFINE half == b.rate \div 2
           rate == AtLeast(half, MinRate)
<1>1. /\ b.rate \in 1 .. MaxRate /\ MaxRate \in Nat /\ MinRate \in 1 .. MaxRate
      /\ b.tokens \in Int /\ delay \in Int
  BY DEF RestAssumption, Delays, TokenBucket
<1>2. half \in Int /\ half <= b.rate
  BY <1>1
<1> HIDE DEF half
<1>3. rate \in 1 .. MaxRate
  BY <1>1, <1>2 DEF AtLeast
<1> DEFINE debt == delay * rate
<1> HIDE DEF rate
<1>4. debt \in Int
  BY <1>1, <1>3
<1>5. Penalized(b, delay) = [tokens |-> AtMost(-debt, b.tokens), rate |-> rate, successes |-> 0]
  BY DEF Penalized, rate, half
<1> HIDE DEF debt
<1>6. AtMost(-debt, b.tokens) \in Int /\ AtMost(-debt, b.tokens) <= b.tokens
  BY <1>1, <1>4 DEF AtMost
<1> QED
  BY <1>3, <1>5, <1>6 DEF TokenBucket

\* One that is credited with a success keeps its tokens.
LEMMA CreditedBucket ==
    ASSUME RestAssumption, NEW b \in TokenBucket
    PROVE  /\ Credited(b) \in TokenBucket
           /\ Credited(b).tokens = b.tokens
<1>1. /\ b.rate \in 1 .. MaxRate /\ MaxRate \in Nat
      /\ b.tokens \in Int /\ b.successes \in Nat /\ SuccessesPerIncrease \in Nat
  BY DEF RestAssumption, TokenBucket
<1>2. CASE b.rate >= MaxRate
  BY <1>1, <1>2 DEF Credited
<1>3. CASE b.rate < MaxRate /\ b.successes + 1 < SuccessesPerIncrease
  <2>1. Credited(b) = [b EXCEPT !.successes = b.successes + 1]
    BY <1>1, <1>3 DEF Credited
  <2>2. Credited(b) = [tokens |-> b.tokens, rate |-> b.rate, successes |-> b.successes + 1]
    BY <2>1 DEF TokenBucket
  <2> QED
    BY <1>1, <2>2 DEF TokenBucket
<1>4. CASE b.rate < MaxRate /\ ~(b.successes + 1 < SuccessesPerIncrease)
  <2>1. Credited(b) = [b EXCEPT !.successes = 0, !.rate = AtMost(b.rate + 1, MaxRate)]
    BY <1>1, <1>4 DEF Credited
  <2>2. AtMost(b.rate + 1, MaxRate) \in 1 .. MaxRate
    BY <1>1, <1>4 DEF AtMost
  <2>3. Credited(b) = [tokens |-> b.tokens, rate |-> AtMost(b.rate + 1, MaxRate),
                       successes |-> 0]
    BY <2>1 DEF TokenBucket
  <2> QED
    BY <1>1, <2>2, <2>3 DEF TokenBucket
<1> QED
  BY <1>1, <1>2, <1>3, <1>4

LEMMA RestInvInit ==
    ASSUME RestAssumption, RestInit
    PROVE  RestInv
<1>1. RestTypeOK
  BY DEF RestAssumption, RestInit, RestTypeOK, CallState, Call, TokenBucket, Directions
<1>2. WriteIsCounted
  BY DEF RestAssumption, RestInit, WriteIsCounted
<1>3. \A d \in Directions : DOMAIN sends[d] = {} /\ bucket[d].tokens = Capacity
  BY DEF RestInit
<1>4. \A d \in Directions : StretchIsPaid(d)
  BY <1>3 DEF StretchIsPaid, RestAssumption
<1>5. \A d \in Directions : StretchWasPaid(d)
  BY <1>3 DEF StretchWasPaid
<1> QED
  BY <1>1, <1>2, <1>4, <1>5 DEF RestInv

\* A bucket that is drawn on less, or not at all, pays for the same requests.
LEMMA NothingSent ==
    ASSUME RestAssumption, RestInv, NEW d \in Directions,
           tick' = tick, sends'[d] = sends[d],
           bucket'[d].tokens \in Int, bucket'[d].tokens <= bucket[d].tokens
    PROVE  StretchIsPaid(d)'
<1>1. /\ bucket[d].tokens \in Int /\ Capacity \in Int /\ sends[d] \in Seq(Nat)
      /\ StretchIsPaid(d)
  BY DEF RestInv, RestTypeOK, RestAssumption, TokenBucket
<1>2. bucket'[d].tokens <= Capacity
  BY <1>1 DEF StretchIsPaid
<1>3. ASSUME NEW i \in DOMAIN sends[d]
      PROVE  CostOf(Len(sends[d]) - i + 1) + bucket'[d].tokens
                 <= Capacity + IncomeOf(tick - sends[d][i])
  <2>1. /\ sends[d][i] \in Nat /\ i \in Int /\ Len(sends[d]) \in Int
        /\ tick \in Int
    BY <1>1 DEF RestInv, RestTypeOK
  <2>2. Len(sends[d]) - i + 1 \in Int /\ tick - sends[d][i] \in Int
    BY <2>1, SMTT(40)
  <2> DEFINE cost == CostOf(Len(sends[d]) - i + 1)
             income == IncomeOf(tick - sends[d][i])
             before == bucket[d].tokens
             after == bucket'[d].tokens
  <2>3. cost \in Int /\ income \in Int
    BY <2>2, CostAndIncome
  <2>4. cost + before <= Capacity + income
    BY <1>1 DEF StretchIsPaid
  <2>5. before \in Int /\ after \in Int /\ after <= before /\ Capacity \in Int
    BY <1>1
  <2> HIDE DEF cost, income, before, after
  <2>6. cost + after <= Capacity + income
    BY <2>3, <2>4, <2>5
  <2> QED
    BY <2>6 DEF cost, income, after
<1> QED
  BY <1>1, <1>2, <1>3 DEF StretchIsPaid

\* A call moves on: only its own state changes.
LEMMA CallMoves ==
    ASSUME RestTypeOK, NEW r \in Requests, NEW pc \in CallState, Ends(r, pc)
    PROVE  /\ request' \in [Requests -> Call]
           /\ request'[r].pc = pc
           /\ \A q \in Requests \ {r} : request'[q] = request[q]
<1>1. request[r] \in Call
  BY DEF RestTypeOK
<1>2. [request[r] EXCEPT !.pc = pc] \in Call /\ [request[r] EXCEPT !.pc = pc].pc = pc
  BY <1>1 DEF Call
<1>3. request' = [request EXCEPT ![r] = [request[r] EXCEPT !.pc = pc]]
  BY DEF Ends
<1> QED
  BY <1>1, <1>2, <1>3 DEF RestTypeOK

LEMMA CallRetries ==
    ASSUME RestTypeOK, RestAssumption, NEW r \in Requests, NEW delay \in Delays, Retry(r, delay)
    PROVE  /\ request' \in [Requests -> Call]
           /\ request'[r].pc = "backoff"
           /\ \A q \in Requests \ {r} : request'[q] = request[q]
<1> DEFINE c == [pc |-> "backoff", attempt |-> request[r].attempt + 1, ready |-> tick + delay]
<1>1. request[r].attempt \in Nat /\ tick \in Nat /\ delay \in Nat
  BY DEF RestTypeOK, RestAssumption, Delays, Call
<1>2. c \in Call /\ c.pc = "backoff"
  BY <1>1 DEF CallState, Call
<1>3. request' = [request EXCEPT ![r] = c]
  BY DEF Retry
<1> HIDE DEF c
<1> QED
  BY <1>2, <1>3 DEF RestTypeOK

\* Steps of one call that send nothing keep the invariant, if its write is still
\* counted afterwards.
LEMMA CallKeeps ==
    ASSUME RestAssumption, RestInv, NEW r \in Requests,
           request' \in [Requests -> Call],
           \A q \in Requests \ {r} : request'[q] = request[q],
           executed' \in [Requests -> Nat],
           \A q \in Requests \ {r} : executed'[q] = executed[q],
           r \in Writes =>
             executed'[r] \in CASE request'[r].pc \in {"executed", "ok"} -> {1}
                                [] request'[r].pc \in {"ambiguous", "raised"} -> {0, 1}
                                [] OTHER -> {0},
           bucket' \in [Directions -> TokenBucket],
           \A d \in Directions : bucket'[d].tokens <= bucket[d].tokens,
           UNCHANGED <<tick, sends>>
    PROVE  RestInv'
<1>1. RestTypeOK'
  BY DEF RestInv, RestTypeOK
<1>2. WriteIsCounted'
  BY DEF RestInv, WriteIsCounted, RestAssumption
<1>3. \A d \in Directions : StretchWasPaid(d)'
  BY DEF RestInv, StretchWasPaid
<1>4. \A d \in Directions : bucket'[d].tokens \in Int
  BY DEF TokenBucket
<1>5. \A d \in Directions : StretchIsPaid(d)'
  BY <1>4, NothingSent
<1> QED
  BY <1>1, <1>2, <1>3, <1>5 DEF RestInv

\* Of the steps that change only where a call is, those of a write are counted.
LEMMA CallEnds ==
    ASSUME RestAssumption, RestInv, NEW r \in Requests, NEW pc \in CallState, Ends(r, pc),
           UNCHANGED <<tick, executed, sends, bucket>>,
           r \in Writes =>
             executed[r] \in CASE pc \in {"executed", "ok"} -> {1}
                               [] pc \in {"ambiguous", "raised"} -> {0, 1}
                               [] OTHER -> {0}
    PROVE  RestInv'
<1>1. /\ request' \in [Requests -> Call]
      /\ request'[r].pc = pc
      /\ \A q \in Requests \ {r} : request'[q] = request[q]
  BY CallMoves DEF RestInv
<1>2. executed \in [Requests -> Nat]
  BY DEF RestInv, RestTypeOK
<1>3. /\ bucket \in [Directions -> TokenBucket]
      /\ \A d \in Directions : bucket[d].tokens <= bucket[d].tokens
  BY SMTT(40) DEF RestInv, RestTypeOK, TokenBucket
<1> QED
  BY <1>1, <1>2, <1>3, CallKeeps

LEMMA StartKeeps ==
    ASSUME RestAssumption, RestInv, NEW r \in Requests,
           Start(r) \/ Refused(r) \/ Raised(r) \/ Resume(r)
    PROVE  RestInv'
<1> USE DEF RestInv, WriteIsCounted, CallState
<1>1. CASE Start(r)
  <2>1. Ends(r, "acquire")
    BY <1>1 DEF Start, Ends
  <2> QED
    BY <1>1, <2>1, CallEnds DEF Start
<1>2. CASE Refused(r)
  BY <1>2, CallEnds DEF Refused
<1>3. CASE Raised(r)
  BY <1>3, CallEnds DEF Raised, InFlight
<1>4. CASE Resume(r)
  <2>1. r \in Writes => executed[r] = 0
    BY <1>4 DEF Resume
  <2>2. Ends(r, "acquire") \/ Ends(r, "ambiguous")
    BY <1>4 DEF Resume
  <2> QED
    BY <1>4, <2>1, <2>2, CallEnds DEF Resume
<1> QED
  BY <1>1, <1>2, <1>3, <1>4

LEMMA ExecuteKeeps ==
    ASSUME RestAssumption, RestInv, NEW r \in Requests, Execute(r)
    PROVE  RestInv'
<1>1. Ends(r, "executed") /\ "executed" \in CallState
  BY DEF Execute, Ends, CallState
<1>2. /\ request' \in [Requests -> Call]
      /\ request'[r].pc = "executed"
      /\ \A q \in Requests \ {r} : request'[q] = request[q]
  BY <1>1, CallMoves DEF RestInv
<1>3. /\ executed' \in [Requests -> Nat] /\ executed'[r] = executed[r] + 1
      /\ \A q \in Requests \ {r} : executed'[q] = executed[q]
  BY DEF Execute, RestInv, RestTypeOK
<1>4. r \in Writes => executed[r] = 0
  BY DEF Execute, RestInv, WriteIsCounted
<1>5. /\ bucket' \in [Directions -> TokenBucket]
      /\ \A d \in Directions : bucket'[d].tokens <= bucket[d].tokens
  BY SMTT(40) DEF Execute, RestInv, RestTypeOK, TokenBucket
<1> QED
  BY <1>2, <1>3, <1>4, <1>5, CallKeeps DEF Execute

\* The bucket of a direction adapts and the other stays.
LEMMA BucketsAdapt ==
    ASSUME RestTypeOK, NEW d \in Directions,
           NEW b \in TokenBucket,
           b.tokens <= bucket[d].tokens, bucket' = [bucket EXCEPT ![d] = b]
    PROVE  /\ bucket' \in [Directions -> TokenBucket]
           /\ \A e \in Directions : bucket'[e].tokens <= bucket[e].tokens
<1>1. \A e \in Directions : bucket[e].tokens \in Int
  BY DEF RestTypeOK, TokenBucket
<1> QED
  BY <1>1 DEF RestTypeOK

LEMMA OkKeeps ==
    ASSUME RestAssumption, RestInv, NEW r \in Requests, Ok(r)
    PROVE  RestInv'
<1> DEFINE d == DirectionOf(r)
<1>1. "ok" \in CallState /\ d \in Directions
  BY DEF CallState, DirectionOf, Directions
<1>2. /\ request' \in [Requests -> Call]
      /\ request'[r].pc = "ok"
      /\ \A q \in Requests \ {r} : request'[q] = request[q]
  BY <1>1, CallMoves DEF Ok, RestInv
<1>3. bucket[d] \in TokenBucket
  BY <1>1 DEF RestInv, RestTypeOK
<1>4. /\ Credited(bucket[d]) \in TokenBucket
      /\ Credited(bucket[d]).tokens = bucket[d].tokens
  BY <1>3, CreditedBucket
<1>5. /\ bucket' \in [Directions -> TokenBucket]
      /\ \A e \in Directions : bucket'[e].tokens <= bucket[e].tokens
  <2>1. bucket' = [bucket EXCEPT ![d] = Credited(bucket[d])]
    BY DEF Ok
  <2>2. bucket[d].tokens \in Int
    BY <1>3 DEF TokenBucket
  <2> DEFINE b == Credited(bucket[d])
  <2>3. b \in TokenBucket /\ b.tokens <= bucket[d].tokens
    BY <1>4, <2>2
  <2> HIDE DEF d, b
  <2> QED
    BY <1>1, <2>1, <2>3, BucketsAdapt DEF RestInv, b
<1>6. /\ executed' \in [Requests -> Nat] /\ executed' = executed
      /\ r \in Writes => executed[r] = 1
  BY DEF Ok, RestInv, RestTypeOK, WriteIsCounted
<1> QED
  BY <1>2, <1>5, <1>6, CallKeeps DEF Ok

LEMMA ThrottledKeeps ==
    ASSUME RestAssumption, RestInv, NEW r \in Requests, Throttled(r)
    PROVE  RestInv'
<1> DEFINE d == DirectionOf(r)
<1>1. d \in Directions
  BY DEF DirectionOf, Directions
<1>2. bucket[d] \in TokenBucket
  BY <1>1 DEF RestInv, RestTypeOK
<1> HIDE DEF d
<1>3. PICK delay \in Delays :
        /\ Retry(r, delay)
        /\ bucket' = [bucket EXCEPT ![d] = Penalized(bucket[d], delay)]
  BY DEF Throttled, d
<1>4. /\ request' \in [Requests -> Call]
      /\ request'[r].pc = "backoff"
      /\ \A q \in Requests \ {r} : request'[q] = request[q]
  BY <1>3, CallRetries DEF RestInv
<1>5. /\ bucket' \in [Directions -> TokenBucket]
      /\ \A e \in Directions : bucket'[e].tokens <= bucket[e].tokens
  BY <1>1, <1>2, <1>3, PenalizedBucket, BucketsAdapt DEF RestInv
<1>6. /\ executed' \in [Requests -> Nat] /\ executed' = executed
      /\ r \in Writes => executed[r] = 0
  BY DEF Throttled, RestInv, RestTypeOK, WriteIsCounted
<1> QED
  BY <1>4, <1>5, <1>6, CallKeeps DEF Throttled

\* A write whose result is unclear is not sent again.
LEMMA UnclearKeeps ==
    ASSUME RestAssumption, RestInv, NEW r \in Requests, Unclear(r)
    PROVE  RestInv'
<1>1. CASE MayRepeat(r)
  <2>1. PICK delay \in Delays : Retry(r, delay)
    BY <1>1 DEF Unclear
  <2>2. /\ request' \in [Requests -> Call]
        /\ \A q \in Requests \ {r} : request'[q] = request[q]
    BY <2>1, CallRetries DEF RestInv
  <2>3. /\ bucket' \in [Directions -> TokenBucket]
        /\ \A d \in Directions : bucket'[d].tokens <= bucket[d].tokens
        /\ executed' \in [Requests -> Nat] /\ executed' = executed
    BY DEF Unclear, RestInv, RestTypeOK, TokenBucket
  <2> QED
    BY <1>1, <2>2, <2>3, CallKeeps DEF Unclear, MayRepeat
<1>2. CASE ~MayRepeat(r)
  <2>1. r \in Writes => executed[r] \in {0, 1}
    BY DEF Unclear, InFlight, RestInv, WriteIsCounted
  <2>2. Ends(r, "ambiguous") /\ "ambiguous" \in CallState
    BY <1>2 DEF Unclear, CallState
  <2> QED
    BY <2>1, <2>2, CallEnds DEF Unclear
<1> QED
  BY <1>1, <1>2

LEMMA SendKeeps ==
    ASSUME RestAssumption, RestInv, NEW r \in Requests, Send(r)
    PROVE  RestInv'
<1> DEFINE d == DirectionOf(r)
           n == Len(sends[d])
<1>1. d \in Directions /\ "flying" \in CallState
  BY DEF DirectionOf, Directions, CallState
<1>2. /\ request[r].pc = "acquire" /\ bucket[d].tokens >= TokenCost
      /\ bucket' = [bucket EXCEPT ![d].tokens = bucket[d].tokens - TokenCost]
      /\ Ends(r, "flying")
      /\ sends' = [sends EXCEPT ![d] = Append(sends[d], tick)]
      /\ UNCHANGED <<tick, executed>>
  BY DEF Send, Ends
<1> HIDE DEF d
<1>3. /\ sends[d] \in Seq(Nat) /\ tick \in Nat /\ n \in Nat
      /\ bucket[d] \in TokenBucket
      /\ bucket[d].tokens \in Int
      /\ TokenCost \in Nat /\ Capacity \in Nat /\ MaxRate \in Nat
      /\ StretchIsPaid(d)
  BY <1>1 DEF RestInv, RestTypeOK, RestAssumption, TokenBucket
<1>4. /\ request' \in [Requests -> Call]
      /\ request'[r].pc = "flying"
      /\ \A q \in Requests \ {r} : request'[q] = request[q]
  BY <1>1, <1>2, CallMoves DEF RestInv
<1>5. /\ bucket'[d].tokens = bucket[d].tokens - TokenCost
      /\ bucket' \in [Directions -> TokenBucket]
      /\ \A e \in Directions \ {d} : bucket'[e] = bucket[e]
  <2> DEFINE b == [bucket[d] EXCEPT !.tokens = bucket[d].tokens - TokenCost]
  <2>1. b \in TokenBucket /\ b.tokens = bucket[d].tokens - TokenCost
    <3>1. bucket[d].tokens - TokenCost \in Int
      BY <1>3
    <3> QED
      BY <1>3, <3>1, BucketWith
  <2>2. bucket' = [bucket EXCEPT ![d] = b]
    BY <1>2
  <2> HIDE DEF b
  <2> QED
    BY <1>1, <2>1, <2>2 DEF RestInv, RestTypeOK
<1>6. /\ sends' \in [Directions -> Seq(Nat)]
      /\ sends'[d] = Append(sends[d], tick)
      /\ \A e \in Directions \ {d} : sends'[e] = sends[e]
  BY <1>1, <1>2, <1>3 DEF RestInv, RestTypeOK
<1>7. /\ DOMAIN sends'[d] = 1 .. (n + 1) /\ Len(sends'[d]) = n + 1
      /\ sends'[d][n + 1] = tick /\ \A i \in 1 .. n : sends'[d][i] = sends[d][i]
      /\ DOMAIN sends[d] = 1 .. n
  BY <1>3, <1>6
<1> HIDE DEF n
\* The stretches that end with this request.
<1>8. ASSUME NEW i \in 1 .. (n + 1)
      PROVE  /\ sends'[d][i] \in Nat /\ sends'[d][i] <= tick
             /\ CostOf(Len(sends'[d]) - i + 1) \in Int
             /\ IncomeOf(tick - sends'[d][i]) \in Int
             /\ CostOf(Len(sends'[d]) - i + 1) + bucket'[d].tokens
                    <= Capacity + IncomeOf(tick - sends'[d][i])
  <2> DEFINE cost == CostOf(Len(sends'[d]) - i + 1)
             income == IncomeOf(tick - sends'[d][i])
             before == bucket[d].tokens
             after == bucket'[d].tokens
  <2>1. /\ before \in Int /\ after \in Int /\ after = before - TokenCost
        /\ Capacity \in Int /\ TokenCost \in Int /\ before <= Capacity
    BY <1>3, <1>5 DEF StretchIsPaid
  <2>2. CASE i = n + 1
    <3>1. Len(sends'[d]) - i + 1 = 1 /\ tick - sends'[d][i] = 0
      BY <1>3, <1>7, <2>2
    <3>2. cost = TokenCost /\ income = 0
      BY <3>1, CostAndIncome
    <3>3. sends'[d][i] \in Nat /\ sends'[d][i] <= tick
      BY <1>3, <1>7, <2>2
    <3> HIDE DEF cost, income, before, after
    <3>4. cost \in Int /\ income \in Int /\ cost + after <= Capacity + income
      BY <2>1, <3>2
    <3> QED
      BY <3>3, <3>4 DEF cost, income, after
  <2>3. CASE i \in 1 .. n
    <3>1. sends'[d][i] = sends[d][i] /\ i \in DOMAIN sends[d] /\ i \in Int
      BY <1>7, <2>3
    <3>2. sends[d][i] \in Nat
      BY <1>3, <3>1
    <3> DEFINE earlier == CostOf(n - i + 1)
    <3>3. sends[d][i] <= tick /\ earlier + before <= Capacity + income
      BY <1>3, <3>1 DEF StretchIsPaid, n
    <3>4. n - i + 1 \in Int /\ Len(sends'[d]) - i + 1 = (n - i + 1) + 1
      BY <1>3, <1>7, <3>1
    <3>5. tick - sends'[d][i] \in Int
      BY <1>3, <3>1, <3>2
    <3>6. cost = earlier + TokenCost /\ cost \in Int /\ earlier \in Int
      <4>1. CostOf((n - i + 1) + 1) = CostOf(n - i + 1) + TokenCost
        BY <3>4, CostAndIncome
      <4>2. (n - i + 1) + 1 \in Int
        BY <3>4
      <4> QED
        BY <3>4, <4>1, <4>2, CostAndIncome
    <3>7. income \in Int
      BY <3>5, CostAndIncome
    <3> HIDE DEF cost, income, before, after, earlier
    <3>8. cost + after <= Capacity + income
      BY <2>1, <3>3, <3>6, <3>7
    <3> QED
      BY <3>1, <3>2, <3>3, <3>6, <3>7, <3>8 DEF cost, income, after
  <2> QED
    BY <1>3, <2>2, <2>3
<1>9. StretchIsPaid(d)'
  <2>1. bucket'[d].tokens <= Capacity
    BY <1>3, <1>5 DEF StretchIsPaid
  <2>2. tick' = tick /\ DOMAIN sends'[d] = 1 .. (n + 1)
    BY <1>2, <1>7
  <2> QED
    BY <1>8, <2>1, <2>2 DEF StretchIsPaid
<1>10. \A e \in Directions \ {d} : StretchIsPaid(e)'
  <2>1. \A e \in Directions : bucket[e].tokens \in Int
    BY DEF RestInv, RestTypeOK, TokenBucket
  <2>2. tick' = tick
    BY <1>2
  <2>3. \A e \in Directions \ {d} : sends'[e] = sends[e] /\ bucket'[e] = bucket[e]
    BY <1>5, <1>6
  <2>4. \A e \in Directions \ {d} : bucket'[e].tokens \in Int /\ bucket'[e].tokens <= bucket[e].tokens
    BY <2>1, <2>3
  <2> QED
    BY <2>2, <2>3, <2>4, NothingSent
\* A stretch that ends with an earlier request was paid for; one that ends now is,
\* for the tokens left are none owed.
<1>11. StretchWasPaid(d)'
  <2>1. ASSUME NEW i \in 1 .. (n + 1), NEW j \in 1 .. (n + 1), i < j
        PROVE  CostOf(j - i + 1) <= Capacity + IncomeOf(sends'[d][j] - sends'[d][i])
    <3>1. CASE j = n + 1
      <4> DEFINE cost == CostOf(Len(sends'[d]) - i + 1)
                 income == IncomeOf(tick - sends'[d][i])
                 after == bucket'[d].tokens
      <4>1. cost + after <= Capacity + income /\ cost \in Int /\ income \in Int
        BY <1>8
      <4>2. after >= 0 /\ after \in Int
        BY <1>2, <1>3, <1>5, SMTT(40)
      <4>3. sends'[d][j] = tick /\ Len(sends'[d]) = j
        BY <1>7, <3>1
      <4> HIDE DEF cost, income, after
      <4>4. cost <= Capacity + income
        BY <1>3, <4>1, <4>2
      <4> QED
        BY <4>3, <4>4 DEF cost, income
    <3>2. CASE j \in 1 .. n
      <4>1. i \in 1 .. n /\ sends'[d][i] = sends[d][i] /\ sends'[d][j] = sends[d][j]
        BY <1>3, <1>7, <2>1, <3>2, SMTT(40)
      <4>2. StretchWasPaid(d)
        BY <1>1 DEF RestInv
      <4> QED
        BY <1>7, <2>1, <3>2, <4>1, <4>2 DEF StretchWasPaid
    <3>3. j = n + 1 \/ j \in 1 .. n
      BY <1>3
    <3> QED
      BY <3>1, <3>2, <3>3
  <2> QED
    BY <1>7, <2>1 DEF StretchWasPaid
<1>14. \A e \in Directions \ {d} : StretchWasPaid(e)'
  BY <1>6 DEF RestInv, StretchWasPaid
<1>12. RestTypeOK'
  BY <1>2, <1>4, <1>5, <1>6 DEF RestInv, RestTypeOK
<1>13. WriteIsCounted'
  BY <1>2, <1>4 DEF RestInv, WriteIsCounted, RestAssumption
<1> QED
  BY <1>9, <1>10, <1>11, <1>12, <1>13, <1>14 DEF RestInv

LEMMA TickKeeps ==
    ASSUME RestAssumption, RestInv, Tick
    PROVE  RestInv'
<1>1. /\ tick' = tick + 1 /\ tick \in Nat /\ UNCHANGED <<request, executed, sends>>
      /\ bucket' = [d \in Directions |-> Refilled(bucket[d])]
      /\ Capacity \in Nat /\ MaxRate \in Nat /\ TokenCost \in Nat
  BY DEF Tick, RestInv, RestTypeOK, RestAssumption
<1>2. ASSUME NEW d \in Directions
      PROVE  /\ bucket'[d] \in TokenBucket
             /\ bucket'[d].tokens \in Int /\ bucket'[d].tokens <= Capacity
             /\ bucket'[d].tokens <= bucket[d].tokens + MaxRate
  <2> DEFINE n == AtMost(bucket[d].tokens + bucket[d].rate, Capacity)
  <2>1. bucket[d] \in TokenBucket
    BY DEF RestInv, RestTypeOK
  <2>2. bucket[d].tokens \in Int /\ bucket[d].rate \in 1 .. MaxRate
    BY <2>1 DEF TokenBucket
  <2>3. n \in Int /\ n <= Capacity /\ n <= bucket[d].tokens + MaxRate
    BY <1>1, <2>2 DEF AtMost
  <2>4. bucket'[d] = [bucket[d] EXCEPT !.tokens = n]
    BY <1>1 DEF Refilled
  <2> HIDE DEF n
  <2>5. bucket'[d] \in TokenBucket /\ bucket'[d].tokens = n
    BY <2>1, <2>3, <2>4, BucketWith
  <2> QED
    BY <2>3, <2>5
<1>3. RestTypeOK'
  BY <1>1, <1>2 DEF RestInv, RestTypeOK
<1>4. WriteIsCounted' /\ \A d \in Directions : StretchWasPaid(d)'
  BY <1>1 DEF RestInv, WriteIsCounted, StretchWasPaid
<1>5. ASSUME NEW d \in Directions, NEW i \in DOMAIN sends[d]
      PROVE  /\ sends[d][i] <= tick + 1
             /\ CostOf(Len(sends[d]) - i + 1) + bucket'[d].tokens
                    <= Capacity + IncomeOf(tick + 1 - sends[d][i])
  <2>1. sends[d] \in Seq(Nat) /\ StretchIsPaid(d) /\ bucket[d].tokens \in Int
    BY DEF RestInv, RestTypeOK, TokenBucket
  <2>2. sends[d][i] \in Nat /\ i \in Int /\ Len(sends[d]) \in Int
    BY <2>1, SMTT(40)
  <2>3. /\ sends[d][i] <= tick
        /\ CostOf(Len(sends[d]) - i + 1) + bucket[d].tokens
              <= Capacity + IncomeOf(tick - sends[d][i])
    BY <2>1 DEF StretchIsPaid
  <2>4. /\ Len(sends[d]) - i + 1 \in Int /\ tick - sends[d][i] \in Int
        /\ tick + 1 - sends[d][i] = (tick - sends[d][i]) + 1
    BY <1>1, <2>2, SMTT(40)
  <2> DEFINE cost == CostOf(Len(sends[d]) - i + 1)
             income == IncomeOf(tick - sends[d][i])
             more == IncomeOf(tick + 1 - sends[d][i])
             before == bucket[d].tokens
             after == bucket'[d].tokens
  <2>5. cost \in Int /\ income \in Int /\ more = income + MaxRate
    BY <2>4, CostAndIncome
  <2>6. after \in Int /\ after <= before + MaxRate /\ before \in Int
    BY <1>2, <2>1
  <2>7. cost + before <= Capacity + income
    BY <2>3
  <2>8. sends[d][i] <= tick + 1
    BY <1>1, <2>2, <2>3
  <2> HIDE DEF cost, income, more, before, after
  <2>9. cost + after <= Capacity + more
    BY <1>1, <2>5, <2>6, <2>7
  <2> QED
    BY <2>8, <2>9 DEF cost, more, after
<1>6. \A d \in Directions : StretchIsPaid(d)'
  <2>1. ASSUME NEW d \in Directions, NEW i \in DOMAIN sends'[d]
        PROVE  /\ sends'[d][i] <= tick'
               /\ CostOf(Len(sends'[d]) - i + 1) + bucket'[d].tokens
                      <= Capacity + IncomeOf(tick' - sends'[d][i])
    <3>1. tick' = tick + 1 /\ sends' = sends
      BY <1>1
    <3>2. i \in DOMAIN sends[d]
      BY <3>1, Zenon
    <3>3. sends[d][i] <= tick + 1
      BY <1>5, <3>2
    <3>4. CostOf(Len(sends[d]) - i + 1) + bucket'[d].tokens
             <= Capacity + IncomeOf(tick + 1 - sends[d][i])
      BY <1>5, <3>2
    <3>5. sends'[d] = sends[d] /\ sends'[d][i] = sends[d][i]
      BY <3>1
    <3>6. sends'[d][i] <= tick'
      BY <3>1, <3>3, <3>5
    <3>7. tick' - sends'[d][i] = tick + 1 - sends[d][i]
      <4>1. sends[d][i] \in Nat
        BY <3>2 DEF RestInv, RestTypeOK
      <4> QED
        BY <1>1, <3>1, <3>5, <4>1
    <3>8. CostOf(Len(sends'[d]) - i + 1) + bucket'[d].tokens
             <= Capacity + IncomeOf(tick' - sends'[d][i])
      BY <3>4, <3>5, <3>7, Zenon
    <3> QED
      BY <3>6, <3>8
  <2> QED
    BY <1>2, <2>1 DEF StretchIsPaid
<1> QED
  BY <1>3, <1>4, <1>6 DEF RestInv

\* The calls of the client keep their counts, and its buckets pay for every
\* stretch of time.
THEOREM RestInvariant == RestSpec => []RestInv
<1>1. RestInit => RestInv
  BY RestAssumption, RestInvInit
<1>2. ASSUME RestInv, [RestNext]_restVars
      PROVE  RestInv'
  <2>1. CASE UNCHANGED restVars
    BY <1>2, <2>1 DEF restVars, RestInv, RestTypeOK, WriteIsCounted, StretchIsPaid,
              StretchWasPaid
  <2>2. CASE Tick
    BY <1>2, <2>2, RestAssumption, TickKeeps
  <2>3. ASSUME NEW r \in Requests,
               \/ Start(r) \/ Send(r) \/ Execute(r) \/ Ok(r) \/ Refused(r)
               \/ Throttled(r) \/ Unclear(r) \/ Raised(r) \/ Resume(r)
        PROVE  RestInv'
    BY <1>2, <2>3, RestAssumption, StartKeeps, SendKeeps, ExecuteKeeps, OkKeeps,
       ThrottledKeeps, UnclearKeeps
  <2> QED
    BY <1>2, <2>1, <2>2, <2>3 DEF RestNext
<1> QED
  BY <1>1, <1>2, PTL DEF RestSpec

\* Retries never double a write, for any number of calls and attempts
\* (KalshiRestClient.request repeats reads and refusals only).
THEOREM WritesReachOnce == RestSpec => []WriteReachesOnce
<1>1. RestInv => WriteReachesOnce
  BY DEF RestInv, WriteIsCounted, WriteReachesOnce
<1> QED
  BY <1>1, RestInvariant, PTL

\* The token bucket keeps the tier's budget over every stretch of time, whatever
\* the rate adapted to (kalshi/ratelimit.py).
THEOREM BudgetHolds == RestSpec => []WithinBudget
<1>1. RestInv => WithinBudget
  BY DEF RestInv, StretchWasPaid, WithinBudget, CostOf, IncomeOf
<1> QED
  BY <1>1, RestInvariant, PTL

-------------------------------------------------------------------------------
(* BookFeed keeps its invariant: the exchange *)

LEMMA FeedInvInit ==
    ASSUME FeedAssumption, FeedInit
    PROVE  FeedInv
<1>1. FeedTypeOK /\ wire \in Seq(Nat)
  <2>1. /\ real \in [Tickers -> Content] /\ book \in [Tickers -> Book \cup {Absent}]
        /\ faults \in 0 .. MaxFaults
    BY DEF FeedAssumption, FeedInit, Content
  <2>2. /\ sent = <<>> /\ wire = <<>> /\ last = 0
        /\ {served, connected, rested} \subseteq BOOLEAN
        /\ awaiting \subseteq Tickers /\ regressed \subseteq Tickers
    BY DEF FeedAssumption, FeedInit
  <2> QED
    BY <2>1, <2>2 DEF FeedTypeOK
<1>2. SentIsConsistent
  BY DEF FeedInit, SentIsConsistent
<1>3. BooksKeepUp /\ StaleIsAwaited
  BY DEF FeedInit, BooksKeepUp, Answers, StaleIsAwaited, Known
<1> QED
  BY <1>1, <1>2, <1>3 DEF FeedInv

\* What the consumer holds is about the messages it knows, which stay.
LEMMA ConsumerRests ==
    ASSUME FeedInv, UNCHANGED consumer, sent' \in Seq(Message),
           Len(sent) <= Len(sent'), \A i \in 1 .. Len(sent) : sent'[i] = sent[i]
    PROVE  /\ last' \in 0 .. Len(sent') /\ book' \in [Tickers -> Book \cup {Absent}]
           /\ awaiting' \subseteq Tickers /\ regressed' \subseteq Tickers
           /\ BooksKeepUp' /\ StaleIsAwaited'
<1>1. /\ last \in 0 .. Len(sent) /\ sent \in Seq(Message) /\ Len(sent) \in Nat /\ Len(sent') \in Nat
      /\ book \in [Tickers -> Book \cup {Absent}]
      /\ awaiting \subseteq Tickers /\ regressed \subseteq Tickers
      /\ last' = last /\ book' = book /\ awaiting' = awaiting /\ regressed' = regressed
  BY DEF FeedInv, FeedTypeOK, consumer
<1>2. \A i \in 1 .. last : sent'[i] = sent[i]
  BY <1>1
<1>3. BooksKeepUp'
  <2>1. SUFFICES ASSUME NEW t \in Tickers \ regressed, Answers(book[t])
                 PROVE  StandsAt(book[t], t, last)'
    BY <1>1 DEF BooksKeepUp, Answers
  <2>2. StandsAt(book[t], t, last)
    BY <2>1 DEF FeedInv, BooksKeepUp
  <2>3. book[t].seq \in 1 .. last /\ \A k \in book[t].seq + 1 .. last : sent'[k] = sent[k]
    BY <1>1, <1>2, <2>2 DEF StandsAt
  <2> QED
    BY <1>1, <1>2, <2>2, <2>3 DEF StandsAt, Silent
<1>4. StaleIsAwaited'
  BY <1>1 DEF FeedInv, StaleIsAwaited, Known
<1>5. last \in 0 .. Len(sent')
  BY <1>1
<1> QED
  BY <1>1, <1>3, <1>4, <1>5

\* Steps of the connection and the exchange that number nothing.
LEMMA NothingNumbered ==
    ASSUME FeedInv, UNCHANGED <<consumer, sent>>, real' \in [Tickers -> Content],
           served' => served, {served', connected', rested'} \subseteq BOOLEAN,
           faults' \in 0 .. MaxFaults,
           wire' \in Seq(Nat), \A i \in 1 .. Len(wire') : wire'[i] \in 0 .. Len(sent),
           served' => \A t \in Tickers : Snapshotted(t) => real'[t] = real[t]
    PROVE  FeedInv'
<1>1. sent' = sent /\ sent \in Seq(Message) /\ Len(sent) \in Nat
  BY DEF FeedInv, FeedTypeOK
<1>2. /\ last' \in 0 .. Len(sent') /\ book' \in [Tickers -> Book \cup {Absent}]
      /\ awaiting' \subseteq Tickers /\ regressed' \subseteq Tickers
      /\ BooksKeepUp' /\ StaleIsAwaited'
  BY <1>1, ConsumerRests
<1>3. FeedTypeOK'
  BY <1>1, <1>2 DEF FeedTypeOK
<1>4. \A i \in 1 .. Len(sent) : sent[i].ticker \in Tickers
  <2>1. \A i \in 1 .. Len(sent) : sent[i] \in Message
    BY <1>1
  <2> QED
    BY <2>1 DEF Message
<1>5. SentIsConsistent'
  <2>1. SentIsConsistent
    BY DEF FeedInv
  <2>2. ASSUME NEW i \in 1 .. Len(sent)
        PROVE  \E k \in 1 .. Len(sent) :
                  sent[k].kind = "snapshot" /\ sent[k].ticker = sent[i].ticker
    BY <2>1 DEF SentIsConsistent, Snapshotted
  <2>3. ASSUME NEW i \in 1 .. Len(sent), NEW j \in 1 .. Len(sent), i < j,
               sent[i].ticker = sent[j].ticker,
               \A k \in i + 1 .. j - 1 : sent[k].ticker # sent[i].ticker
        PROVE  sent[j].kind = "delta" => sent[j].value = sent[i].value + 1
    BY <2>1, <2>3 DEF SentIsConsistent, Silent
  <2>4. served' => \A i \in 1 .. Len(sent) :
            Silent(sent[i].ticker, i + 1, Len(sent)) => sent[i].value = real'[sent[i].ticker]
    BY <1>4, <2>1 DEF SentIsConsistent
  <2> QED
    BY <1>1, <2>2, <2>3, <2>4 DEF SentIsConsistent, Silent, Snapshotted
<1> QED
  BY <1>2, <1>3, <1>5 DEF FeedInv

\* The exchange numbers a message that fits what it sent before.
LEMMA Numbered ==
    ASSUME FeedInv, UNCHANGED <<consumer, connected, rested>>, NEW m \in Message,
           served, served' = served, sent' = Append(sent, m),
           real' \in [Tickers -> Content], faults' \in 0 .. MaxFaults,
           wire' \in Seq(Nat), \A i \in 1 .. Len(wire') : wire'[i] \in 0 .. Len(sent) + 1,
           \A t \in Tickers \ {m.ticker} : real'[t] = real[t],
           m.value = real'[m.ticker],
           m.kind = "snapshot" \/ Snapshotted(m.ticker),
           m.kind = "delta" => m.value = real[m.ticker] + 1
    PROVE  FeedInv'
<1> DEFINE n == Len(sent)
<1>1. /\ sent \in Seq(Message) /\ n \in Nat /\ real \in [Tickers -> Content]
      /\ sent' \in Seq(Message) /\ Len(sent') = n + 1
      /\ sent'[n + 1] = m /\ \A i \in 1 .. n : sent'[i] = sent[i]
      /\ {served, connected, rested} \subseteq BOOLEAN
  BY DEF FeedInv, FeedTypeOK
<1> HIDE DEF n
<1>2. /\ last' \in 0 .. Len(sent') /\ book' \in [Tickers -> Book \cup {Absent}]
      /\ awaiting' \subseteq Tickers /\ regressed' \subseteq Tickers
      /\ BooksKeepUp' /\ StaleIsAwaited'
  <2>1. Len(sent) <= Len(sent') /\ \A i \in 1 .. Len(sent) : sent'[i] = sent[i]
    BY <1>1 DEF n
  <2>2. UNCHANGED consumer
    BY DEF consumer
  <2> QED
    BY <1>1, <2>1, <2>2, ConsumerRests
<1>3. FeedTypeOK'
  <2>1. \A i \in 1 .. Len(wire') : wire'[i] \in 0 .. Len(sent')
    BY <1>1 DEF n
  <2> QED
    BY <1>1, <1>2, <2>1 DEF FeedTypeOK
<1>4. \A i \in 1 .. n : sent[i].ticker \in Tickers
  <2>1. \A i \in 1 .. n : sent[i] \in Message
    BY <1>1 DEF n
  <2> QED
    BY <2>1 DEF Message
<1>5. m.ticker \in Tickers
  BY DEF Message
<1> DEFINE Shown(t) == \E k \in 1 .. (n + 1) : sent'[k].kind = "snapshot" /\ sent'[k].ticker = t
<1>6. \A t : Snapshotted(t) => Shown(t)
  BY <1>1 DEF Snapshotted, n
<1>7. Shown(m.ticker)
  <2>1. CASE m.kind = "snapshot"
    <3>1. n + 1 \in 1 .. (n + 1)
      BY <1>1
    <3> QED
      BY <1>1, <2>1, <3>1
  <2>2. CASE Snapshotted(m.ticker)
    BY <1>6, <2>2
  <2> QED
    BY <2>1, <2>2
<1> HIDE DEF Shown
<1>8. \A i \in 1 .. (n + 1) : Shown(sent'[i].ticker)
  <2>1. ASSUME NEW i \in 1 .. (n + 1) PROVE Shown(sent'[i].ticker)
    <3>1. CASE i = n + 1
      <4>1. sent'[i].ticker = m.ticker
        BY <1>1, <3>1
      <4> QED
        BY <1>7, <4>1
    <3>2. CASE i \in 1 .. n
      <4>1. Snapshotted(sent[i].ticker) /\ sent'[i].ticker = sent[i].ticker
        BY <1>1, <3>2 DEF FeedInv, SentIsConsistent, n
      <4> QED
        BY <1>6, <4>1
    <3> QED
      BY <1>1, <3>1, <3>2
  <2> QED
    BY <2>1
\* The newest message of a market told its book as it was.
<1>9. ASSUME NEW i \in 1 .. n, \A k \in i + 1 .. n : sent[k].ticker # sent[i].ticker
      PROVE  sent[i].value = real[sent[i].ticker]
  BY <1>9 DEF FeedInv, SentIsConsistent, Silent, n
<1>10. ASSUME NEW i \in 1 .. (n + 1), NEW j \in 1 .. (n + 1), i < j,
              sent'[i].ticker = sent'[j].ticker,
              \A k \in i + 1 .. j - 1 : sent'[k].ticker # sent'[i].ticker,
              sent'[j].kind = "delta"
       PROVE  sent'[j].value = sent'[i].value + 1
  <2>1. i \in 1 .. n /\ sent'[i] = sent[i]
    BY <1>1, <1>10
  <2>2. CASE j = n + 1
    <3>1. \A k \in i + 1 .. n : k \in i + 1 .. j - 1 /\ sent'[k] = sent[k]
      BY <1>1, <2>1, <2>2
    <3>2. \A k \in i + 1 .. n : sent[k].ticker # sent[i].ticker
      BY <1>10, <2>1, <3>1
    <3>3. sent[i].value = real[sent[i].ticker]
      BY <1>9, <2>1, <3>2
    <3>4. sent[i].ticker = m.ticker /\ sent'[j] = m /\ m.kind = "delta"
      BY <1>1, <1>10, <2>1, <2>2
    <3> QED
      BY <2>1, <3>3, <3>4
  <2>3. CASE j \in 1 .. n
    <3>1. \A k \in i + 1 .. j - 1 : sent[k].ticker # sent[i].ticker
      BY <1>1, <1>10, <2>1, <2>3
    <3>2. sent'[j] = sent[j]
      BY <1>1, <2>3
    <3> QED
      BY <1>1, <1>10, <2>1, <2>3, <3>1, <3>2 DEF FeedInv, SentIsConsistent, Silent, n
  <2> QED
    BY <1>1, <2>2, <2>3
<1>11. ASSUME NEW i \in 1 .. (n + 1),
              \A k \in i + 1 .. n + 1 : sent'[k].ticker # sent'[i].ticker
       PROVE  sent'[i].value = real'[sent'[i].ticker]
  <2>1. CASE i = n + 1
    BY <1>1, <2>1
  <2>2. CASE i \in 1 .. n
    <3>1. sent'[i] = sent[i] /\ n + 1 \in i + 1 .. n + 1
      BY <1>1, <2>2
    <3>2. sent[i].ticker # m.ticker /\ \A k \in i + 1 .. n : sent[k].ticker # sent[i].ticker
      BY <1>1, <1>11, <2>2, <3>1
    <3> QED
      BY <1>4, <1>9, <2>2, <3>1, <3>2
  <2> QED
    BY <1>1, <2>1, <2>2
<1>12. SentIsConsistent'
  <2>1. \A i \in 1 .. Len(sent') :
           \E k \in 1 .. Len(sent') : sent'[k].kind = "snapshot" /\ sent'[k].ticker = sent'[i].ticker
    BY <1>1, <1>8, ZenonT(60) DEF Shown
  <2>2. \A i, j \in 1 .. Len(sent') :
           /\ i < j /\ sent'[i].ticker = sent'[j].ticker
           /\ \A k \in i + 1 .. j - 1 : sent'[k].ticker # sent'[i].ticker
           => (sent'[j].kind = "delta" => sent'[j].value = sent'[i].value + 1)
    BY <1>1, <1>10, ZenonT(60)
  <2>3. \A i \in 1 .. Len(sent') :
           (\A k \in i + 1 .. Len(sent') : sent'[k].ticker # sent'[i].ticker)
           => sent'[i].value = real'[sent'[i].ticker]
    BY <1>1, <1>11
  <2> QED
    BY <2>1, <2>2, <2>3, Zenon DEF SentIsConsistent, Snapshotted, Silent
<1> QED
  BY <1>2, <1>3, <1>12 DEF FeedInv

\* The wire only gains numbers of what was sent.
LEMMA WireGains ==
    ASSUME FeedInv, NEW n \in Nat, NEW most \in Nat, Len(sent) <= most, n <= most
    PROVE  /\ Append(wire, n) \in Seq(Nat)
           /\ \A i \in 1 .. Len(Append(wire, n)) : Append(wire, n)[i] \in 0 .. most
<1>1. wire \in Seq(Nat) /\ Len(sent) \in Nat /\ \A i \in 1 .. Len(wire) : wire[i] \in 0 .. Len(sent)
  BY DEF FeedInv, FeedTypeOK
<1>2. /\ Append(wire, n) \in Seq(Nat) /\ Len(Append(wire, n)) = Len(wire) + 1
      /\ Append(wire, n)[Len(wire) + 1] = n
      /\ \A i \in 1 .. Len(wire) : Append(wire, n)[i] = wire[i]
  BY <1>1
<1> QED
  BY <1>1, <1>2

LEMMA EmitKeeps ==
    ASSUME FeedAssumption, FeedInv, NEW m \in Message, NEW arrives \in BOOLEAN, Emit(m, arrives),
           UNCHANGED <<served, connected, consumer, rested>>,
           real' \in [Tickers -> Content],
           \A t \in Tickers \ {m.ticker} : real'[t] = real[t],
           m.value = real'[m.ticker],
           m.kind = "snapshot" \/ Snapshotted(m.ticker),
           m.kind = "delta" => m.value = real[m.ticker] + 1
    PROVE  FeedInv'
<1>1. /\ served /\ sent' = Append(sent, m)
      /\ wire' = IF arrives THEN Append(wire, Len(sent) + 1) ELSE wire
      /\ arrives \/ faults < MaxFaults
      /\ faults' = IF arrives THEN faults ELSE faults + 1
  BY DEF Emit
<1>2. /\ Len(sent) \in Nat /\ wire \in Seq(Nat) /\ faults \in 0 .. MaxFaults
      /\ \A i \in 1 .. Len(wire) : wire[i] \in 0 .. Len(sent)
  BY DEF FeedInv, FeedTypeOK
<1>3. faults' \in 0 .. MaxFaults
  BY <1>1, <1>2 DEF FeedAssumption
<1>4. wire' \in Seq(Nat) /\ \A i \in 1 .. Len(wire') : wire'[i] \in 0 .. Len(sent) + 1
  <2>1. CASE arrives
    BY <1>1, <1>2, <2>1, WireGains
  <2>2. CASE ~arrives
    BY <1>1, <1>2, <2>2
  <2> QED
    BY <2>1, <2>2
<1>5. served' = served /\ UNCHANGED <<consumer, connected, rested>>
  OBVIOUS
<1> QED
  BY <1>1, <1>3, <1>4, <1>5, Numbered

LEMMA SendSnapshotKeeps ==
    ASSUME FeedAssumption, FeedInv, NEW t \in Tickers, NEW arrives \in BOOLEAN,
           SendSnapshot(t, arrives)
    PROVE  FeedInv'
<1> DEFINE m == [kind |-> "snapshot", ticker |-> t, value |-> real[t]]
<1>1. real \in [Tickers -> Content]
  BY DEF FeedInv, FeedTypeOK
<1>2. m \in Message /\ m.kind = "snapshot" /\ m.ticker = t /\ m.value = real[t]
  BY <1>1 DEF Message
<1>3. Emit(m, arrives) /\ UNCHANGED <<real, served, connected, consumer, rested>>
  BY DEF SendSnapshot
<1> HIDE DEF m
<1> QED
  BY <1>1, <1>2, <1>3, EmitKeeps

LEMMA SendDeltaKeeps ==
    ASSUME FeedAssumption, FeedInv, NEW t \in Tickers, NEW arrives \in BOOLEAN,
           SendDelta(t, arrives)
    PROVE  FeedInv'
<1> DEFINE m == [kind |-> "delta", ticker |-> t, value |-> real[t] + 1]
<1>1. real \in [Tickers -> Content] /\ real[t] < MaxChanges /\ MaxChanges \in Nat
  BY DEF FeedInv, FeedTypeOK, SendDelta, FeedAssumption
<1>2. real[t] + 1 \in Content
  BY <1>1 DEF Content
<1>3. m \in Message /\ m.kind = "delta" /\ m.ticker = t /\ m.value = real[t] + 1
  BY <1>2 DEF Message
<1>4. /\ Emit(m, arrives) /\ UNCHANGED <<served, connected, consumer, rested>>
      /\ real' = [real EXCEPT ![t] = real[t] + 1] /\ Snapshotted(t)
  BY DEF SendDelta
<1> HIDE DEF m
<1>5. /\ real' \in [Tickers -> Content] /\ real'[t] = real[t] + 1
      /\ \A u \in Tickers \ {t} : real'[u] = real[u]
  BY <1>1, <1>2, <1>4
<1> QED
  BY <1>3, <1>4, <1>5, EmitKeeps

\* A faulty or repeated message and the end of a subscription.
LEMMA SendOddKeeps ==
    ASSUME FeedAssumption, FeedInv, NEW t \in Tickers, SendOdd(t)
    PROVE  FeedInv'
<1> DEFINE m == [kind |-> "odd", ticker |-> t, value |-> real[t]]
<1>1. /\ real \in [Tickers -> Content] /\ faults \in 0 .. MaxFaults /\ MaxFaults \in Nat
      /\ Len(sent) \in Nat
  BY DEF FeedInv, FeedTypeOK, FeedAssumption
<1>2. m \in Message /\ m.kind = "odd" /\ m.ticker = t /\ m.value = real[t]
  BY <1>1 DEF Message
<1>3. /\ sent' = Append(sent, m) /\ wire' = Append(wire, Len(sent) + 1) /\ served
      /\ faults < MaxFaults /\ faults' = faults + 1 /\ Snapshotted(t)
      /\ UNCHANGED <<real, served, connected, consumer, rested>>
  BY DEF SendOdd
<1> HIDE DEF m
<1>4. faults' \in 0 .. MaxFaults
  BY <1>1, <1>3
<1>5. wire' \in Seq(Nat) /\ \A i \in 1 .. Len(wire') : wire'[i] \in 0 .. Len(sent) + 1
  <2>1. Len(sent) + 1 \in Nat /\ Len(sent) <= Len(sent) + 1
    BY <1>1
  <2>2. wire' = Append(wire, Len(sent) + 1)
    BY <1>3
  <2> DEFINE n == Len(sent) + 1
             w == Append(wire, n)
  <2>3. n \in Nat /\ Len(sent) <= n /\ n <= n
    BY <2>1
  <2> HIDE DEF n
  <2>4. w \in Seq(Nat) /\ \A i \in 1 .. Len(w) : w[i] \in 0 .. n
    BY <2>3, WireGains
  <2> QED
    BY <2>2, <2>4 DEF n
<1> QED
  BY <1>1, <1>2, <1>3, <1>4, <1>5, Numbered

LEMMA FaultKeeps ==
    ASSUME FeedAssumption, FeedInv, SendError \/ \E n \in 1 .. Len(sent) : Replay(n)
    PROVE  FeedInv'
<1>1. /\ real \in [Tickers -> Content] /\ faults \in 0 .. MaxFaults /\ MaxFaults \in Nat
      /\ Len(sent) \in Nat /\ {served, connected, rested} \subseteq BOOLEAN
  BY DEF FeedInv, FeedTypeOK, FeedAssumption
<1>2. PICK n \in 0 .. Len(sent) : wire' = Append(wire, n)
  BY <1>1 DEF SendError, Replay
<1>3. /\ faults' = faults + 1 /\ faults < MaxFaults /\ (served' => served)
      /\ UNCHANGED <<consumer, sent, real, connected, rested>> /\ served' \in BOOLEAN
  BY <1>1 DEF SendError, Replay, exchange
<1>4. wire' \in Seq(Nat) /\ \A i \in 1 .. Len(wire') : wire'[i] \in 0 .. Len(sent)
  <2>1. n \in Nat /\ n <= Len(sent) /\ Len(sent) <= Len(sent)
    BY <1>1
  <2> QED
    BY <1>1, <1>2, <2>1, WireGains
<1>5. faults' \in 0 .. MaxFaults
  BY <1>1, <1>3
<1> QED
  BY <1>1, <1>3, <1>4, <1>5, NothingNumbered

\* A change nobody is told of is one of a book nothing was sent of.
LEMMA ChangeUnheardKeeps ==
    ASSUME FeedAssumption, FeedInv, NEW t \in Tickers, ChangeUnheard(t)
    PROVE  FeedInv'
<1>1. /\ real \in [Tickers -> Content] /\ faults \in 0 .. MaxFaults /\ MaxChanges \in Nat
      /\ Len(sent) \in Nat /\ {served, connected, rested} \subseteq BOOLEAN
      /\ wire \in Seq(Nat) /\ \A i \in 1 .. Len(wire) : wire[i] \in 0 .. Len(sent)
  BY DEF FeedInv, FeedTypeOK, FeedAssumption
<1>2. /\ real[t] < MaxChanges /\ real' = [real EXCEPT ![t] = real[t] + 1]
      /\ ~served \/ ~Snapshotted(t)
      /\ UNCHANGED <<sent, served, wire, connected, consumer, rested, faults>>
  BY DEF ChangeUnheard
<1>3. real' \in [Tickers -> Content]
  BY <1>1, <1>2 DEF Content
<1>4. served' => \A u \in Tickers : Snapshotted(u) => real'[u] = real[u]
  BY <1>1, <1>2
<1> QED
  BY <1>1, <1>2, <1>3, <1>4, NothingNumbered

\* The connection ends, and the heal loop counts.
LEMMA DisconnectKeeps ==
    ASSUME FeedAssumption, FeedInv, Disconnect \/ Heal \/ Interval
    PROVE  FeedInv'
<1>1. /\ real \in [Tickers -> Content] /\ faults \in 0 .. MaxFaults
      /\ Len(sent) \in Nat /\ {served, connected, rested} \subseteq BOOLEAN
      /\ wire \in Seq(Nat) /\ \A i \in 1 .. Len(wire) : wire[i] \in 0 .. Len(sent)
  BY DEF FeedInv, FeedTypeOK
<1>2. faults < MaxFaults => faults + 1 \in 0 .. MaxFaults
  BY <1>1 DEF FeedAssumption
<1>3. CASE Disconnect \/ Heal
  <2>1. /\ wire' = <<>> /\ served' = FALSE /\ connected' = FALSE /\ rested' \in BOOLEAN
        /\ faults' = faults \/ (faults < MaxFaults /\ faults' = faults + 1)
        /\ UNCHANGED <<sent, real, consumer>>
    BY <1>1, <1>3 DEF Disconnect, Heal, Dropped
  <2>2. /\ wire' \in Seq(Nat) /\ \A i \in 1 .. Len(wire') : wire'[i] \in 0 .. Len(sent)
        /\ faults' \in 0 .. MaxFaults
    BY <1>1, <1>2, <2>1
  <2>3. {served', connected', rested'} \subseteq BOOLEAN
    BY <1>1, <2>1, Zenon
  <2> QED
    BY <1>1, <2>1, <2>2, <2>3, NothingNumbered
<1>4. CASE Interval
  <2>1. /\ rested' = TRUE
        /\ faults' = faults \/ (faults < MaxFaults /\ faults' = faults + 1)
        /\ UNCHANGED <<sent, real, served, wire, connected, consumer>>
    BY <1>4 DEF Interval, exchange
  <2>2. /\ wire' \in Seq(Nat) /\ \A i \in 1 .. Len(wire') : wire'[i] \in 0 .. Len(sent)
        /\ faults' \in 0 .. MaxFaults
    BY <1>1, <1>2, <2>1
  <2>3. {served', connected', rested'} \subseteq BOOLEAN
    <3>1. served' = served
      BY <1>4 DEF Interval, exchange
    <3>2. connected' = connected
      BY <1>4 DEF Interval
    <3>3. rested' = TRUE
      BY <1>4 DEF Interval
    <3> QED
      BY <1>1, <3>1, <3>2, <3>3, Zenon
  <2> QED
    BY <1>1, <2>1, <2>2, <2>3, NothingNumbered
<1> QED
  BY <1>3, <1>4

-------------------------------------------------------------------------------
(* BookFeed keeps its invariant: the consumer *)

\* A resync leaves no book that answers, and awaits them all.
LEMMA ResyncIs ==
    ASSUME FeedInv
    PROVE  /\ Resync.book \in [Tickers -> Book \cup {Absent}]
           /\ Resync.awaiting \subseteq Tickers
           /\ \A t \in Tickers : /\ ~Answers(Resync.book[t])
                                 /\ Resync.book[t] # Absent => t \in Resync.awaiting
<1>1. book \in [Tickers -> Book \cup {Absent}] /\ awaiting \subseteq Tickers
  BY DEF FeedInv, FeedTypeOK
<1>2. /\ Resync.book = [t \in Tickers |-> MarkStale(book[t])]
      /\ Resync.awaiting = awaiting \cup {t \in Tickers : Known(book, t)}
  BY DEF Resync
<1>3. ASSUME NEW b \in Book \cup {Absent}
      PROVE  /\ MarkStale(b) \in Book \cup {Absent} /\ ~Answers(MarkStale(b))
             /\ MarkStale(b) # Absent => b # Absent
  <2>1. CASE b = Absent
    BY <2>1 DEF MarkStale, Answers
  <2>2. CASE b # Absent
    <3>1. MarkStale(b) = [value |-> b.value, seq |-> b.seq, stale |-> TRUE]
      BY <2>2 DEF MarkStale, Book
    <3> QED
      BY <2>2, <3>1 DEF Book, Answers
  <2> QED
    BY <2>1, <2>2
<1> QED
  BY <1>1, <1>2, <1>3 DEF Known

\* A new connection: nothing is sent yet, and no book answers.
LEMMA ConnectKeeps ==
    ASSUME FeedAssumption, FeedInv, Connect
    PROVE  FeedInv'
<1>1. /\ connected' = TRUE /\ served' = TRUE /\ sent' = <<>> /\ wire' = <<>> /\ last' = 0
      /\ book' = Resync.book /\ awaiting' = Resync.awaiting
      /\ UNCHANGED <<real, rested, faults, regressed>>
  BY DEF Connect, FirstSeq, FeedAssumption
<1>2. FeedTypeOK' /\ wire' \in Seq(Nat)
  <2>1. /\ real \in [Tickers -> Content] /\ rested \in BOOLEAN
        /\ faults \in 0 .. MaxFaults /\ regressed \subseteq Tickers
    BY DEF FeedInv, FeedTypeOK
  <2>2. /\ sent' \in Seq(Message) /\ wire' \in Seq(Nat) /\ last' \in 0 .. Len(sent')
        /\ \A i \in 1 .. Len(wire') : wire'[i] \in 0 .. Len(sent')
    BY <1>1
  <2>3. /\ book' \in [Tickers -> Book \cup {Absent}] /\ awaiting' \subseteq Tickers
    BY <1>1, ResyncIs
  <2>4. {served', connected', rested'} \subseteq BOOLEAN
    BY <1>1, <2>1, Zenon
  <2> QED
    BY <1>1, <2>1, <2>2, <2>3, <2>4 DEF FeedTypeOK
<1>3. SentIsConsistent'
  BY <1>1 DEF SentIsConsistent
<1>4. BooksKeepUp'
  BY <1>1, ResyncIs DEF BooksKeepUp, Answers
<1>5. StaleIsAwaited'
  BY <1>1, ResyncIs DEF StaleIsAwaited, Known
<1> QED
  BY <1>2, <1>3, <1>4, <1>5 DEF FeedInv

\* Books B and those awaited, W, as they may be when the n-th message is handled:
\* after a gap none answers.
FitFor(B, W, n) ==
    /\ B \in [Tickers -> Book \cup {Absent}] /\ W \subseteq Tickers
    /\ \A t \in Tickers : B[t] # Absent /\ B[t].stale => t \in W
    /\ \A t \in Tickers \ regressed :
          Answers(B[t]) => StandsAt(B[t], t, last) /\ n <= last + 1

\* And as they are afterwards.
HandledAt(B, W, R, l) ==
    /\ B \in [Tickers -> Book \cup {Absent}] /\ W \subseteq Tickers
    /\ \A t \in Tickers : B[t] # Absent /\ B[t].stale => t \in W
    /\ \A t \in Tickers \ R : Answers(B[t]) => StandsAt(B[t], t, l)

\* Other markets' books are no concern of a message.
LEMMA OthersStand ==
    ASSUME FeedInv, NEW n \in 1 .. Len(sent), NEW u \in Tickers, sent[n].ticker # u,
           NEW b \in Book, StandsAt(b, u, last), n <= last + 1
    PROVE  StandsAt(b, u, IF Behind(n) THEN last ELSE n)
<1>1. last \in Nat /\ n \in Nat /\ b.seq \in 1 .. last
  BY DEF FeedInv, FeedTypeOK, StandsAt
<1>2. CASE Behind(n)
  BY <1>2
<1>3. CASE ~Behind(n) /\ n = last + 1
  <2>1. b.seq \in 1 .. n /\ \A k \in b.seq + 1 .. n : k \in b.seq + 1 .. last \/ k = n
    BY <1>1, <1>3
  <2> QED
    BY <1>3, <2>1 DEF StandsAt, Silent
<1>4. CASE ~Behind(n) /\ n # last + 1
  <2>1. last = NoSeq \/ n > last
    BY <1>1, <1>4 DEF Behind
  <2>2. last # 0
    BY <1>1
  <2> QED
    BY <1>1, <1>4, <2>1, <2>2, FeedAssumption DEF FeedAssumption
<1> QED
  BY <1>2, <1>3, <1>4

LEMMA SnapshotHandled ==
    ASSUME FeedInv, NEW n \in 1 .. Len(sent), sent[n].kind = "snapshot",
           NEW B, NEW W, FitFor(B, W, n), NEW H,
           H = ApplySnapshot(sent[n].ticker, sent[n].value, n, [book |-> B, awaiting |-> W])
    PROVE  HandledAt(H.book, H.awaiting, Regressed(sent[n], n),
                     IF Behind(n) THEN last ELSE n)
<1> DEFINE t == sent[n].ticker
           b == [value |-> sent[n].value, seq |-> n, stale |-> FALSE]
           l == IF Behind(n) THEN last ELSE n
           R == Regressed(sent[n], n)
<1>1. sent[n] \in Message /\ n \in Nat /\ n # 0
  BY DEF FeedInv, FeedTypeOK
<1>2. t \in Tickers /\ sent[n].value \in Nat
  BY <1>1, FeedAssumption DEF Message, Content, FeedAssumption
<1>3. b \in Book /\ b.seq = n /\ b.value = sent[n].value /\ ~b.stale
  BY <1>1, <1>2 DEF Book
<1>4. H.book = [B EXCEPT ![t] = b] /\ H.awaiting = W \ {t}
  BY DEF ApplySnapshot
<1>5. R = IF Behind(n) THEN regressed \cup {t} ELSE regressed \ {t}
  BY DEF Regressed
<1>6. ~Behind(n) => StandsAt(b, t, n)
  BY <1>1, <1>3 DEF StandsAt, Silent
<1> HIDE DEF b, R, t
<1>7. /\ H.book \in [Tickers -> Book \cup {Absent}] /\ H.awaiting \subseteq Tickers
      /\ H.book[t] = b /\ \A u \in Tickers \ {t} : H.book[u] = B[u]
  BY <1>2, <1>3, <1>4, ZenonT(60) DEF FitFor
<1>8. \A u \in Tickers : H.book[u] # Absent /\ H.book[u].stale => u \in H.awaiting
  BY <1>3, <1>4, <1>7 DEF FitFor
<1>9. ASSUME NEW u \in Tickers \ R, Answers(H.book[u])
      PROVE  StandsAt(H.book[u], u, l)
  <2>1. CASE u = t
    BY <1>5, <1>6, <1>7, <1>9, <2>1
  <2>2. CASE u # t
    <3>1. u \in Tickers \ regressed /\ H.book[u] = B[u] /\ Answers(B[u])
      BY <1>5, <1>7, <1>9, <2>2
    <3>2. StandsAt(B[u], u, last) /\ n <= last + 1 /\ B[u] \in Book
      BY <3>1 DEF FitFor, Answers
    <3> QED
      BY <2>2, <3>1, <3>2, OthersStand DEF t
  <2> QED
    BY <2>1, <2>2
<1> QED
  BY <1>7, <1>8, <1>9 DEF HandledAt, R, t

\* A message that changes a book: the book may only be that of its market, and it
\* counts if it answered before and the message is the next one.
LEMMA NextIsTaken ==
    ASSUME FeedInv, NEW n \in 1 .. Len(sent), NEW B, NEW W, FitFor(B, W, n),
           sent[n].ticker \notin regressed, Answers(B[sent[n].ticker])
    PROVE  Takes(B[sent[n].ticker], n) => n = last + 1 /\ ~Behind(n)
<1> DEFINE t == sent[n].ticker
           b == B[t]
<1>1. /\ last \in Nat /\ n \in Nat /\ t \in Tickers /\ sent[n].ticker = t
  <2>1. sent[n] \in Message /\ last \in Nat
    BY DEF FeedInv, FeedTypeOK
  <2> QED
    BY <2>1 DEF Message
<1>2. StandsAt(b, t, last) /\ n <= last + 1
  BY <1>1 DEF FitFor
<1>3. b.seq \in 1 .. last /\ \A k \in b.seq + 1 .. last : sent[k].ticker # t
  BY <1>2 DEF StandsAt, Silent
<1> HIDE DEF t, b
<1>4. n > b.seq => n = last + 1
  BY <1>1, <1>2, <1>3
<1>5. n = last + 1 => ~Behind(n)
  BY <1>1 DEF Behind
<1> QED
  BY <1>4, <1>5 DEF Takes, b, t

\* One that was not taken, of a market whose book answers, was behind.
LEMMA PassedIsBehind ==
    ASSUME FeedInv, NEW n \in 1 .. Len(sent), NEW b, NEW t \in Tickers, Answers(b),
           StandsAt(b, t, last), ~Takes(b, n)
    PROVE  Behind(n)
<1>1. last \in Nat /\ n \in Nat /\ b.seq \in 1 .. last /\ n <= b.seq
  BY DEF FeedInv, FeedTypeOK, StandsAt, Takes, Answers
<1> QED
  BY <1>1, FeedAssumption DEF Behind, FeedAssumption

\* A book is its three fields, whichever of them a message changes.
LEMMA BookFields ==
    ASSUME NEW b \in Book
    PROVE  b = [value |-> b.value, seq |-> b.seq, stale |-> b.stale]
BY DEF Book

LEMMA BookWithContent ==
    ASSUME NEW b \in Book, NEW v \in Nat, NEW n \in Nat
    PROVE  [b EXCEPT !.value = v, !.seq = n] = [value |-> v, seq |-> n, stale |-> b.stale]
<1> DEFINE e == [b EXCEPT !.value = v, !.seq = n]
<1>1. e \in Book /\ e.value = v /\ e.seq = n /\ e.stale = b.stale
  BY DEF Book
<1> HIDE DEF e
<1>2. e = [value |-> e.value, seq |-> e.seq, stale |-> e.stale]
  BY <1>1, BookFields
<1>3. e = [value |-> v, seq |-> n, stale |-> b.stale]
  BY <1>1, <1>2
<1> QED
  BY <1>3 DEF e

LEMMA BookWithStale ==
    ASSUME NEW b \in Book, NEW z \in BOOLEAN
    PROVE  [b EXCEPT !.stale = z] = [value |-> b.value, seq |-> b.seq, stale |-> z]
<1> DEFINE e == [b EXCEPT !.stale = z]
<1>1. e \in Book /\ e.value = b.value /\ e.seq = b.seq /\ e.stale = z
  BY DEF Book
<1> HIDE DEF e
<1>2. e = [value |-> e.value, seq |-> e.seq, stale |-> e.stale]
  BY <1>1, BookFields
<1>3. e = [value |-> b.value, seq |-> b.seq, stale |-> z]
  BY <1>1, <1>2
<1> QED
  BY <1>3 DEF e

\* A delta continues the content of the book that takes it.
LEMMA DeltaHandled ==
    ASSUME FeedInv, NEW n \in 1 .. Len(sent), sent[n].kind = "delta",
           NEW B, NEW W, FitFor(B, W, n), NEW H,
           H = ApplyDelta(sent[n].ticker, n, [book |-> B, awaiting |-> W])
    PROVE  HandledAt(H.book, H.awaiting, regressed, IF Behind(n) THEN last ELSE n)
<1> DEFINE t == sent[n].ticker
           l == IF Behind(n) THEN last ELSE n
<1>1. /\ last \in Nat /\ n \in Nat /\ t \in Tickers /\ B \in [Tickers -> Book \cup {Absent}]
      /\ W \subseteq Tickers
  <2>1. sent[n] \in Message /\ last \in Nat
    BY DEF FeedInv, FeedTypeOK
  <2> QED
    BY <2>1 DEF Message, FitFor
<1>2. ASSUME NEW u \in Tickers \ regressed, u # t, Answers(B[u])
      PROVE  StandsAt(B[u], u, l)
  <2>1. StandsAt(B[u], u, last) /\ n <= last + 1 /\ B[u] \in Book
    BY <1>1, <1>2 DEF FitFor, Answers
  <2> QED
    BY <1>2, <2>1, OthersStand
<1>3. CASE Takes(B[t], n)
  <2> DEFINE b == [value |-> B[t].value + 1, seq |-> n, stale |-> FALSE]
  <2>1. B[t] \in Book /\ Answers(B[t]) /\ B[t].stale = FALSE
    BY <1>1, <1>3 DEF Takes, Answers, Book
  <2>2. b \in Book /\ b.seq = n /\ b.value = B[t].value + 1 /\ ~b.stale
    BY <1>1, <2>1 DEF Book
  <2>3. H.book = [B EXCEPT ![t] = b] /\ H.awaiting = W
    <3>1. [B[t] EXCEPT !.value = B[t].value + 1, !.seq = n] = b
      <4>1. [B[t] EXCEPT !.value = B[t].value + 1, !.seq = n]
              = [value |-> B[t].value + 1, seq |-> n, stale |-> B[t].stale]
        <5>1. B[t].value + 1 \in Nat
          BY <2>1 DEF Book
        <5> HIDE DEF t
        <5> QED
          BY <1>1, <2>1, <5>1, BookWithContent, ZenonT(60)
      <4> QED
        BY <2>1, <4>1
    <3>2. H.book = [B EXCEPT ![t] = [B[t] EXCEPT !.value = B[t].value + 1, !.seq = n]]
      BY <1>1, <1>3 DEF ApplyDelta
    <3>3. H.awaiting = W
      BY <1>3 DEF ApplyDelta
    <3> QED
      BY <3>1, <3>2, <3>3
  <2>4. t \notin regressed => StandsAt(b, t, l)
    <3>1. SUFFICES ASSUME t \notin regressed PROVE StandsAt(b, t, l)
      OBVIOUS
    <3>2. n = last + 1 /\ l = n
      BY <1>3, <2>1, <3>1, NextIsTaken
    <3>3. StandsAt(B[t], t, last)
      BY <1>1, <2>1, <3>1 DEF FitFor
    <3>4. /\ B[t].seq \in 1 .. Len(sent) /\ B[t].seq < n /\ sent[B[t].seq].ticker = t
          /\ sent[B[t].seq].value = B[t].value /\ Silent(t, B[t].seq + 1, n - 1)
      BY <1>1, <3>2, <3>3 DEF StandsAt, FeedInv, FeedTypeOK
    <3>5. sent[n].value = B[t].value + 1
      <4> DEFINE i == B[t].seq
      <4>1. /\ i \in 1 .. Len(sent) /\ i < n /\ sent[i].ticker = sent[n].ticker
            /\ Silent(sent[i].ticker, i + 1, n - 1)
        BY <3>4
      <4> HIDE DEF i
      <4>2. sent[n].value = sent[i].value + 1
        BY <4>1 DEF FeedInv, SentIsConsistent
      <4>3. sent[i].value = B[t].value
        BY <3>4 DEF i
      <4> QED
        BY <4>2, <4>3
    <3>6. Silent(t, n + 1, n)
      BY <1>1 DEF Silent
    <3> HIDE DEF b
    <3> QED
      BY <1>1, <2>2, <3>2, <3>5, <3>6 DEF StandsAt
  <2> HIDE DEF b, t
  <2>5. /\ H.book \in [Tickers -> Book \cup {Absent}]
        /\ H.book[t] = b /\ \A u \in Tickers \ {t} : H.book[u] = B[u]
    BY <1>1, <2>2, <2>3
  <2>6. \A u \in Tickers : H.book[u] # Absent /\ H.book[u].stale => u \in H.awaiting
    BY <2>2, <2>3, <2>5 DEF FitFor
  <2>7. \A u \in Tickers \ regressed : Answers(H.book[u]) => StandsAt(H.book[u], u, l)
    <3>1. ASSUME NEW u \in Tickers \ regressed, Answers(H.book[u])
          PROVE  StandsAt(H.book[u], u, l)
      <4>1. CASE u = t
        BY <2>4, <2>5, <3>1, <4>1
      <4>2. CASE u # t
        <5>1. H.book[u] = B[u]
          BY <2>5, <4>2
        <5> QED
          BY <1>2, <3>1, <4>2, <5>1
      <4> QED
        BY <4>1, <4>2
    <3> QED
      BY <3>1
  <2> QED
    BY <1>1, <2>3, <2>5, <2>6, <2>7 DEF HandledAt
<1>4. CASE ~Takes(B[t], n)
  <2>1. H.book = B /\ H.awaiting = W \cup {t}
    BY <1>4 DEF ApplyDelta
  <2>2. ASSUME t \in Tickers \ regressed, Answers(B[t])
        PROVE  StandsAt(B[t], t, l)
    <3>1. StandsAt(B[t], t, last)
      BY <2>2 DEF FitFor
    <3>2. Behind(n)
      BY <1>4, <2>2, <3>1, PassedIsBehind
    <3> QED
      BY <3>1, <3>2
  <2>3. \A u \in Tickers \ regressed : Answers(B[u]) => StandsAt(B[u], u, l)
    BY <1>2, <2>2
  <2> HIDE DEF t, l
  <2> QED
    BY <1>1, <2>1, <2>3 DEF HandledAt, FitFor, l
<1> QED
  BY <1>3, <1>4

\* An odd message stops the book that takes it.
LEMMA OddHandled ==
    ASSUME FeedInv, NEW n \in 1 .. Len(sent),
           NEW B, NEW W, FitFor(B, W, n), NEW H,
           H = ApplyOdd(sent[n].ticker, n, [book |-> B, awaiting |-> W])
    PROVE  HandledAt(H.book, H.awaiting, regressed, IF Behind(n) THEN last ELSE n)
<1> DEFINE t == sent[n].ticker
           l == IF Behind(n) THEN last ELSE n
<1>1. /\ n \in Nat /\ t \in Tickers /\ B \in [Tickers -> Book \cup {Absent}]
      /\ W \subseteq Tickers
  <2>1. sent[n] \in Message
    BY DEF FeedInv, FeedTypeOK
  <2> QED
    BY <2>1 DEF Message, FitFor
<1>2. H.awaiting = W \cup {t}
  BY DEF ApplyOdd
<1>3. ASSUME NEW u \in Tickers \ regressed, u # t, Answers(B[u])
      PROVE  StandsAt(B[u], u, l)
  <2>1. StandsAt(B[u], u, last) /\ n <= last + 1 /\ B[u] \in Book
    BY <1>1, <1>3 DEF FitFor, Answers
  <2> QED
    BY <1>3, <2>1, OthersStand
<1>4. CASE Takes(B[t], n)
  <2> DEFINE b == [value |-> B[t].value, seq |-> B[t].seq, stale |-> TRUE]
  <2>1. B[t] \in Book
    BY <1>1, <1>4 DEF Takes
  <2>2. b \in Book /\ ~Answers(b)
    BY <2>1 DEF Book, Answers
  <2>3. H.book = [B EXCEPT ![t] = b]
    <3>1. [B[t] EXCEPT !.stale = TRUE] = b
      <4> HIDE DEF t
      <4> QED
        BY <2>1, BookWithStale DEF b
    <3>2. H.book = [B EXCEPT ![t] = [B[t] EXCEPT !.stale = TRUE]]
      BY <1>1, <1>4 DEF ApplyOdd
    <3> QED
      BY <3>1, <3>2
  <2> HIDE DEF b, t
  <2>4. /\ H.book \in [Tickers -> Book \cup {Absent}]
        /\ H.book[t] = b /\ \A u \in Tickers \ {t} : H.book[u] = B[u]
    BY <1>1, <2>2, <2>3
  <2>5. \A u \in Tickers : H.book[u] # Absent /\ H.book[u].stale => u \in H.awaiting
    BY <1>2, <2>4 DEF FitFor
  <2>6. \A u \in Tickers \ regressed : Answers(H.book[u]) => StandsAt(H.book[u], u, l)
    <3>1. ASSUME NEW u \in Tickers \ regressed, Answers(H.book[u])
          PROVE  StandsAt(H.book[u], u, l)
      <4>1. u # t
        BY <2>2, <2>4, <3>1
      <4>2. H.book[u] = B[u]
        BY <2>4, <4>1
      <4> QED
        BY <1>3, <3>1, <4>1, <4>2
    <3> QED
      BY <3>1
  <2> QED
    BY <1>1, <1>2, <2>4, <2>5, <2>6 DEF HandledAt
<1>5. CASE ~Takes(B[t], n)
  <2>1. H.book = B
    BY <1>5 DEF ApplyOdd
  <2>2. ASSUME t \in Tickers \ regressed, Answers(B[t])
        PROVE  StandsAt(B[t], t, l)
    <3>1. StandsAt(B[t], t, last)
      BY <2>2 DEF FitFor
    <3>2. Behind(n)
      BY <1>5, <2>2, <3>1, PassedIsBehind
    <3> QED
      BY <3>1, <3>2
  <2>3. \A u \in Tickers \ regressed : Answers(B[u]) => StandsAt(B[u], u, l)
    BY <1>3, <2>2
  <2> HIDE DEF t, l
  <2> QED
    BY <1>1, <1>2, <2>1, <2>3 DEF HandledAt, FitFor, l
<1> QED
  BY <1>4, <1>5

LEMMA HandleFits ==
    ASSUME FeedInv, NEW n \in 1 .. Len(sent), NEW B, NEW W, FitFor(B, W, n), NEW H,
           H = Handle(sent[n], n, [book |-> B, awaiting |-> W])
    PROVE  HandledAt(H.book, H.awaiting, Regressed(sent[n], n),
                     IF Behind(n) THEN last ELSE n)
<1>1. sent[n].kind \in {"snapshot", "delta", "odd"}
  <2>1. sent[n] \in Message
    BY DEF FeedInv, FeedTypeOK
  <2> QED
    BY <2>1 DEF Message
<1>2. CASE sent[n].kind = "snapshot"
  BY <1>2, SnapshotHandled DEF Handle
<1>3. CASE sent[n].kind = "delta"
  BY <1>3, DeltaHandled DEF Handle, Regressed
<1>4. CASE sent[n].kind = "odd"
  BY <1>4, OddHandled DEF Handle, Regressed
<1> QED
  BY <1>1, <1>2, <1>3, <1>4

LEMMA ReceiveKeeps ==
    ASSUME FeedAssumption, FeedInv, Receive
    PROVE  FeedInv'
<1> DEFINE n == Head(wire)
<1>1. /\ n \in 0 .. Len(sent) /\ Tail(wire) \in Seq(Nat)
      /\ \A i \in 1 .. Len(Tail(wire)) : Tail(wire)[i] \in 0 .. Len(sent)
  <2>1. /\ wire \in Seq(Nat) /\ wire # <<>> /\ Len(sent) \in Nat
        /\ \A i \in 1 .. Len(wire) : wire[i] \in 0 .. Len(sent)
    BY DEF FeedInv, FeedTypeOK, Receive
  <2>2. /\ n = wire[1] /\ 1 \in 1 .. Len(wire) /\ Tail(wire) \in Seq(Nat)
        /\ Len(Tail(wire)) = Len(wire) - 1
        /\ \A i \in 1 .. Len(wire) - 1 : Tail(wire)[i] = wire[i + 1] /\ i + 1 \in 1 .. Len(wire)
    BY <2>1
  <2> QED
    BY <2>1, <2>2
<1> HIDE DEF n
<1>2. /\ wire' = Tail(wire) /\ UNCHANGED <<real, sent, served, connected, rested, faults>>
      /\ last' = IF n = 0 \/ Behind(n) THEN last ELSE n
      /\ regressed' = IF n = 0 THEN regressed ELSE Regressed(sent[n], n)
  BY DEF Receive, exchange, n
<1>3. /\ last \in 0 .. Len(sent) /\ Len(sent) \in Nat /\ regressed \subseteq Tickers
      /\ book \in [Tickers -> Book \cup {Absent}] /\ awaiting \subseteq Tickers
  BY DEF FeedInv, FeedTypeOK
<1>4. HandledAt(book', awaiting', regressed', last')
  <2>1. CASE n = 0
    <3>1. book' = Resync.book /\ awaiting' = Resync.awaiting
      BY <2>1 DEF Receive, n
    <3> QED
      BY <3>1, ResyncIs DEF HandledAt, Answers
  <2>2. CASE n # 0 /\ Gap(n)
    <3> DEFINE H == Handle(sent[n], n, [book |-> Resync.book, awaiting |-> Resync.awaiting])
    <3>1. Resync = [book |-> Resync.book, awaiting |-> Resync.awaiting]
      BY DEF Resync
    <3>2. book' = H.book /\ awaiting' = H.awaiting
      BY <2>2, <3>1 DEF Receive, n
    <3>3. FitFor(Resync.book, Resync.awaiting, n)
      BY ResyncIs DEF FitFor, Answers
    <3>4. n \in 1 .. Len(sent)
      BY <1>1, <2>2
    <3> HIDE DEF H
    <3>5. HandledAt(H.book, H.awaiting, Regressed(sent[n], n), IF Behind(n) THEN last ELSE n)
      BY <3>3, <3>4, HandleFits DEF H
    <3> QED
      BY <1>2, <2>2, <3>2, <3>5
  <2>3. CASE n # 0 /\ ~Gap(n)
    <3> DEFINE H == Handle(sent[n], n, [book |-> book, awaiting |-> awaiting])
    <3>1. book' = H.book /\ awaiting' = H.awaiting
      BY <2>3 DEF Receive, n
    <3>2. n \in 1 .. Len(sent)
      BY <1>1, <2>3
    <3>3. FitFor(book, awaiting, n)
      <4>1. ASSUME NEW t \in Tickers \ regressed, Answers(book[t])
            PROVE  StandsAt(book[t], t, last) /\ n <= last + 1
        <5>1. StandsAt(book[t], t, last)
          BY <4>1 DEF FeedInv, BooksKeepUp
        <5>2. last # 0
          BY <1>3, <5>1 DEF StandsAt
        <5>3. n <= last + 1
          BY <1>3, <2>3, <3>2, <5>2 DEF Gap, FeedAssumption
        <5> QED
          BY <5>1, <5>3
      <4> QED
        BY <1>3, <4>1 DEF FitFor, FeedInv, StaleIsAwaited, Known
    <3> HIDE DEF H
    <3>4. HandledAt(H.book, H.awaiting, Regressed(sent[n], n), IF Behind(n) THEN last ELSE n)
      BY <3>2, <3>3, HandleFits DEF H
    <3> QED
      BY <1>2, <2>3, <3>1, <3>4
  <2> QED
    BY <2>1, <2>2, <2>3
<1>5. regressed' \subseteq Tickers
  <2>1. n # 0 => sent[n].ticker \in Tickers
    <3>1. n # 0 => sent[n] \in Message
      BY <1>1 DEF FeedInv, FeedTypeOK
    <3> QED
      BY <3>1 DEF Message
  <2> QED
    BY <1>2, <1>3, <2>1 DEF Regressed
<1>6. last' \in 0 .. Len(sent)
  BY <1>1, <1>2, <1>3
<1>7. FeedTypeOK' /\ wire' \in Seq(Nat)
  BY <1>1, <1>2, <1>4, <1>5, <1>6 DEF FeedInv, FeedTypeOK, HandledAt
<1>8. SentIsConsistent'
  BY <1>2 DEF FeedInv, SentIsConsistent, Snapshotted, Silent
<1>9. BooksKeepUp' /\ StaleIsAwaited'
  BY <1>2, <1>4 DEF HandledAt, BooksKeepUp, StaleIsAwaited, Known, Answers, StandsAt, Silent
<1> QED
  BY <1>7, <1>8, <1>9 DEF FeedInv

LEMMA FeedNextKeeps ==
    ASSUME FeedAssumption, FeedInv, [FeedNext]_feedVars
    PROVE  FeedInv'
<1>1. CASE UNCHANGED feedVars
  BY <1>1, NothingNumbered DEF feedVars, consumer, FeedInv, FeedTypeOK
<1>2. ASSUME NEW t \in Tickers, NEW arrives \in BOOLEAN,
             SendSnapshot(t, arrives) \/ SendDelta(t, arrives)
      PROVE  FeedInv'
  BY <1>2, SendSnapshotKeeps, SendDeltaKeeps
<1>3. ASSUME NEW t \in Tickers, ChangeUnheard(t) \/ SendOdd(t)
      PROVE  FeedInv'
  BY <1>3, ChangeUnheardKeeps, SendOddKeeps
<1> QED
  BY <1>1, <1>2, <1>3, ConnectKeeps, DisconnectKeeps, FaultKeeps, ReceiveKeeps DEF FeedNext

\* The exchange's messages and the consumer's books stay consistent, whatever is
\* lost, repeated or cut off.
THEOREM FeedInvariant == FeedSpec => []FeedInv
<1>1. FeedInit => FeedInv
  BY FeedAssumption, FeedInvInit
<1>2. FeedInv /\ [FeedNext]_feedVars => FeedInv'
  BY FeedAssumption, FeedNextKeeps
<1> QED
  BY <1>1, <1>2, PTL DEF FeedSpec

\* A book that answers is the exchange's, for any number of markets and changes,
\* and however messages are lost or repeated - unless a snapshot came twice
\* (kalshi/ws.py's numbering, orderbook.py's refusals).
THEOREM BooksAreRight == FeedSpec => []AnsweringBookIsRight
<1>1. ASSUME FeedInv PROVE AnsweringBookIsRight
  <2>1. SUFFICES ASSUME NEW t \in Tickers \ regressed, Answers(book[t])
                 PROVE  book[t].value = RealAt(t, last)
    BY DEF AnsweringBookIsRight, Known, Answers
  <2> DEFINE k == book[t].seq
             I == {i \in 1 .. last : sent[i].ticker = t}
  <2>2. last \in Nat /\ StandsAt(book[t], t, last)
    BY <1>1, <2>1 DEF FeedInv, BooksKeepUp, FeedTypeOK
  <2>3. k \in I /\ \A i \in I : i <= k
    BY <2>2 DEF StandsAt, Silent
  <2>4. \A i \in I : (\A j \in I : j <= i) => i = k
    BY <2>2, <2>3
  <2>5. k = CHOOSE i \in I : \A j \in I : j <= i
    BY <2>3, <2>4
  <2> QED
    BY <2>2, <2>5 DEF RealAt, StandsAt
<1> QED
  BY <1>1, FeedInvariant, PTL

\* Every book that answers nothing is counted by the heal loop.
THEOREM StaleBooksAwaited == FeedSpec => []StaleIsAwaited
<1>1. FeedInv => StaleIsAwaited
  BY DEF FeedInv
<1> QED
  BY <1>1, FeedInvariant, PTL

-------------------------------------------------------------------------------
(* BookFeed implements BookView *)

LEMMA ContentIsNat ==
    ASSUME FeedAssumption, FeedInv
    PROVE  /\ last \in Nat /\ Len(sent) \in Nat
           /\ \A t \in Tickers : real[t] \in Nat /\ book[t].value \in Nat
           /\ \A i \in 1 .. Len(sent) : sent[i].ticker \in Tickers /\ sent[i].value \in Nat
<1>1. /\ real \in [Tickers -> Content] /\ sent \in Seq(Message) /\ last \in 0 .. Len(sent)
      /\ book \in [Tickers -> Book \cup {Absent}]
  BY DEF FeedInv, FeedTypeOK
<1>2. ASSUME NEW b \in Book \cup {Absent} PROVE b.value \in Nat
  BY DEF Book, Absent
<1>3. ASSUME NEW i \in 1 .. Len(sent) PROVE sent[i].ticker \in Tickers /\ sent[i].value \in Nat
  <2>1. sent[i] \in Message
    BY <1>1
  <2> QED
    BY <2>1, FeedAssumption DEF Message, Content, FeedAssumption
<1>4. \A t \in Tickers : real[t] \in Nat
  BY <1>1, FeedAssumption DEF Content, FeedAssumption
<1> QED
  BY <1>1, <1>2, <1>3, <1>4

(* The exchange tells in order, and no book gets ahead *)

LEMMA ViewInvInit ==
    ASSUME FeedAssumption, FeedInit
    PROVE  ViewInv
<1>1. FeedInv
  BY FeedInvInit
<1>2. sent = <<>> /\ \A t \in Tickers : real[t] = 0 /\ book[t].value = 0
  BY DEF FeedInit, Absent
<1> QED
  BY <1>1, <1>2 DEF ViewInv, MessagesInOrder, NoneAhead

\* The exchange's books only advance, and are told as they are.
LEMMA ToldInOrder ==
    ASSUME FeedAssumption, ViewInv, FeedInv', UNCHANGED consumer,
           NEW m \in Message, sent' = Append(sent, m), m.value = real'[m.ticker],
           \A t \in Tickers : real[t] <= real'[t],
           m.kind = "delta" => real[m.ticker] < m.value
    PROVE  ViewInv'
<1> DEFINE n == Len(sent)
<1>1. /\ n \in Nat /\ last \in Nat
      /\ \A t \in Tickers : real[t] \in Nat /\ real'[t] \in Nat /\ book[t].value \in Nat
      /\ \A i \in 1 .. n : sent[i].ticker \in Tickers /\ sent[i].value \in Nat
  BY ContentIsNat DEF ViewInv, FeedInv, FeedTypeOK, Content, FeedAssumption
<1>2. m.ticker \in Tickers /\ m.value \in Nat
  BY FeedAssumption DEF Message, Content, FeedAssumption
<1>3. /\ Len(sent') = n + 1 /\ sent'[n + 1] = m
      /\ \A i \in 1 .. n : sent'[i] = sent[i]
  BY DEF ViewInv, FeedInv, FeedTypeOK
<1>4. UNCHANGED <<last, book>>
  BY DEF consumer
<1>5. /\ MessagesInOrder /\ NoneAhead
  BY DEF ViewInv
<1>6. \A i \in 1 .. n : sent[i].value <= real[sent[i].ticker]
  BY <1>5 DEF MessagesInOrder
<1> HIDE DEF n
<1>7. MessagesInOrder'
  <2>1. ASSUME NEW i \in 1 .. (n + 1)
        PROVE  sent'[i].value <= real'[sent'[i].ticker]
    <3>1. CASE i = n + 1
      <4>1. sent'[i] = m
        BY <1>3, <3>1
      <4>2. m.value <= real'[m.ticker]
        BY <1>2
      <4> QED
        BY <4>1, <4>2
    <3>2. CASE i \in 1 .. n
      BY <1>1, <1>3, <1>6, <3>2
    <3>3. i = n + 1 \/ i \in 1 .. n
      BY <1>1
    <3> QED
      BY <3>1, <3>2, <3>3
  <2>2. ASSUME NEW i \in 1 .. (n + 1), NEW j \in (i + 1) .. (n + 1),
               sent'[i].ticker = sent'[j].ticker
        PROVE  /\ sent'[i].value <= sent'[j].value
               /\ sent'[j].kind = "delta" => sent'[i].value < sent'[j].value
    <3>1. i \in 1 .. n /\ sent'[i] = sent[i]
      BY <1>1, <1>3
    <3>2. CASE j = n + 1
      <4>1. sent[i].ticker = m.ticker /\ sent'[j] = m
        BY <1>3, <2>2, <3>1, <3>2
      <4>2. sent[i].value <= real[m.ticker] /\ real[m.ticker] <= m.value
        BY <1>2, <1>6, <3>1, <4>1
      <4> QED
        BY <1>1, <1>2, <3>1, <4>1, <4>2
    <3>3. CASE j # n + 1
      <4>1. j \in (i + 1) .. n /\ sent'[j] = sent[j]
        BY <1>1, <1>3, <3>1, <3>3
      <4> QED
        BY <1>5, <2>2, <3>1, <4>1 DEF MessagesInOrder, n
    <3> QED
      BY <3>2, <3>3
  <2> QED
    BY <1>3, <2>1, <2>2 DEF MessagesInOrder
<1>8. NoneAhead'
  <2>1. ASSUME NEW t \in Tickers PROVE book[t].value <= real[t] /\ book[t].value <= real'[t]
    BY <1>1, <1>5 DEF NoneAhead
  <2>2. ASSUME NEW t \in Tickers, NEW i \in 1 .. (n + 1), sent'[i].ticker = t
        PROVE  /\ i > last => book[t].value <= sent'[i].value
               /\ Answers(book[t]) /\ sent'[i].kind = "delta" /\ i > book[t].seq
                    => book[t].value < sent'[i].value
    <3>1. CASE i = n + 1
      <4>1. sent'[i] = m
        BY <1>3, <3>1
      <4>2. m.ticker = t
        BY <2>2, <4>1
      <4>3. book[t].value <= m.value
        BY <2>1, <4>2
      <4>4. m.kind = "delta" => book[t].value < m.value
        <5>1. /\ book[t].value <= real[t]
              /\ m.kind = "delta" => real[t] < m.value
          BY <2>1, <4>2
        <5>2. book[t].value \in Nat /\ real[t] \in Nat
          BY <1>1
        <5> QED
          BY <1>2, <5>1, <5>2
      <4> QED
        BY <4>1, <4>3, <4>4
    <3>2. CASE i \in 1 .. n
      BY <1>3, <1>5, <2>2, <3>2 DEF NoneAhead, n
    <3>3. i = n + 1 \/ i \in 1 .. n
      BY <1>1
    <3> QED
      BY <3>1, <3>2, <3>3
  <2> QED
    BY <1>3, <1>4, <2>1, <2>2 DEF NoneAhead, Answers
<1> QED
  BY <1>7, <1>8 DEF ViewInv

\* Steps that tell nothing.
LEMMA NothingTold ==
    ASSUME FeedAssumption, ViewInv, FeedInv', UNCHANGED <<consumer, sent>>,
           \A t \in Tickers : real[t] <= real'[t]
    PROVE  ViewInv'
<1>1. /\ \A t \in Tickers : real[t] \in Nat /\ real'[t] \in Nat /\ book[t].value \in Nat
      /\ \A i \in 1 .. Len(sent) : sent[i].ticker \in Tickers /\ sent[i].value \in Nat
  BY ContentIsNat DEF ViewInv, FeedInv, FeedTypeOK, Content, FeedAssumption
<1>2. UNCHANGED <<last, book, sent>>
  BY DEF consumer
<1>3. MessagesInOrder'
  <2>1. \A i \in 1 .. Len(sent) : sent[i].value <= real'[sent[i].ticker]
    BY <1>1 DEF ViewInv, MessagesInOrder
  <2> QED
    BY <1>2, <2>1 DEF ViewInv, MessagesInOrder
<1>4. NoneAhead'
  <2>1. \A t \in Tickers : book[t].value <= real'[t]
    BY <1>1 DEF ViewInv, NoneAhead
  <2> QED
    BY <1>2, <2>1 DEF ViewInv, NoneAhead, Answers
<1> QED
  BY <1>3, <1>4 DEF ViewInv

(* What a step of the consumer does to the books *)

\* The book of u is as it was, or has fallen silent.
Kept(u) == book'[u].value = book[u].value /\ (Answers(book'[u]) => book'[u] = book[u])

Rests ==
    /\ last <= last' /\ regressed' = regressed
    /\ \A u \in Tickers : Kept(u)

\* The n-th message was a snapshot.
Shows(n) ==
    /\ sent[n].kind = "snapshot"
    /\ last' = IF Behind(n) THEN last ELSE n
    /\ regressed' = Regressed(sent[n], n)
    /\ book'[sent[n].ticker] = [value |-> sent[n].value, seq |-> n, stale |-> FALSE]
    /\ \A u \in Tickers \ {sent[n].ticker} : Kept(u)

\* It was a delta, and its book took it.
Follows(n) ==
    /\ sent[n].kind = "delta" /\ Answers(book[sent[n].ticker]) /\ n > book[sent[n].ticker].seq
    /\ last' = IF Behind(n) THEN last ELSE n
    /\ regressed' = regressed
    /\ book'[sent[n].ticker] =
          [value |-> book[sent[n].ticker].value + 1, seq |-> n, stale |-> FALSE]
    /\ \A u \in Tickers \ {sent[n].ticker} : book'[u] = book[u]

LEMMA ResyncSilences ==
    ASSUME FeedInv
    PROVE  /\ Resync.book \in [Tickers -> Book \cup {Absent}]
           /\ \A u \in Tickers : Resync.book[u].value = book[u].value /\ ~Answers(Resync.book[u])
<1>1. book \in [Tickers -> Book \cup {Absent}]
  BY DEF FeedInv, FeedTypeOK
<1>2. Resync.book = [t \in Tickers |-> MarkStale(book[t])]
  BY DEF Resync
<1>3. ASSUME NEW b \in Book \cup {Absent} PROVE MarkStale(b).value = b.value
  <2>1. CASE b = Absent
    BY <2>1 DEF MarkStale
  <2>2. CASE b # Absent
    BY <2>2 DEF MarkStale, Book
  <2> QED
    BY <2>1, <2>2
<1> QED
  BY <1>1, <1>2, <1>3, ResyncIs

\* What handling a message leaves of books B.
LEMMA HandledBooks ==
    ASSUME FeedInv, NEW n \in 1 .. Len(sent), NEW B \in [Tickers -> Book \cup {Absent}],
           NEW W, NEW H, H = Handle(sent[n], n, [book |-> B, awaiting |-> W]),
           NEW t \in Tickers, t = sent[n].ticker
    PROVE  /\ \A u \in Tickers \ {t} : H.book[u] = B[u]
           /\ sent[n].kind = "snapshot" =>
                 H.book[t] = [value |-> sent[n].value, seq |-> n, stale |-> FALSE]
           /\ sent[n].kind = "delta" /\ Takes(B[t], n) =>
                 H.book[t] = [value |-> B[t].value + 1, seq |-> n, stale |-> FALSE]
           /\ sent[n].kind # "snapshot" /\ ~(sent[n].kind = "delta" /\ Takes(B[t], n)) =>
                 H.book[t].value = B[t].value /\ (Answers(H.book[t]) => H.book[t] = B[t])
<1>1. sent[n].kind \in {"snapshot", "delta", "odd"} /\ n \in Nat
  <2>1. sent[n] \in Message
    BY DEF FeedInv, FeedTypeOK
  <2> QED
    BY <2>1 DEF Message
<1>2. CASE sent[n].kind = "snapshot"
  <2>1. H.book = [B EXCEPT ![t] = [value |-> sent[n].value, seq |-> n, stale |-> FALSE]]
    BY <1>2 DEF Handle, ApplySnapshot
  <2> QED
    BY <1>2, <2>1
<1>3. CASE sent[n].kind = "delta" /\ Takes(B[t], n)
  <2>1. B[t] \in Book /\ B[t].stale = FALSE /\ B[t].value + 1 \in Nat
    BY <1>3 DEF Takes, Book
  <2>2. H.book = [B EXCEPT ![t] = [B[t] EXCEPT !.value = B[t].value + 1, !.seq = n]]
    BY <1>3 DEF Handle, ApplyDelta
  <2>3. [B[t] EXCEPT !.value = B[t].value + 1, !.seq = n]
          = [value |-> B[t].value + 1, seq |-> n, stale |-> B[t].stale]
    BY <1>1, <2>1, BookWithContent, ZenonT(60)
  <2>4. H.book = [B EXCEPT ![t] = [value |-> B[t].value + 1, seq |-> n, stale |-> FALSE]]
    BY <2>1, <2>2, <2>3
  <2> QED
    BY <1>3, <2>4
<1>4. CASE sent[n].kind = "delta" /\ ~Takes(B[t], n)
  <2>1. H.book = B
    BY <1>4 DEF Handle, ApplyDelta
  <2> QED
    BY <1>4, <2>1
<1>5. CASE sent[n].kind = "odd" /\ Takes(B[t], n)
  <2>1. B[t] \in Book
    BY <1>5 DEF Takes
  <2>2. H.book = [B EXCEPT ![t] = [B[t] EXCEPT !.stale = TRUE]]
    BY <1>5 DEF Handle, ApplyOdd
  <2>3. [B[t] EXCEPT !.stale = TRUE] = [value |-> B[t].value, seq |-> B[t].seq, stale |-> TRUE]
    BY <2>1, BookWithStale
  <2>4. H.book[t] = [value |-> B[t].value, seq |-> B[t].seq, stale |-> TRUE]
    BY <2>2, <2>3
  <2>5. H.book[t].value = B[t].value /\ ~Answers(H.book[t])
    BY <2>4 DEF Answers
  <2> QED
    BY <1>5, <2>2, <2>5
<1>6. CASE sent[n].kind = "odd" /\ ~Takes(B[t], n)
  <2>1. H.book = B
    BY <1>6 DEF Handle, ApplyOdd
  <2> QED
    BY <1>6, <2>1
<1> QED
  BY <1>1, <1>2, <1>3, <1>4, <1>5, <1>6

LEMMA ReceivedIsOne ==
    ASSUME FeedAssumption, FeedInv, Receive
    PROVE  /\ UNCHANGED <<real, sent>>
           /\ Rests \/ \E n \in 1 .. Len(sent) : Shows(n) \/ Follows(n)
<1> DEFINE n == Head(wire)
           t == sent[n].ticker
<1>1. n \in 0 .. Len(sent)
  BY DEF FeedInv, FeedTypeOK, Receive
<1>2. n # 0 => n \in 1 .. Len(sent) /\ t \in Tickers
  BY <1>1, ContentIsNat
<1>3. /\ UNCHANGED <<real, sent>>
      /\ last' = IF n = 0 \/ Behind(n) THEN last ELSE n
      /\ regressed' = IF n = 0 THEN regressed ELSE Regressed(sent[n], n)
  BY DEF Receive, exchange
<1> DEFINE B == IF Gap(n) THEN Resync.book ELSE book
           W == IF Gap(n) THEN Resync.awaiting ELSE awaiting
           H == Handle(sent[n], n, [book |-> B, awaiting |-> W])
<1>4. /\ n = 0 => book' = Resync.book
      /\ n # 0 => book' = H.book
  <2>1. Resync = [book |-> Resync.book, awaiting |-> Resync.awaiting]
    BY DEF Resync
  <2> QED
    BY <2>1 DEF Receive
<1>5. /\ B \in [Tickers -> Book \cup {Absent}]
      /\ \A u \in Tickers : B[u].value = book[u].value /\ (Answers(B[u]) => B[u] = book[u])
      /\ ~Gap(n) => B = book
      /\ Gap(n) => \A u \in Tickers : ~Answers(B[u])
  <2>1. CASE Gap(n)
    BY <2>1, ResyncSilences
  <2>2. CASE ~Gap(n)
    BY <2>2 DEF FeedInv, FeedTypeOK
  <2> QED
    BY <2>1, <2>2
<1> HIDE DEF B, W
<1>6. last <= last'
  <2>1. n = 0 \/ Behind(n) \/ last < n
    BY <1>1, ContentIsNat, FeedAssumption DEF Behind, FeedAssumption
  <2> QED
    BY <1>1, <1>3, <2>1, ContentIsNat
<1>7. CASE n = 0
  <2>1. \A u \in Tickers : Kept(u)
    BY <1>4, <1>7, ResyncSilences DEF Kept
  <2> QED
    BY <1>3, <1>6, <1>7, <2>1 DEF Rests
<1>8. CASE n # 0
  <2> HIDE DEF n
  <2>1. n \in 1 .. Len(sent) /\ t \in Tickers
    BY <1>2, <1>8
  <2>2. /\ \A u \in Tickers \ {t} : book'[u] = B[u]
        /\ sent[n].kind = "snapshot" =>
              book'[t] = [value |-> sent[n].value, seq |-> n, stale |-> FALSE]
        /\ sent[n].kind = "delta" /\ Takes(B[t], n) =>
              book'[t] = [value |-> B[t].value + 1, seq |-> n, stale |-> FALSE]
        /\ sent[n].kind # "snapshot" /\ ~(sent[n].kind = "delta" /\ Takes(B[t], n)) =>
              book'[t].value = B[t].value /\ (Answers(book'[t]) => book'[t] = B[t])
    <3> HIDE DEF H
    <3>1. H = Handle(sent[n], n, [book |-> B, awaiting |-> W])
      BY DEF H
    <3>2. book' = H.book
      BY <1>4, <1>8
    <3> HIDE DEF t
    <3>3. t = sent[n].ticker
      BY DEF t
    <3> QED
      BY <1>5, <2>1, <3>1, <3>2, <3>3, HandledBooks
  <2>3. \A u \in Tickers \ {t} : Kept(u)
    BY <1>5, <2>2 DEF Kept
  <2>4. CASE sent[n].kind = "snapshot"
    <3>1. Shows(n)
      BY <1>3, <1>8, <2>2, <2>3, <2>4 DEF Shows
    <3> QED
      BY <1>3, <2>1, <3>1
  <2>5. CASE sent[n].kind = "delta" /\ Takes(B[t], n)
    <3>1. Answers(B[t]) /\ n > B[t].seq
      BY <2>5 DEF Takes, Answers
    <3>2. B = book
      BY <1>5, <2>1, <3>1
    <3>3. regressed' = regressed
      BY <1>3, <1>8, <2>5 DEF Regressed
    <3>4. Follows(n)
      BY <1>3, <1>8, <2>2, <2>5, <3>1, <3>2, <3>3 DEF Follows
    <3> QED
      BY <1>3, <2>1, <3>4
  <2>6. CASE sent[n].kind # "snapshot" /\ ~(sent[n].kind = "delta" /\ Takes(B[t], n))
    <3>1. Kept(t)
      BY <1>5, <2>1, <2>2, <2>6 DEF Kept
    <3>2. regressed' = regressed
      BY <1>3, <1>8, <2>6 DEF Regressed
    <3>3. Rests
      BY <1>6, <2>3, <3>1, <3>2 DEF Rests
    <3> QED
      BY <1>3, <3>3
  <2> QED
    BY <2>4, <2>5, <2>6
<1> QED
  BY <1>7, <1>8

LEMMA ReceiveAhead ==
    ASSUME FeedAssumption, ViewInv, FeedInv', Receive
    PROVE  ViewInv'
<1>1. FeedInv /\ MessagesInOrder /\ NoneAhead
  BY DEF ViewInv
<1>2. /\ last \in Nat /\ last' \in Nat /\ Len(sent) \in Nat
      /\ \A u \in Tickers : real[u] \in Nat /\ book[u].value \in Nat
      /\ \A i \in 1 .. Len(sent) : sent[i].ticker \in Tickers /\ sent[i].value \in Nat
  <2>1. last' \in Nat
    BY DEF FeedInv, FeedTypeOK
  <2> QED
    BY <1>1, <2>1, ContentIsNat
<1>3. /\ UNCHANGED <<real, sent>>
      /\ Rests \/ \E n \in 1 .. Len(sent) : Shows(n) \/ Follows(n)
  BY <1>1, ReceivedIsOne
\* The claim of NoneAhead about the book of u.
<1> DEFINE Behindhand(u) ==
        /\ book'[u].value <= real[u]
        /\ \A i \in 1 .. Len(sent) : sent[i].ticker = u =>
              /\ i > last' => book'[u].value <= sent[i].value
              /\ Answers(book'[u]) /\ sent[i].kind = "delta" /\ i > book'[u].seq
                    => book'[u].value < sent[i].value
<1>4. ASSUME NEW u \in Tickers, Kept(u) \/ book'[u] = book[u], last <= last'
      PROVE  Behindhand(u)
  <2>1. book'[u].value = book[u].value /\ (Answers(book'[u]) => book'[u] = book[u])
    BY <1>4 DEF Kept
  <2>2. \A i \in 1 .. Len(sent) : i > last' => i > last
    BY <1>2, <1>4
  <2>3. book'[u].value <= real[u]
    BY <1>1, <2>1 DEF NoneAhead
  <2>4. ASSUME NEW i \in 1 .. Len(sent), sent[i].ticker = u
        PROVE  /\ i > last' => book'[u].value <= sent[i].value
               /\ Answers(book'[u]) /\ sent[i].kind = "delta" /\ i > book'[u].seq
                     => book'[u].value < sent[i].value
    <3>1. /\ i > last => book[u].value <= sent[i].value
          /\ Answers(book[u]) /\ sent[i].kind = "delta" /\ i > book[u].seq
                => book[u].value < sent[i].value
      BY <1>1, <2>4 DEF NoneAhead
    <3>2. i > last' => book'[u].value <= sent[i].value
      BY <2>1, <2>2, <3>1
    <3>3. Answers(book'[u]) => book'[u] = book[u]
      BY <2>1
    <3> QED
      BY <3>1, <3>2, <3>3
  <2> QED
    BY <2>3, <2>4
<1>5. ASSUME Rests
      PROVE  \A u \in Tickers : Behindhand(u)
  <2> HIDE DEF Behindhand
  <2> QED
    BY <1>4, <1>5 DEF Rests
<1>6. ASSUME NEW n \in 1 .. Len(sent), last' = IF Behind(n) THEN last ELSE n
      PROVE  last <= last' /\ n <= last'
  BY <1>2, <1>6, FeedAssumption DEF Behind, FeedAssumption
<1>7. ASSUME NEW n \in 1 .. Len(sent), Shows(n)
      PROVE  \A u \in Tickers : Behindhand(u)
  <2> DEFINE t == sent[n].ticker
  <2>1. last <= last' /\ n <= last'
    BY <1>6, <1>7 DEF Shows
  <2>2. book'[t].value = sent[n].value /\ book'[t].seq = n
    BY <1>7 DEF Shows
  <2>3. sent[n].value <= real[t]
    BY <1>1 DEF MessagesInOrder
  <2>4. ASSUME NEW i \in 1 .. Len(sent), sent[i].ticker = t, i > n
        PROVE  /\ sent[n].value <= sent[i].value
               /\ sent[i].kind = "delta" => sent[n].value < sent[i].value
    <3>1. i \in (n + 1) .. Len(sent)
      BY <2>4
    <3> QED
      BY <1>1, <2>4, <3>1 DEF MessagesInOrder
  <2>5. \A i \in 1 .. Len(sent) : i > last' => i > n
    BY <1>2, <2>1
  <2>6. Behindhand(t)
    BY <2>2, <2>3, <2>4, <2>5
  <2>7. \A u \in Tickers \ {t} : Behindhand(u)
    BY <1>4, <1>7, <2>1 DEF Shows
  <2> QED
    BY <2>6, <2>7
<1>8. ASSUME NEW n \in 1 .. Len(sent), Follows(n)
      PROVE  \A u \in Tickers : Behindhand(u)
  <2> DEFINE t == sent[n].ticker
  <2>1. last <= last' /\ n <= last'
    BY <1>6, <1>8 DEF Follows
  <2>2. book'[t].value = book[t].value + 1 /\ book'[t].seq = n
    BY <1>8 DEF Follows
  <2>3. book[t].value < sent[n].value
    BY <1>1, <1>2, <1>8 DEF Follows, NoneAhead
  <2>4. sent[n].value <= real[t]
    BY <1>1 DEF MessagesInOrder
  <2>5. book'[t].value <= sent[n].value /\ book'[t].value \in Nat
    BY <1>2, <2>2, <2>3
  <2>6. book'[t].value <= real[t]
    BY <1>2, <2>4, <2>5
  <2>7. ASSUME NEW i \in 1 .. Len(sent), sent[i].ticker = t, i > n
        PROVE  /\ book'[t].value <= sent[i].value
               /\ sent[i].kind = "delta" => book'[t].value < sent[i].value
    <3>1. i \in (n + 1) .. Len(sent)
      BY <2>7
    <3>2. /\ sent[n].value <= sent[i].value
          /\ sent[i].kind = "delta" => sent[n].value < sent[i].value
      BY <1>1, <2>7, <3>1 DEF MessagesInOrder
    <3> QED
      BY <1>2, <2>5, <3>2
  <2>8. \A i \in 1 .. Len(sent) : i > last' => i > n
    BY <1>2, <2>1
  <2>9. Behindhand(t)
    BY <2>2, <2>6, <2>7, <2>8
  <2>10. \A u \in Tickers \ {t} : Behindhand(u)
    BY <1>4, <1>8, <2>1 DEF Follows
  <2> HIDE DEF Behindhand, t
  <2> QED
    BY <2>9, <2>10
<1>9. \A u \in Tickers : Behindhand(u)
  <2> HIDE DEF Behindhand
  <2> QED
    BY <1>3, <1>5, <1>7, <1>8
<1>10. NoneAhead'
  BY <1>3, <1>9 DEF NoneAhead, Answers
<1>11. MessagesInOrder'
  BY <1>1, <1>3 DEF MessagesInOrder
<1> QED
  BY <1>10, <1>11 DEF ViewInv

\* A new connection has told nothing yet, and silences every book.
LEMMA ConnectAhead ==
    ASSUME FeedAssumption, ViewInv, FeedInv', Connect
    PROVE  ViewInv'
<1>1. sent' = <<>> /\ book' = Resync.book /\ real' = real
  BY DEF Connect
<1>2. \A t \in Tickers : book'[t].value = book[t].value
  BY <1>1, ResyncSilences DEF ViewInv
<1> QED
  BY <1>1, <1>2 DEF ViewInv, MessagesInOrder, NoneAhead

\* The exchange's own steps, and those of the connection that say nothing.
LEMMA OthersAhead ==
    ASSUME FeedAssumption, ViewInv, FeedInv', [FeedNext]_feedVars
    PROVE  \/ Connect \/ Receive
           \/ /\ ViewInv' /\ UNCHANGED consumer
              /\ real' = real \/ \E t \in Tickers : real' = [real EXCEPT ![t] = @ + 1]
<1>1. /\ FeedInv /\ real \in [Tickers -> Content] /\ FeedTypeOK'
      /\ \A t \in Tickers : real[t] \in Nat /\ real[t] \in Content
      /\ sent \in Seq(Message)
  BY FeedAssumption DEF ViewInv, FeedInv, FeedTypeOK, Content, FeedAssumption
<1>2. ASSUME UNCHANGED <<consumer, sent, real>>
      PROVE  ViewInv'
  BY <1>1, <1>2, NothingTold
<1>3. ASSUME NEW t \in Tickers, NEW arrives \in BOOLEAN, SendSnapshot(t, arrives)
      PROVE  ViewInv' /\ UNCHANGED consumer /\ real' = real
  <2> DEFINE m == [kind |-> "snapshot", ticker |-> t, value |-> real[t]]
  <2>1. UNCHANGED consumer /\ real' = real /\ sent' = Append(sent, m)
    BY <1>3 DEF SendSnapshot, Emit
  <2>2. m \in Message /\ m.ticker = t /\ m.value = real'[t] /\ m.kind # "delta"
    BY <1>1, <2>1 DEF Message
  <2>3. \A u \in Tickers : real[u] <= real'[u]
    BY <1>1, <2>1
  <2> HIDE DEF m
  <2> QED
    BY <2>1, <2>2, <2>3, ToldInOrder
<1>4. ASSUME NEW t \in Tickers, NEW arrives \in BOOLEAN, SendDelta(t, arrives)
      PROVE  ViewInv' /\ UNCHANGED consumer /\ real' = [real EXCEPT ![t] = @ + 1]
  <2> DEFINE m == [kind |-> "delta", ticker |-> t, value |-> real[t] + 1]
  <2>1. /\ UNCHANGED consumer /\ sent' = Append(sent, m)
        /\ real' = [real EXCEPT ![t] = @ + 1] /\ real[t] < MaxChanges
    BY <1>4 DEF SendDelta, Emit
  <2>2. m \in Message /\ m.ticker = t /\ m.value = real'[t] /\ real[t] < m.value
    BY <1>1, <2>1, FeedAssumption DEF Message, Content, FeedAssumption
  <2>3. \A u \in Tickers : real[u] <= real'[u]
    BY <1>1, <2>1
  <2> HIDE DEF m
  <2> QED
    BY <2>1, <2>2, <2>3, ToldInOrder
<1>5. ASSUME NEW t \in Tickers, ChangeUnheard(t)
      PROVE  ViewInv' /\ UNCHANGED consumer /\ real' = [real EXCEPT ![t] = @ + 1]
  <2>1. UNCHANGED <<consumer, sent>> /\ real' = [real EXCEPT ![t] = @ + 1]
    BY <1>5 DEF ChangeUnheard
  <2>2. \A u \in Tickers : real[u] <= real'[u]
    BY <1>1, <2>1
  <2> QED
    BY <2>1, <2>2, NothingTold
<1>6. ASSUME NEW t \in Tickers, SendOdd(t)
      PROVE  ViewInv' /\ UNCHANGED consumer /\ real' = real
  <2> DEFINE m == [kind |-> "odd", ticker |-> t, value |-> real[t]]
  <2>1. UNCHANGED consumer /\ real' = real /\ sent' = Append(sent, m)
    BY <1>6 DEF SendOdd
  <2>2. m \in Message /\ m.ticker = t /\ m.value = real'[t] /\ m.kind # "delta"
    BY <1>1, <2>1 DEF Message
  <2>3. \A u \in Tickers : real[u] <= real'[u]
    BY <1>1, <2>1
  <2> HIDE DEF m
  <2> QED
    BY <2>1, <2>2, <2>3, ToldInOrder
<1>7. ASSUME \/ UNCHANGED feedVars \/ Disconnect \/ Heal \/ Interval \/ SendError
             \/ \E n \in 1 .. Len(sent) : Replay(n)
      PROVE  UNCHANGED <<consumer, sent, real>>
  BY <1>7 DEF feedVars, consumer, Disconnect, Heal, Interval, SendError, Replay,
              Dropped, exchange
<1> QED
  BY <1>2, <1>3, <1>4, <1>5, <1>6, <1>7 DEF FeedNext

(* BookView's steps *)

shownNow == [t \in Tickers |-> book[t].value]
answeringNow == {t \in Tickers : Known(book, t) /\ ~book[t].stale}

LEMMA ReceiveViews ==
    ASSUME FeedAssumption, ViewInv, Receive
    PROVE  View!Next
<1>1. /\ FeedInv /\ NoneAhead /\ MessagesInOrder /\ regressed \subseteq Tickers
      /\ \A u \in Tickers : real[u] \in Nat /\ book[u].value \in Nat
      /\ last \in Nat
      /\ \A i \in 1 .. Len(sent) : sent[i].ticker \in Tickers /\ sent[i].value \in Nat
  BY ContentIsNat DEF ViewInv, FeedInv, FeedTypeOK
<1>2. /\ UNCHANGED <<real, sent>>
      /\ Rests \/ \E n \in 1 .. Len(sent) : Shows(n) \/ Follows(n)
  BY <1>1, ReceivedIsOne
<1>3. answeringNow = {t \in Tickers : Answers(book[t])}
      /\ answeringNow' = {t \in Tickers : Answers(book'[t])}
  BY DEF answeringNow, Known, Answers
<1>4. CASE Rests
  <2>1. shownNow' = shownNow
    BY <1>4 DEF Rests, Kept, shownNow
  <2>2. answeringNow' \subseteq answeringNow
    BY <1>3, <1>4 DEF Rests, Kept
  <2>3. View!Hush
    BY <1>2, <1>4, <2>1, <2>2 DEF View!Hush, Rests, shownNow, answeringNow
  <2> QED
    BY <2>3 DEF View!Next
<1>5. ASSUME NEW n \in 1 .. Len(sent), Shows(n)
      PROVE  View!Next
  <2>0. PICK t \in Tickers : t = sent[n].ticker
    BY <1>1
  <2> DEFINE v == sent[n].value
  <2>1. v \in Nat /\ v <= real[t]
    BY <1>1, <2>0 DEF MessagesInOrder
  <2>2. /\ book'[t].value = v /\ Answers(book'[t])
        /\ \A u \in Tickers \ {t} : Kept(u)
    BY <1>5, <2>0 DEF Shows, Answers, Absent
  <2>3. t \in answeringNow' /\ answeringNow' \subseteq answeringNow \cup {t}
    BY <1>3, <2>1, <2>2 DEF Kept
  <2>4. shownNow' = [shownNow EXCEPT ![t] = v]
    BY <2>1, <2>2 DEF shownNow, Kept
  <2>5. regressed' = IF Behind(n) THEN regressed \cup {t} ELSE regressed \ {t}
    BY <1>5, <2>0 DEF Shows, Regressed
  <2>6. ~Behind(n) => v \in shownNow[t] .. real[t]
    <3>1. ~Behind(n) => n > last
      BY <1>1, FeedAssumption DEF Behind, FeedAssumption
    <3>2. ~Behind(n) => book[t].value <= v
      BY <1>1, <2>0, <2>1, <3>1 DEF NoneAhead
    <3> QED
      BY <1>1, <2>1, <3>2 DEF shownNow
  <2>7. v \in 0 .. real[t]
    BY <1>1, <2>1
  <2> HIDE DEF v
  <2>8. ~Behind(n) => View!Refresh(t)
    BY <1>2, <2>3, <2>4, <2>5, <2>6
       DEF View!Refresh, View!Speaks, shownNow, answeringNow
  <2>9. Behind(n) => View!TakeBack(t)
    BY <1>2, <2>3, <2>4, <2>5, <2>7
       DEF View!TakeBack, View!Speaks, shownNow, answeringNow
  <2> QED
    BY <2>8, <2>9 DEF View!Next
<1>6. ASSUME NEW n \in 1 .. Len(sent), Follows(n)
      PROVE  View!Next
  <2>0. PICK t \in Tickers : t = sent[n].ticker
    BY <1>1
  <2>1. Answers(book[t])
    BY <1>6, <2>0 DEF Follows
  <2>2. /\ book'[t].value = book[t].value + 1 /\ Answers(book'[t])
        /\ \A u \in Tickers \ {t} : book'[u] = book[u]
    BY <1>6, <2>0 DEF Follows, Answers, Absent
  <2>3. book[t].value < real[t]
    <3>1. book[t].value < sent[n].value /\ sent[n].value <= real[t]
      BY <1>1, <1>6, <2>0, <2>1 DEF Follows, NoneAhead, MessagesInOrder
    <3> QED
      BY <1>1, <2>1, <3>1
  <2>4. answeringNow' = answeringNow /\ t \in answeringNow
    BY <1>3, <2>1, <2>2
  <2>5. /\ shownNow' = [shownNow EXCEPT ![t] = shownNow[t] + 1]
        /\ shownNow[t] < real[t]
    BY <2>1, <2>2, <2>3 DEF shownNow
  <2>6. View!Advance(t)
    BY <1>2, <1>6, <2>4, <2>5 DEF View!Advance, Follows, shownNow, answeringNow
  <2> QED
    BY <2>6 DEF View!Next
<1> QED
  BY <1>2, <1>4, <1>5, <1>6

LEMMA FeedNextViews ==
    ASSUME FeedAssumption, ViewInv, ViewInv', [FeedNext]_feedVars
    PROVE  [View!Next]_(View!vars)
<1>1. CASE Connect
  <2>1. book' = Resync.book /\ UNCHANGED <<real, regressed>>
    BY <1>1 DEF Connect
  <2>2. \A t \in Tickers : book'[t].value = book[t].value /\ ~Answers(book'[t])
    BY <2>1, ResyncSilences DEF ViewInv
  <2>3. shownNow' = shownNow /\ answeringNow' = {}
    BY <2>2 DEF shownNow, answeringNow, Answers, Known
  <2>4. View!Hush
    BY <2>1, <2>3 DEF View!Hush, shownNow, answeringNow
  <2> QED
    BY <2>4 DEF View!Next
<1>2. CASE Receive
  BY <1>2, ReceiveViews
<1>3. ASSUME UNCHANGED consumer,
             real' = real \/ \E t \in Tickers : real' = [real EXCEPT ![t] = @ + 1]
      PROVE  [View!Next]_(View!vars)
  <2>1. shownNow' = shownNow /\ answeringNow' = answeringNow /\ regressed' = regressed
    BY <1>3 DEF consumer, shownNow, answeringNow, Known
  <2>2. CASE real' = real
    BY <2>1, <2>2 DEF View!vars, shownNow, answeringNow
  <2>3. ASSUME NEW t \in Tickers, real' = [real EXCEPT ![t] = @ + 1]
        PROVE  View!Change(t)
    BY <2>1, <2>3 DEF View!Change, shownNow, answeringNow
  <2> QED
    BY <1>3, <2>2, <2>3 DEF View!Next
<1> QED
  BY <1>1, <1>2, <1>3, OthersAhead DEF ViewInv

\* The invariant the refinement rests on: the exchange's messages tell a book's
\* content in order, and no local book is ahead of what it could know.
THEOREM ViewInvariant == FeedSpec => []ViewInv
<1>1. FeedInit => ViewInv
  BY FeedAssumption, ViewInvInit
<1>2. ASSUME ViewInv, [FeedNext]_feedVars
      PROVE  ViewInv'
  <2>1. FeedInv'
    BY <1>2, FeedAssumption, FeedNextKeeps DEF ViewInv
  <2> QED
    BY <1>2, <2>1, FeedAssumption, OthersAhead, ConnectAhead, ReceiveAhead
<1> QED
  BY <1>1, <1>2, PTL DEF FeedSpec

\* Every behaviour of the feed, whatever the wire loses, repeats or cuts off, is one
\* BookView allows: a book that answers was the exchange's at an earlier moment and
\* follows it forward, and speaks again only from a snapshot (kalshi/ws.py's
\* numbering, orderbook.py's refusals, ingest/streams.py's resync).
THEOREM FeedImplementsView == FeedSpec => ImplementsView
<1>1. FeedInit => View!Init
  <2>1. ASSUME FeedInit PROVE View!Init
    <3>1. shownNow = [t \in Tickers |-> 0] /\ answeringNow = {}
      BY <2>1 DEF FeedInit, shownNow, answeringNow, Known, Absent
    <3> QED
      BY <2>1, <3>1 DEF FeedInit, View!Init, shownNow, answeringNow
  <2> QED
    BY <2>1
<1>2. ViewInv /\ ViewInv' /\ [FeedNext]_feedVars => [View!Next]_(View!vars)
  BY FeedAssumption, FeedNextViews
<1> QED
  BY <1>1, <1>2, ViewInvariant, PTL DEF FeedSpec, ImplementsView, View!Spec

-------------------------------------------------------------------------------
(* CatalogSync keeps its invariant *)

LEMMA SmallestIn ==
    ASSUME NEW T \in SUBSET Nat, T # {}
    PROVE  \E x \in T : \A y \in T : ~(y < x)
<1>1. PICK x \in T : \A y \in T : <<y, x>> \notin OpToRel(<, Nat)
  BY NatLessThanWellFounded, WFMin, Zenon
<1>2. \A y \in T : ~(y < x)
  BY <1>1, Zenon DEF OpToRel
<1> QED
  BY <1>2

\* The newest of some times, none of which is after k, is one of them.
LEMMA NewestIsOne ==
    ASSUME NEW S \in SUBSET Nat, S # {}, NEW k \in Nat, \A a \in S : a <= k
    PROVE  Newest(S) \in S /\ \A a \in S : a <= Newest(S)
<1> DEFINE U == {n \in Nat : \A a \in S : a <= n}
<1>1. PICK u \in U : \A n \in U : ~(n < u)
  <2>1. U \in SUBSET Nat /\ k \in U
    OBVIOUS
  <2> HIDE DEF U
  <2> QED
    BY <2>1, SmallestIn
<1>2. u \in S
  <2>1. SUFFICES ASSUME u \notin S PROVE FALSE
    OBVIOUS
  <2>2. u - 1 \in U
    <3>1. u \in Nat /\ \A a \in S : a < u /\ a \in Nat
      BY <2>1
    <3>2. PICK a \in S : a \in Nat /\ a < u
      BY <3>1
    <3> QED
      BY <3>1, <3>2
  <2> QED
    BY <1>1, <2>2
<1> QED
  BY <1>1, <1>2 DEF Newest

LEMMA CatalogInvInit ==
    ASSUME CatalogAssumption, CatalogInit
    PROVE  CatalogInv
<1>1. walk \in Walk /\ ~walk.on /\ ~walk.kept /\ walk.began = 0
  BY DEF CatalogInit, NoWalk, Walk
<1>2. {booted, broken} \subseteq BOOLEAN
  BY DEF CatalogInit
<1>3. CatalogTypeOK
  BY <1>1, <1>2 DEF CatalogInit, CatalogTypeOK, Never
<1> QED
  BY <1>1, <1>3 DEF CatalogInit, CatalogInv, CatalogMissesNothing, WalkCovers, OverlapSuffices,
     Never, CatalogAssumption

\* What a refresh asks for leaves out what is in the catalogue.
LEMMA BeginWalkKeeps ==
    ASSUME CatalogAssumption, CatalogInv, BeginWalk
    PROVE  CatalogInv'
<1> DEFINE first == ~booted /\ LastUpdated = Never
           L == LastUpdated
<1>1. /\ ~walk.on /\ ~walk.kept
      /\ walk' = [on |-> TRUE, all |-> first, began |-> time, kept |-> FALSE,
                  todo |-> Matching(first)]
      /\ UNCHANGED <<time, updated, tradable, catalog, booted, breaks, completed, broken>>
  BY DEF BeginWalk, CatalogInv
<1>2. /\ walk'.on /\ walk'.all = first /\ walk'.began = time /\ walk'.kept = FALSE
      /\ walk'.todo = Matching(first)
  <2> HIDE DEF first
  <2> QED
    BY <1>1
<1>3. ASSUME NEW m \in Listing
      PROVE  L \in Nat /\ (\E x \in Listing : L = catalog[x]) /\ \A x \in Listing : catalog[x] <= L
  <2> DEFINE S == {catalog[x] : x \in Listing}
  <2>1. S \in SUBSET Nat /\ S # {} /\ time \in Nat /\ \A a \in S : a <= time
    BY DEF CatalogInv, CatalogTypeOK
  <2>2. Newest(S) \in S /\ \A a \in S : a <= Newest(S)
    <3> HIDE DEF S
    <3> QED
      BY <2>1, NewestIsOne
  <2> QED
    BY <2>1, <2>2 DEF LastUpdated
<1> HIDE DEF L
<1>4. CatalogTypeOK'
  <2>1. walk' \in Walk
    <3>1. Matching(first) \subseteq Listing /\ time \in Nat /\ first \in BOOLEAN
      BY DEF Matching, CatalogInv, CatalogTypeOK
    <3> HIDE DEF first
    <3> QED
      BY <1>1, <3>1 DEF Walk
  <2> QED
    BY <1>1, <1>2, <2>1 DEF CatalogInv, CatalogTypeOK
<1>5. ASSUME NEW m \in Listing \ Matching(first), ~broken, updated[m] # Never
      PROVE  InCatalogue(m)
  <2>1. /\ catalog[m] \in Nat /\ updated[m] \in Nat /\ catalog[m] <= L /\ L \in Nat
        /\ completed \in Nat /\ Overlap \in Nat
    BY <1>3 DEF CatalogInv, CatalogTypeOK, CatalogAssumption
  <2>2. CASE updated[m] < Since
    <3>1. L # Never /\ updated[m] < L - Overlap
      BY <2>1, <2>2 DEF Since, Never, L
    <3>2. L <= completed + Overlap
      BY <1>1, <1>3, <1>5 DEF CatalogInv, OverlapSuffices
    <3>3. updated[m] < completed
      BY <2>1, <3>1, <3>2
    <3> QED
      BY <1>5, <3>3 DEF CatalogInv, CatalogMissesNothing, InCatalogue
  <2>3. CASE first /\ m \notin tradable
    BY <2>1, <2>3 DEF InCatalogue, Never, L
  <2>4. Since \in Int
    BY <2>1 DEF Since, Never, L
  <2> QED
    BY <1>5, <2>1, <2>2, <2>3, <2>4 DEF Matching
<1>6. first => \A m \in Listing : catalog[m] = Never
  BY <1>3 DEF L, Never, CatalogInv, CatalogTypeOK
<1> HIDE DEF first
<1>7. WalkCovers'
  <2>1. Matching(first) \subseteq Listing
    BY DEF Matching
  <2> QED
    BY <1>1, <1>2, <1>5, <1>6, <2>1 DEF WalkCovers, InCatalogue
<1>8. CatalogMissesNothing' /\ OverlapSuffices' /\ (~walk.on => ~walk.kept)'
  BY <1>1, <1>2 DEF CatalogInv, CatalogMissesNothing, OverlapSuffices
<1> QED
  BY <1>4, <1>7, <1>8 DEF CatalogInv

\* A change is as new as the clock: no refresh has promised it.
LEMMA ChangeKeeps ==
    ASSUME CatalogInv, NEW m \in Listing, NEW stays \in BOOLEAN, Change(m, stays)
    PROVE  CatalogInv'
<1>1. /\ updated' = [updated EXCEPT ![m] = time] /\ updated[m] < time
      /\ \A x \in Listing \ {m} : x \in tradable' <=> x \in tradable
      /\ tradable' \subseteq Listing
      /\ UNCHANGED <<time, catalog, walk, booted, breaks, completed, broken>>
  BY DEF Change, CatalogInv, CatalogTypeOK
<1>2. /\ updated \in [Listing -> Nat] /\ catalog \in [Listing -> Nat] /\ time \in Nat
      /\ \A x \in Listing : catalog[x] <= updated[x] /\ updated[x] <= time
      /\ walk.began \in Nat /\ walk.began <= time /\ completed \in Nat /\ completed <= time
  BY DEF CatalogInv, CatalogTypeOK, Walk
<1>3. updated'[m] = time /\ \A x \in Listing \ {m} : updated'[x] = updated[x]
  BY <1>1, <1>2
<1>4. CatalogTypeOK'
  BY <1>1, <1>2, <1>3 DEF CatalogInv, CatalogTypeOK
<1>5. CatalogMissesNothing'
  <2>1. SUFFICES ASSUME NEW x \in Listing, ~broken, updated'[x] # Never, updated'[x] < completed
                 PROVE  catalog[x] = updated'[x] \/ (catalog[x] = Never /\ x \notin tradable')
    BY <1>1 DEF CatalogMissesNothing
  <2>2. x # m
    BY <1>2, <1>3, <2>1
  <2> QED
    BY <1>1, <1>3, <2>1, <2>2 DEF CatalogInv, CatalogMissesNothing
<1>6. WalkCovers'
  <2>1. ASSUME NEW x \in Listing \ walk.todo, walk.on, ~broken, updated'[x] # Never,
               updated'[x] < walk.began
        PROVE  InCatalogue(x)'
    <3>1. x # m
      BY <1>2, <1>3, <2>1
    <3> QED
      BY <1>1, <1>3, <2>1, <3>1 DEF CatalogInv, WalkCovers, InCatalogue
  <2> QED
    BY <1>1, <2>1 DEF CatalogInv, WalkCovers
<1>7. OverlapSuffices' /\ (~walk.on => ~walk.kept)'
  BY <1>1 DEF CatalogInv, OverlapSuffices
<1> QED
  BY <1>4, <1>5, <1>6, <1>7 DEF CatalogInv

\* A refresh is its five fields, whichever of them a batch changes.
LEMMA WalkFields ==
    ASSUME NEW w \in Walk
    PROVE  w = [on |-> w.on, all |-> w.all, began |-> w.began, todo |-> w.todo, kept |-> w.kept]
BY DEF Walk

LEMMA WalkWith ==
    ASSUME NEW w \in Walk, NEW T \in SUBSET Listing, NEW z \in BOOLEAN
    PROVE  [w EXCEPT !.todo = T, !.kept = z]
             = [on |-> w.on, all |-> w.all, began |-> w.began, todo |-> T, kept |-> z]
<1> DEFINE v == [w EXCEPT !.todo = T, !.kept = z]
<1>1. /\ v \in Walk /\ v.on = w.on /\ v.all = w.all /\ v.began = w.began
      /\ v.todo = T /\ v.kept = z
  BY DEF Walk
<1> HIDE DEF v
<1>2. v = [on |-> v.on, all |-> v.all, began |-> v.began, todo |-> v.todo, kept |-> v.kept]
  BY <1>1, WalkFields
<1>3. v = [on |-> w.on, all |-> w.all, began |-> w.began, todo |-> T, kept |-> z]
  BY <1>1, <1>2
<1> QED
  BY <1>3 DEF v

\* What a batch shows is the newest there is, and what it does not had closed.
LEMMA BatchKeeps ==
    ASSUME CatalogInv, NEW S \in SUBSET Listing, Batch(S)
    PROVE  CatalogInv'
<1> DEFINE shown_ == IF walk.all THEN S \cap tradable ELSE S
           kept_ == walk.kept \/ shown_ # {}
           todo_ == walk.todo \ S
<1>1. /\ walk.on /\ S \subseteq walk.todo
      /\ catalog' = [m \in Listing |-> IF m \in shown_ THEN updated[m] ELSE catalog[m]]
      /\ walk' = [walk EXCEPT !.todo = todo_, !.kept = kept_]
      /\ UNCHANGED <<time, updated, tradable, booted, breaks, completed, broken>>
  BY DEF Batch
<1>2. /\ walk' \in Walk /\ walk'.on = walk.on /\ walk'.all = walk.all
      /\ walk'.began = walk.began /\ walk'.todo = todo_ /\ walk'.kept = kept_
  <2>1. walk \in Walk /\ todo_ \in SUBSET Listing /\ kept_ \in BOOLEAN
    BY DEF CatalogInv, CatalogTypeOK, Walk
  <2> HIDE DEF todo_, kept_
  <2>2. PICK z \in BOOLEAN : z = kept_
    BY <2>1
  <2>3. walk' = [walk EXCEPT !.todo = todo_, !.kept = z]
    BY <1>1, <2>2
  <2>4. /\ walk' \in Walk /\ walk'.on = walk.on /\ walk'.all = walk.all
        /\ walk'.began = walk.began /\ walk'.todo = todo_ /\ walk'.kept = z
    <3>1. walk' = [on |-> walk.on, all |-> walk.all, began |-> walk.began, todo |-> todo_,
                   kept |-> z]
      BY <2>1, <2>3, WalkWith
    <3> QED
      BY <2>1, <3>1 DEF Walk
  <2> QED
    BY <2>2, <2>4
<1>3. ASSUME NEW m \in Listing
      PROVE  catalog'[m] = IF m \in shown_ THEN updated[m] ELSE catalog[m]
  BY <1>1
<1>4. shown_ \subseteq S /\ \A m \in S \ shown_ : walk.all /\ m \notin tradable
  OBVIOUS
<1>5. CatalogTypeOK'
  <2>1. catalog' \in [Listing -> Nat] /\ \A m \in Listing : catalog'[m] <= updated[m]
    <3> HIDE DEF shown_
    <3> QED
      BY <1>1, <1>3 DEF CatalogInv, CatalogTypeOK
  <2> HIDE DEF shown_
  <2> QED
    BY <1>1, <1>2, <2>1 DEF CatalogInv, CatalogTypeOK
<1> HIDE DEF shown_
<1>6. CatalogMissesNothing'
  BY <1>1, <1>3 DEF CatalogInv, CatalogMissesNothing
<1>7. WalkCovers'
  <2>1. ASSUME NEW m \in Listing \ walk'.todo, ~broken, updated[m] # Never,
               updated[m] < walk.began
        PROVE  catalog'[m] = updated[m] \/ (catalog'[m] = Never /\ m \notin tradable)
    <3>1. CASE m \in shown_
      BY <1>3, <3>1
    <3>2. CASE m \in S \ shown_
      BY <1>1, <1>3, <1>4, <3>2 DEF CatalogInv, WalkCovers
    <3>3. CASE m \notin S
      BY <1>1, <1>2, <1>3, <1>4, <2>1, <3>3 DEF CatalogInv, WalkCovers, InCatalogue
    <3> QED
      BY <3>1, <3>2, <3>3
  <2>2. walk.all => \A m \in walk'.todo : m \in Listing /\ catalog'[m] = Never
    BY <1>1, <1>2, <1>3, <1>4 DEF CatalogInv, CatalogTypeOK, WalkCovers, Walk
  <2> QED
    BY <1>1, <1>2, <2>1, <2>2 DEF WalkCovers, InCatalogue
<1>8. OverlapSuffices'
  <2>1. ~walk'.kept => ~walk.kept /\ catalog' = catalog
    BY <1>2, <1>1 DEF CatalogInv, CatalogTypeOK
  <2> QED
    BY <1>1, <2>1 DEF CatalogInv, OverlapSuffices
<1> QED
  BY <1>1, <1>2, <1>5, <1>6, <1>7, <1>8 DEF CatalogInv

\* A refresh that is through has covered what changed before it began, and took no
\* longer than the overlap.
LEMMA EndWalkKeeps ==
    ASSUME CatalogAssumption, CatalogInv, NEW events \in BOOLEAN, EndWalk(events)
    PROVE  CatalogInv'
<1>1. /\ walk.on /\ walk.todo = {} /\ walk' = NoWalk /\ booted' = (booted \/ events)
      /\ completed' = walk.began /\ broken' = (broken \/ time - walk.began > Overlap)
      /\ UNCHANGED <<time, updated, tradable, catalog, breaks>>
  BY DEF EndWalk
<1>2. /\ \A m \in Listing : /\ catalog[m] \in Nat /\ updated[m] \in Nat
                            /\ catalog[m] <= updated[m] /\ updated[m] <= time
      /\ time \in Nat /\ walk.began \in 0 .. time /\ Overlap \in Nat
  BY DEF CatalogInv, CatalogTypeOK, Walk, CatalogAssumption
<1>3. /\ walk' \in Walk /\ ~walk'.on /\ ~walk'.kept /\ walk'.began = 0
  BY <1>1 DEF NoWalk, Walk
<1>4. CatalogTypeOK'
  <2>1. {booted', broken'} \subseteq BOOLEAN
    BY <1>1
  <2> QED
    BY <1>1, <1>2, <1>3, <2>1 DEF CatalogInv, CatalogTypeOK
<1>5. CatalogMissesNothing'
  BY <1>1 DEF CatalogInv, CatalogMissesNothing, WalkCovers, InCatalogue
<1>6. OverlapSuffices'
  <2>1. SUFFICES ASSUME ~broken', NEW m \in Listing
                 PROVE  catalog[m] <= walk.began + Overlap
    BY <1>1 DEF OverlapSuffices
  <2>2. ~(time - walk.began > Overlap)
    BY <1>1, <2>1
  <2> QED
    BY <1>2, <2>2
<1> QED
  BY <1>3, <1>4, <1>5, <1>6 DEF CatalogInv, WalkCovers

\* One that is cut short leaves things as they were, unless some of it was kept.
LEMMA BreakKeeps ==
    ASSUME CatalogInv, NEW restart \in BOOLEAN, Break(restart)
    PROVE  CatalogInv'
<1>1. /\ walk' = NoWalk /\ booted' = (booted /\ ~restart) /\ broken' = (broken \/ walk.kept)
      /\ UNCHANGED <<time, updated, tradable, catalog, completed>>
  BY DEF Break
<1>2. walk' \in Walk /\ ~walk'.on /\ ~walk'.kept /\ walk'.began = 0
  BY <1>1 DEF NoWalk, Walk
<1>3. {booted', broken'} \subseteq BOOLEAN
  BY <1>1
<1>4. ~broken' => ~broken /\ ~walk.kept
  BY <1>1
<1>5. CatalogTypeOK'
  BY <1>1, <1>2, <1>3 DEF CatalogInv, CatalogTypeOK
<1>6. CatalogMissesNothing' /\ OverlapSuffices'
  BY <1>1, <1>4 DEF CatalogInv, CatalogMissesNothing, OverlapSuffices
<1> QED
  BY <1>2, <1>5, <1>6 DEF CatalogInv, WalkCovers

LEMMA CatalogRests ==
    ASSUME CatalogInv, Passes \/ UNCHANGED catVars
    PROVE  CatalogInv'
<1>1. /\ time' \in Nat /\ time <= time'
      /\ UNCHANGED <<updated, tradable, catalog, walk, booted, completed, broken>>
  BY DEF Passes, catVars, CatalogInv, CatalogTypeOK
<1>2. CatalogTypeOK'
  <2>1. \A m \in Listing : updated[m] <= time'
    BY <1>1 DEF CatalogInv, CatalogTypeOK
  <2>2. walk.began <= time' /\ completed \in 0 .. time'
    BY <1>1 DEF CatalogInv, CatalogTypeOK, Walk
  <2> QED
    BY <1>1, <2>1, <2>2 DEF CatalogInv, CatalogTypeOK
<1> QED
  BY <1>1, <1>2 DEF CatalogInv, CatalogMissesNothing, WalkCovers, OverlapSuffices, InCatalogue

\* What a refresh has gone past is in the catalogue, and so is what the last
\* complete one promised.
THEOREM CatalogInvariant == CatalogSpec => []CatalogInv
<1>1. ASSUME CatalogInv, [CatalogNext]_catVars
      PROVE  CatalogInv'
  BY <1>1, CatalogAssumption, CatalogRests, BeginWalkKeeps, ChangeKeeps, BatchKeeps,
     EndWalkKeeps, BreakKeeps DEF CatalogNext
<1>2. CatalogInit => CatalogInv
  BY CatalogAssumption, CatalogInvInit
<1> QED
  BY <1>1, <1>2, PTL DEF CatalogSpec

\* No change made before the last complete refresh began is missing, for any
\* number of markets and any overlap (ingest/catalog.py's refresh_since).
THEOREM CatalogueIsComplete == CatalogSpec => []CatalogMissesNothing
<1>1. CatalogInv => CatalogMissesNothing
  BY DEF CatalogInv
<1> QED
  BY <1>1, CatalogInvariant, PTL

-------------------------------------------------------------------------------
(* FanOut keeps its invariant *)

\* One message that is newer than all that came before.
LEMMA OneMoreGot ==
    ASSUME NEW n \in Nat, NEW got, NEW d, NEW U, GetsRight(got, d, U, n)
    PROVE  /\ GetsRight(Append(got, n + 1), d, U \cup {n + 1}, n + 1)
           /\ GetsRight(Append(got, n + 1), d, U, n + 1)
<1> DEFINE more == Append(got, n + 1)
<1>1. /\ got \in Seq(Nat) /\ \A i \in 1 .. Len(got) : got[i] \in Nat /\ got[i] <= n
      /\ \A i, j \in 1 .. Len(got) : i < j => got[i] < got[j]
      /\ ~d => U \subseteq {got[i] : i \in 1 .. Len(got)}
  BY SMTT(40) DEF GetsRight
<1>2. /\ more \in Seq(Nat) /\ Len(more) = Len(got) + 1 /\ Len(got) \in Nat
      /\ more[Len(got) + 1] = n + 1 /\ \A i \in 1 .. Len(got) : more[i] = got[i]
  BY <1>1
<1> HIDE DEF more
<1>3. \A i \in 1 .. Len(more) : more[i] <= n + 1
  <2>1. ASSUME NEW i \in 1 .. Len(more) PROVE more[i] <= n + 1
    <3>1. CASE i = Len(got) + 1
      BY <1>2, <3>1
    <3>2. CASE i \in 1 .. Len(got)
      <4>1. more[i] = got[i] /\ got[i] \in Nat /\ got[i] <= n
        BY <1>1, <1>2, <3>2
      <4> QED
        BY <4>1
    <3> QED
      BY <1>2, <3>1, <3>2
  <2> QED
    BY <2>1
<1>4. \A i, j \in 1 .. Len(more) : i < j => more[i] < more[j]
  <2>1. SUFFICES ASSUME NEW i \in 1 .. Len(more), NEW j \in 1 .. Len(more), i < j
                 PROVE  more[i] < more[j]
    OBVIOUS
  <2>2. i \in 1 .. Len(got)
    BY <1>2, <2>1
  <2>3. CASE j = Len(got) + 1
    BY <1>1, <1>2, <2>2, <2>3, SMTT(40)
  <2>4. CASE j \in 1 .. Len(got)
    BY <1>1, <1>2, <2>1, <2>2, <2>4
  <2> QED
    BY <1>2, <2>3, <2>4
<1>5. ~d => U \cup {n + 1} \subseteq {more[i] : i \in 1 .. Len(more)}
  <2>1. SUFFICES ASSUME ~d, NEW u \in U \cup {n + 1}
                 PROVE  \E i \in 1 .. Len(more) : u = more[i]
    OBVIOUS
  <2>2. CASE u = n + 1
    BY <1>2, <2>2
  <2>3. CASE u \in U
    <3>1. PICK i \in 1 .. Len(got) : u = got[i]
      BY <1>1, <2>1, <2>3
    <3> QED
      BY <1>2, <3>1
  <2> QED
    BY <2>2, <2>3
<1>6. GetsRight(more, d, U \cup {n + 1}, n + 1)
  BY <1>2, <1>3, <1>4, <1>5 DEF GetsRight
<1>7. GetsRight(more, d, U, n + 1)
  BY <1>2, <1>3, <1>4, <1>5 DEF GetsRight
<1> QED
  BY <1>6, <1>7 DEF more

\* One that was not for it, and one that was dropped.
LEMMA NoMoreGot ==
    ASSUME NEW n \in Nat, NEW got, NEW d, NEW U, GetsRight(got, d, U, n)
    PROVE  /\ GetsRight(got, d, U, n + 1)
           /\ \A V : GetsRight(got, TRUE, V, n + 1)
<1>1. got \in Seq(Nat) /\ \A i \in 1 .. Len(got) : got[i] \in Nat /\ got[i] <= n + 1
  BY DEF GetsRight
<1> QED
  BY <1>1 DEF GetsRight

\* What becomes of a queue that has room, and of one that has none.
LEMMA OfferedOne ==
    ASSUME FanOutAssumption, NEW q \in Seq(Nat), Len(q) <= QueueMax, NEW n \in Nat
    PROVE  Offered(q, <<n>>) = IF Len(q) < QueueMax THEN Append(q, n) ELSE q
<1> DEFINE all == q \o <<n>>
           k == IF Len(all) < QueueMax THEN Len(all) ELSE QueueMax
<1>1. /\ all \in Seq(Nat) /\ Len(all) = Len(q) + 1 /\ all[Len(q) + 1] = n
      /\ Len(q) \in Nat /\ QueueMax \in Nat /\ QueueMax >= 1
      /\ \A i \in 1 .. Len(q) : all[i] = q[i]
  BY DEF FanOutAssumption
<1>2. Offered(q, <<n>>) = SubSeq(all, 1, k)
  BY DEF Offered
<1> HIDE DEF all
<1>3. k \in 1 .. Len(all)
  BY <1>1
<1>4. /\ SubSeq(all, 1, k) \in Seq(Nat) /\ Len(SubSeq(all, 1, k)) = k
      /\ \A i \in 1 .. k : SubSeq(all, 1, k)[i] = all[i]
  BY <1>1, <1>3
<1>5. CASE Len(q) < QueueMax
  <2>1. k = Len(q) + 1 /\ Append(q, n) \in Seq(Nat) /\ Len(Append(q, n)) = Len(q) + 1
    BY <1>1, <1>5
  <2>2. \A i \in 1 .. k : all[i] = Append(q, n)[i]
    BY <1>1, <2>1
  <2> HIDE DEF k
  <2> QED
    BY <1>2, <1>4, <1>5, <2>1, <2>2, SeqEqual
<1>6. CASE ~(Len(q) < QueueMax)
  <2>1. k = Len(q)
    BY <1>1, <1>6
  <2> HIDE DEF k
  <2> QED
    BY <1>1, <1>2, <1>4, <1>6, <2>1, SeqEqual
<1> QED
  BY <1>5, <1>6

\* What was shown and what waits, when one more waits, and when one is shown.
LEMMA ReceivedMore ==
    ASSUME NEW s \in Seq(Nat), NEW q \in Seq(Nat), NEW n \in Nat
    PROVE  s \o Append(q, n) = Append(s \o q, n)
<1> DEFINE a == s \o Append(q, n)
           b == Append(s \o q, n)
<1>1. /\ a \in Seq(Nat) /\ b \in Seq(Nat) /\ Len(a) = Len(s) + Len(q) + 1
      /\ Len(b) = Len(s) + Len(q) + 1
  OBVIOUS
<1>2. \A i \in 1 .. Len(a) : a[i] = b[i]
  OBVIOUS
<1> HIDE DEF a, b
<1>3. a = b
  BY <1>1, <1>2, SeqEqual
<1> QED
  BY <1>3 DEF a, b

LEMMA ReceivedShown ==
    ASSUME NEW s \in Seq(Nat), NEW q \in Seq(Nat), q # <<>>
    PROVE  Append(s, Head(q)) \o Tail(q) = s \o q
<1> DEFINE a == Append(s, Head(q)) \o Tail(q)
           b == s \o q
<1>1. /\ Head(q) \in Nat /\ Tail(q) \in Seq(Nat) /\ Len(Tail(q)) = Len(q) - 1
      /\ Len(q) \in Nat \ {0} /\ Head(q) = q[1]
      /\ \A i \in 1 .. Len(q) - 1 : Tail(q)[i] = q[i + 1]
  OBVIOUS
<1>2. a \in Seq(Nat) /\ b \in Seq(Nat) /\ Len(a) = Len(s) + Len(q) /\ Len(b) = Len(s) + Len(q)
  BY <1>1
<1>3. \A i \in 1 .. Len(a) : a[i] = b[i]
  BY <1>1, <1>2
<1> HIDE DEF a, b
<1>4. a = b
  BY <1>2, <1>3, SeqEqual
<1> QED
  BY <1>4 DEF a, b

LEMMA HubInvInit ==
    ASSUME HubInit
    PROVE  HubInv
BY DEF HubInit, HubInv, HubTypeOK, Alive

\* A browser that comes finds a pump at work, or starts the only one.
LEMMA RegisterKeeps ==
    ASSUME FanOutAssumption, HubInv, NEW c \in Clients, Register(c)
    PROVE  HubInv'
<1>1. /\ joined' = joined \cup {c} /\ deaf' = FALSE /\ published' = published
      /\ queued' = [queued EXCEPT ![c] = <<>>] /\ shown' = [shown EXCEPT ![c] = <<>>]
      /\ overflown' = overflown \ {c} /\ urgent' = [urgent EXCEPT ![c] = {}]
  BY DEF Register
<1>2. /\ task' \in Pumps \cup {NoPump}
      /\ pumping' \in [Pumps -> {"subscribing", "listening", "done"}]
      /\ task' \in Alive' /\ Alive' \subseteq {task'}
  <2>1. CASE NeedsPump
    <3>1. PICK p \in Pumps \ (Alive \cup {task}) :
              task' = p /\ pumping' = [pumping EXCEPT ![p] = "subscribing"]
      BY <2>1 DEF Register
    <3>2. Alive = {}
      BY <2>1, FanOutAssumption DEF NeedsPump, HubInv, FanOutAssumption, Alive
    <3> QED
      BY <3>1, <3>2 DEF HubInv, HubTypeOK, Alive
  <2>2. CASE ~NeedsPump
    BY <2>2 DEF Register, NeedsPump, HubInv, HubTypeOK, Alive
  <2> QED
    BY <2>1, <2>2
<1>3. HubTypeOK'
  BY <1>1, <1>2 DEF HubInv, HubTypeOK
<1>4. ASSUME NEW d \in joined'
      PROVE  /\ Len(queued'[d]) <= QueueMax
             /\ GetsRight(Received(d)', d \in overflown', urgent'[d], published')
  <2>0. /\ d \in Clients /\ queued \in [Clients -> Seq(Nat)] /\ shown \in [Clients -> Seq(Nat)]
        /\ urgent \in [Clients -> SUBSET Nat]
    BY <1>1 DEF HubInv, HubTypeOK
  <2>1. CASE d = c
    <3>1. /\ queued'[d] = <<>> /\ shown'[d] = <<>> /\ urgent'[d] = {}
      BY <1>1, <2>0, <2>1
    <3>2. Received(d)' = <<>>
      BY <3>1 DEF Received
    <3>3. GetsRight(<<>>, d \in overflown', {}, published')
      BY DEF GetsRight
    <3> QED
      BY <3>1, <3>2, <3>3 DEF FanOutAssumption
  <2>2. CASE d # c
    <3>1. /\ d \in joined /\ queued'[d] = queued[d] /\ shown'[d] = shown[d]
          /\ urgent'[d] = urgent[d] /\ (d \in overflown' <=> d \in overflown)
      BY <1>1, <1>4, <2>0, <2>2
    <3> QED
      BY <1>1, <3>1, ZenonT(60) DEF HubInv, Received, GetsRight
  <2> QED
    BY <2>1, <2>2
<1> QED
  BY <1>1, <1>2, <1>3, <1>4 DEF HubInv

LEMMA UnregisterKeeps ==
    ASSUME HubInv, NEW c \in Clients, Unregister(c)
    PROVE  HubInv'
<1>1. joined' = joined \ {c} /\ UNCHANGED <<queued, shown, published, overflown, urgent, deaf>>
  BY DEF Unregister
<1>2. /\ task' \in Pumps \cup {NoPump}
      /\ pumping' \in [Pumps -> {"subscribing", "listening", "done"}]
      /\ Alive' \subseteq {task'}
      /\ joined' # {} => task' \in Alive' \/ deaf
  <2>1. CASE joined' = {} /\ task # NoPump
    <3>1. task' = NoPump /\ pumping' = [pumping EXCEPT ![task] = "done"] /\ task \in Pumps
      BY <2>1 DEF Unregister, HubInv, HubTypeOK
    <3>2. Alive' = {}
      BY <3>1 DEF Alive, HubInv, HubTypeOK
    <3> QED
      BY <2>1, <3>1, <3>2 DEF HubInv, HubTypeOK
  <2>2. CASE ~(joined' = {} /\ task # NoPump)
    BY <1>1, <2>2 DEF Unregister, HubInv, HubTypeOK, Alive
  <2> QED
    BY <2>1, <2>2
<1> QED
  BY <1>1, <1>2 DEF HubInv, HubTypeOK, Received

\* A pump that subscribes or fails is the hub's own.
LEMMA PumpKeeps ==
    ASSUME HubInv, NEW p \in Pumps, Subscribe(p) \/ PumpFails(p)
    PROVE  HubInv'
<1>1. UNCHANGED <<joined, queued, shown, task, published, overflown, urgent>>
  BY DEF Subscribe, PumpFails
<1>2. /\ pumping' \in [Pumps -> {"subscribing", "listening", "done"}]
      /\ Alive' \subseteq Alive
      /\ (Alive' = Alive /\ deaf' = deaf) \/ deaf'
  <2>1. CASE Subscribe(p)
    BY <2>1 DEF Subscribe, HubInv, HubTypeOK, Alive
  <2>2. CASE PumpFails(p)
    BY <2>2 DEF PumpFails, HubInv, HubTypeOK, Alive
  <2> QED
    BY <2>1, <2>2
<1> QED
  BY <1>1, <1>2 DEF HubInv, HubTypeOK, Received

LEMMA ShowKeeps ==
    ASSUME HubInv, NEW c \in Clients, Show(c)
    PROVE  HubInv'
<1>1. /\ queued[c] # <<>> /\ shown' = [shown EXCEPT ![c] = Append(@, Head(queued[c]))]
      /\ queued' = [queued EXCEPT ![c] = Tail(@)]
      /\ UNCHANGED <<joined, task, pumping, published, overflown, urgent, deaf>>
  BY DEF Show
<1>2. /\ queued \in [Clients -> Seq(Nat)] /\ shown \in [Clients -> Seq(Nat)]
  BY DEF HubInv, HubTypeOK
<1>3. /\ shown'[c] = Append(shown[c], Head(queued[c])) /\ queued'[c] = Tail(queued[c])
      /\ \A d \in Clients \ {c} : queued'[d] = queued[d] /\ shown'[d] = shown[d]
  BY <1>1, <1>2
<1>4. /\ queued[c] \in Seq(Nat) /\ shown[c] \in Seq(Nat)
      /\ Tail(queued[c]) \in Seq(Nat) /\ Len(Tail(queued[c])) <= Len(queued[c])
      /\ Append(shown[c], Head(queued[c])) \in Seq(Nat)
  BY <1>1, <1>2
<1>5. HubTypeOK'
  BY <1>1, <1>2, <1>4 DEF HubInv, HubTypeOK
<1>6. ASSUME NEW d \in joined
      PROVE  /\ Len(queued'[d]) <= QueueMax
             /\ Received(d)' = Received(d)
  <2>1. d \in Clients /\ Len(queued[d]) <= QueueMax
    BY DEF HubInv, HubTypeOK
  <2>2. CASE d = c
    <3>1. Received(c)' = Received(c)
      BY <1>1, <1>3, <1>4, ReceivedShown DEF Received
    <3>2. Len(queued'[c]) <= QueueMax
      BY <1>3, <1>4, <2>1, <2>2, FanOutAssumption DEF FanOutAssumption
    <3> QED
      BY <2>2, <3>1, <3>2
  <2>3. CASE d # c
    BY <1>3, <2>1, <2>3 DEF Received
  <2> QED
    BY <2>2, <2>3
<1> QED
  BY <1>1, <1>5, <1>6 DEF HubInv, Alive

\* A message comes once, from the only pump there is, and is the newest.
LEMMA PublishKeeps ==
    ASSUME FanOutAssumption, HubInv, NEW topic \in Watchable \cup {Urgent}, Publish(topic)
    PROVE  HubInv'
<1> DEFINE listening == {p \in Pumps : pumping[p] = "listening"}
           reached == {c \in joined : listening # {} /\ Wants(c, topic)}
           copies == [i \in 1 .. Cardinality(listening) |-> published']
           n == published
<1>1. /\ published' = n + 1 /\ n \in Nat
      /\ queued' = [c \in Clients |->
              IF c \in reached THEN Offered(queued[c], copies) ELSE queued[c]]
      /\ overflown' = overflown \cup
              {c \in reached : Len(queued[c]) + Cardinality(listening) > QueueMax}
      /\ urgent' = [c \in Clients |->
              IF c \in joined /\ listening # {} /\ topic = Urgent
              THEN urgent[c] \cup {published'} ELSE urgent[c]]
      /\ UNCHANGED <<joined, watching, shown, task, pumping, deaf>>
  BY DEF Publish, HubInv, HubTypeOK
<1>2. listening # {} => Cardinality(listening) = 1
  <2>1. listening \subseteq {task}
    BY DEF HubInv, Alive
  <2>2. listening # {} => listening = {task}
    BY <2>1
  <2> HIDE DEF listening
  <2> QED
    BY <2>2, FS_Singleton
<1>3. listening # {} => copies = <<n + 1>>
  <2> HIDE DEF listening
  <2>1. listening # {} => copies = [i \in 1 .. 1 |-> n + 1]
    BY <1>1, <1>2
  <2> HIDE DEF copies
  <2> QED
    BY <2>1
<1>4. ASSUME NEW c \in joined
      PROVE  /\ c \in Clients /\ queued[c] \in Seq(Nat) /\ shown[c] \in Seq(Nat)
             /\ Len(queued[c]) <= QueueMax /\ Len(queued[c]) \in Nat /\ urgent[c] \in SUBSET Nat
             /\ GetsRight(Received(c), c \in overflown, urgent[c], n)
  BY DEF HubInv, HubTypeOK
<1>5. ASSUME NEW c \in joined
      PROVE  /\ queued'[c] \in Seq(Nat) /\ Len(queued'[c]) <= QueueMax
             /\ urgent'[c] \in SUBSET Nat
             /\ GetsRight(shown[c] \o queued'[c], c \in overflown', urgent'[c], n + 1)
  <2>1. CASE c \notin reached
    <3>1. queued'[c] = queued[c]
      <4> HIDE DEF reached, copies
      <4> QED
        BY <1>1, <1>4, <2>1
    <3>2. urgent'[c] = urgent[c]
      <4>1. ~(listening # {} /\ topic = Urgent)
        BY <2>1 DEF Wants
      <4> HIDE DEF listening
      <4> QED
        BY <1>1, <1>4, <4>1
    <3>3. c \in overflown' <=> c \in overflown
      <4> HIDE DEF reached
      <4> QED
        BY <1>1, <2>1
    <3>4. GetsRight(Received(c), c \in overflown, urgent[c], n + 1)
      BY <1>1, <1>4, NoMoreGot
    <3>5. GetsRight(Received(c), c \in overflown', urgent[c], n + 1)
      BY <3>3, <3>4 DEF GetsRight
    <3> QED
      BY <1>4, <3>1, <3>2, <3>5 DEF Received
  <2>2. CASE c \in reached
    <3>1. listening # {} /\ Cardinality(listening) = 1 /\ copies = <<n + 1>>
      BY <1>2, <1>3, <2>2
    <3>2. queued'[c] = IF Len(queued[c]) < QueueMax THEN Append(queued[c], n + 1) ELSE queued[c]
      <4>1. queued'[c] = Offered(queued[c], <<n + 1>>)
        <5> HIDE DEF reached, copies
        <5> QED
          BY <1>1, <1>4, <2>2, <3>1
      <4>2. n + 1 \in Nat
        BY <1>1
      <4> QED
        BY <1>4, <4>1, <4>2, OfferedOne
    <3>3. urgent'[c] = urgent[c] \/ urgent'[c] = urgent[c] \cup {n + 1}
      <4> HIDE DEF listening
      <4> QED
        BY <1>1, <1>4
    <3> HIDE DEF listening, copies, reached
    <3>4. CASE Len(queued[c]) < QueueMax
      <4>1. c \in overflown' <=> c \in overflown
        BY <1>1, <1>4, <2>2, <3>1, <3>4, FanOutAssumption DEF FanOutAssumption
      <4>2. queued'[c] = Append(queued[c], n + 1)
        BY <3>2, <3>4
      <4> DEFINE q == queued[c]
                 s == shown[c]
                 k == n + 1
      <4>8. q \in Seq(Nat) /\ s \in Seq(Nat) /\ k \in Nat /\ queued'[c] = Append(q, k)
        <5>1. n \in Nat
          BY DEF HubInv, HubTypeOK
        <5> QED
          BY <1>4, <4>2, <5>1
      <4>3. shown[c] \o queued'[c] = Append(Received(c), n + 1)
        <5>1. s \o Append(q, k) = Append(s \o q, k)
          <6> HIDE DEF q, s, k
          <6> QED
            BY <4>8, ReceivedMore
        <5> QED
          BY <4>2, <5>1 DEF Received
      <4>4. GetsRight(Append(Received(c), n + 1), c \in overflown, urgent'[c], n + 1)
        BY <1>1, <1>4, <3>3, OneMoreGot
      <4>5. GetsRight(Append(Received(c), n + 1), c \in overflown', urgent'[c], n + 1)
        BY <4>1, <4>4 DEF GetsRight
      <4>6. queued'[c] \in Seq(Nat) /\ Len(queued'[c]) = Len(queued[c]) + 1
        <5>1. Append(q, k) \in Seq(Nat) /\ Len(Append(q, k)) = Len(q) + 1
          <6> HIDE DEF q, s, k
          <6> QED
            BY <4>8
        <5> QED
          BY <4>2, <5>1
      <4>7. Len(queued'[c]) <= QueueMax
        BY <1>4, <3>4, <4>6, FanOutAssumption DEF FanOutAssumption
      <4>9. urgent'[c] \in SUBSET Nat
        BY <1>4, <3>3, <4>8
      <4> QED
        BY <4>3, <4>5, <4>6, <4>7, <4>9
    <3>5. CASE ~(Len(queued[c]) < QueueMax)
      <4>1. c \in overflown'
        BY <1>1, <1>4, <2>2, <3>1, <3>5, FanOutAssumption DEF FanOutAssumption
      <4>2. queued'[c] = queued[c]
        BY <3>2, <3>5
      <4>3. GetsRight(Received(c), TRUE, urgent'[c], n + 1)
        BY <1>1, <1>4, NoMoreGot
      <4>4. GetsRight(Received(c), c \in overflown', urgent'[c], n + 1)
        BY <4>1, <4>3 DEF GetsRight
      <4> QED
        BY <1>1, <1>4, <3>3, <4>2, <4>4 DEF Received
    <3> QED
      BY <3>4, <3>5
  <2> QED
    BY <2>1, <2>2
<1>6. HubTypeOK'
  <2>1. \A c \in Clients : c \notin joined =>
            queued'[c] = queued[c] /\ urgent'[c] = urgent[c]
    BY <1>1
  <2>2. DOMAIN queued' = Clients /\ DOMAIN urgent' = Clients
    BY <1>1
  <2>3. queued' \in [Clients -> Seq(Nat)] /\ urgent' \in [Clients -> SUBSET Nat]
    <3>1. \A c \in Clients : queued'[c] \in Seq(Nat) /\ urgent'[c] \in SUBSET Nat
      BY <1>5, <2>1 DEF HubInv, HubTypeOK
    <3>2. queued' = [c \in Clients |-> queued'[c]] /\ urgent' = [c \in Clients |-> urgent'[c]]
      <4> HIDE DEF listening, reached, copies
      <4> QED
        BY <1>1
    <3> QED
      BY <3>1, <3>2
  <2>4. published' \in Nat /\ UNCHANGED <<joined, shown, task, pumping>>
    BY <1>1
  <2> QED
    BY <2>3, <2>4 DEF HubInv, HubTypeOK
<1> QED
  BY <1>1, <1>5, <1>6 DEF HubInv, Alive, Received

\* One pump at most is at work, and what each browser got is right.
THEOREM HubInvariant == HubSpec => []HubInv
<1>1. HubInit => HubInv
  BY HubInvInit
<1>2. ASSUME HubInv, [HubNext]_hubVars
      PROVE  HubInv'
  <2>1. CASE UNCHANGED hubVars
    BY <1>2, <2>1 DEF hubVars, HubInv, HubTypeOK, Alive, Received
  <2>2. ASSUME NEW c \in Clients, NEW T \in SUBSET Watchable, Watch(c, T)
        PROVE  HubInv'
    BY <1>2, <2>2 DEF Watch, HubInv, HubTypeOK, Alive, Received
  <2> QED
    BY <1>2, <2>1, <2>2, FanOutAssumption, RegisterKeeps, UnregisterKeeps, PumpKeeps, ShowKeeps,
       PublishKeeps DEF HubNext
<1> QED
  BY <1>1, <1>2, PTL DEF HubSpec

\* For any number of browsers and messages: who is connected is served, in order,
\* never twice, and misses nothing urgent but what its own full queue dropped
\* (api/ws.py's register, _pump and offer).
THEOREM BrowsersAreServed == HubSpec => []EveryBrowserIsServed
<1>1. ASSUME HubInv PROVE EveryBrowserIsServed
  <2>1. ASSUME NEW c \in joined
        PROVE  LET got == shown[c] \o queued[c]
               IN  /\ \A i, j \in DOMAIN got : i < j => got[i] < got[j]
                   /\ c \notin overflown => urgent[c] \subseteq ToSet(got)
    <3> DEFINE got == shown[c] \o queued[c]
    <3>1. GetsRight(got, c \in overflown, urgent[c], published)
      BY <1>1 DEF HubInv, Received
    <3> HIDE DEF got
    <3>2. DOMAIN got = 1 .. Len(got)
      BY <3>1 DEF GetsRight
    <3>3. /\ \A i, j \in DOMAIN got : i < j => got[i] < got[j]
          /\ c \notin overflown => urgent[c] \subseteq ToSet(got)
      BY <3>1, <3>2 DEF GetsRight, ToSet
    <3> QED
      BY <3>3 DEF got
  <2> QED
    BY <1>1, <2>1 DEF EveryBrowserIsServed, HubInv
<1> QED
  BY <1>1, HubInvariant, PTL

-------------------------------------------------------------------------------
(* TapeRecorder keeps its invariant *)

LEMMA ToSetIs ==
    ASSUME NEW s \in Seq(Trades)
    PROVE  ToSet(s) = {s[i] : i \in 1 .. Len(s)} /\ ToSet(s) \subseteq Trades
<1>1. DOMAIN s = 1 .. Len(s) /\ \A i \in 1 .. Len(s) : s[i] \in Trades
  OBVIOUS
<1> QED
  BY <1>1 DEF ToSet

LEMMA MinutesOfIs ==
    ASSUME TapeAssumption, NEW s \in Seq(Trades)
    PROVE  MinutesOf(s) \subseteq Minutes
<1>1. ToSet(s) \subseteq Trades
  BY ToSetIs
<1> QED
  BY <1>1 DEF MinutesOf, TapeAssumption, Minutes

LEMMA ToSetAppend ==
    ASSUME NEW s \in Seq(Trades), NEW t \in Trades
    PROVE  ToSet(Append(s, t)) = ToSet(s) \cup {t}
<1> DEFINE r == Append(s, t)
<1>1. /\ r \in Seq(Trades) /\ Len(r) = Len(s) + 1 /\ Len(s) \in Nat /\ r[Len(s) + 1] = t
      /\ \A i \in 1 .. Len(s) : r[i] = s[i]
  OBVIOUS
<1> HIDE DEF r
<1>2. ToSet(r) = {r[i] : i \in 1 .. Len(r)} /\ ToSet(s) = {s[i] : i \in 1 .. Len(s)}
  BY <1>1, ToSetIs
<1>3. \A i \in 1 .. Len(r) : i \in 1 .. Len(s) \/ i = Len(s) + 1
  BY <1>1
<1>4. 1 .. Len(s) \subseteq 1 .. Len(r) /\ Len(s) + 1 \in 1 .. Len(r)
  BY <1>1
<1>5. {r[i] : i \in 1 .. Len(r)} = {s[i] : i \in 1 .. Len(s)} \cup {t}
  BY <1>1, <1>3, <1>4
<1> QED
  BY <1>2, <1>5 DEF r

LEMMA ToSetConcat ==
    ASSUME NEW s \in Seq(Trades), NEW r \in Seq(Trades)
    PROVE  ToSet(s \o r) = ToSet(s) \cup ToSet(r)
<1> DEFINE a == s \o r
<1>1. /\ a \in Seq(Trades) /\ Len(a) = Len(s) + Len(r) /\ Len(s) \in Nat /\ Len(r) \in Nat
      /\ \A i \in 1 .. Len(s) : a[i] = s[i]
      /\ \A i \in 1 .. Len(r) : a[Len(s) + i] = r[i]
  OBVIOUS
<1> HIDE DEF a
<1>2. /\ ToSet(a) = {a[i] : i \in 1 .. Len(a)} /\ ToSet(s) = {s[i] : i \in 1 .. Len(s)}
      /\ ToSet(r) = {r[i] : i \in 1 .. Len(r)}
  BY <1>1, ToSetIs
<1>3. ToSet(s) \subseteq ToSet(a)
  <2>1. 1 .. Len(s) \subseteq 1 .. Len(a)
    BY <1>1
  <2> QED
    BY <1>1, <1>2, <2>1
<1>4. ToSet(r) \subseteq ToSet(a)
  <2>1. \A i \in 1 .. Len(r) : Len(s) + i \in 1 .. Len(a)
    BY <1>1
  <2> QED
    BY <1>1, <1>2, <2>1
<1>5. ToSet(a) \subseteq ToSet(s) \cup ToSet(r)
  <2>1. SUFFICES ASSUME NEW i \in 1 .. Len(a)
                 PROVE  a[i] \in ToSet(s) \cup ToSet(r)
    BY <1>2
  <2>2. CASE i \in 1 .. Len(s)
    BY <1>1, <1>2, <2>2
  <2>3. CASE ~(i \in 1 .. Len(s))
    <3>1. i - Len(s) \in 1 .. Len(r) /\ Len(s) + (i - Len(s)) = i
      BY <1>1, <2>3
    <3>2. a[i] = r[i - Len(s)]
      BY <1>1, <3>1
    <3> QED
      BY <1>2, <3>1, <3>2
  <2> QED
    BY <2>2, <2>3
<1> QED
  BY <1>3, <1>4, <1>5 DEF a

LEMMA ToSetEmpty ==
    /\ ToSet(<<>>) = {}
    /\ \A s \in Seq(Trades) : ToSet(s) = {} => s = <<>>
<1>1. ToSet(<<>>) = {}
  BY DEF ToSet
<1>2. ASSUME NEW s \in Seq(Trades), s # <<>>
      PROVE  ToSet(s) # {}
  <2>1. Len(s) \in Nat \ {0}
    BY <1>2, EmptySeq
  <2>2. 1 \in 1 .. Len(s)
    BY <2>1
  <2>3. ToSet(s) = {s[i] : i \in 1 .. Len(s)}
    BY ToSetIs
  <2>4. s[1] \in ToSet(s)
    BY <2>2, <2>3
  <2> QED
    BY <2>4
<1> QED
  BY <1>1, <1>2

LEMMA CountsNone ==
    /\ CountsJust(<<>>, {})
    /\ \A s \in Seq(Trades) : CountsJust(s, {}) => s = <<>>
<1>1. IsInjective(<<>>)
  BY DEF IsInjective
<1> QED
  BY <1>1, ToSetEmpty DEF CountsJust

LEMMA CountsOneMore ==
    ASSUME NEW s \in Seq(Trades), NEW H, CountsJust(s, H), NEW t \in Trades \ H
    PROVE  CountsJust(Append(s, t), H \cup {t})
<1> DEFINE r == Append(s, t)
<1>1. /\ r \in Seq(Trades) /\ Len(r) = Len(s) + 1 /\ Len(s) \in Nat /\ r[Len(s) + 1] = t
      /\ \A i \in 1 .. Len(s) : r[i] = s[i]
      /\ DOMAIN s = 1 .. Len(s) /\ DOMAIN r = 1 .. Len(r)
  OBVIOUS
<1>2. ToSet(r) = H \cup {t}
  BY ToSetAppend DEF CountsJust
<1> HIDE DEF r
<1>3. /\ \A i \in 1 .. Len(s) : s[i] # t
      /\ \A i, j \in 1 .. Len(s) : s[i] = s[j] => i = j
  BY <1>1, ToSetIs DEF CountsJust, IsInjective
<1>4. ASSUME NEW i \in 1 .. Len(r), NEW j \in 1 .. Len(r), r[i] = r[j]
      PROVE  i = j
  <2>1. CASE i \in 1 .. Len(s) /\ j \in 1 .. Len(s)
    BY <1>1, <1>3, <1>4, <2>1
  <2>2. CASE i \in 1 .. Len(s) /\ j = Len(s) + 1
    BY <1>1, <1>3, <1>4, <2>2
  <2>3. CASE i = Len(s) + 1 /\ j \in 1 .. Len(s)
    BY <1>1, <1>3, <1>4, <2>3
  <2> QED
    BY <1>1, <2>1, <2>2, <2>3
<1>5. CountsJust(r, H \cup {t})
  BY <1>1, <1>2, <1>4 DEF CountsJust, IsInjective
<1> QED
  BY <1>5 DEF r

\* What a flush takes, and what there is when there is none.
LEMMA NothingIs ==
    /\ Nothing \in FlushJob /\ Nothing.tape = <<>>
    /\ Nothing.update = [c \in Columns |-> 0] /\ Nothing.update \in [Columns -> Nat]
    /\ Nothing.candles = [m \in Minutes |-> <<>>] /\ Nothing.candles \in [Minutes -> Seq(Trades)]
BY DEF Nothing, FlushJob, Unsaid

LEMMA TakenIs ==
    ASSUME TapeTypeOK, NEW final \in BOOLEAN
    PROVE  /\ Taken(final) \in FlushJob
           /\ Taken(final).tape = batch /\ Taken(final).update = update
           /\ \A m \in Minutes : Taken(final).candles[m]
                  = IF final \/ m < clock THEN open[m] ELSE <<>>
           /\ Left(final) \in [Minutes -> Seq(Trades)]
           /\ \A m \in Minutes : Left(final)[m] = IF final \/ m < clock THEN <<>> ELSE open[m]
<1> DEFINE taken == [m \in Minutes |-> IF final \/ Closed(m) THEN open[m] ELSE <<>>]
<1>1. taken \in [Minutes -> Seq(Trades)] /\ batch \in Seq(Trades) /\ update \in [Columns -> Nat]
  BY DEF TapeTypeOK
<1>2. \A m \in Minutes : taken[m] = IF final \/ m < clock THEN open[m] ELSE <<>>
  BY DEF Closed
<1>3. Left(final) \in [Minutes -> Seq(Trades)]
  BY DEF TapeTypeOK, Left
<1>4. \A m \in Minutes : Left(final)[m] = IF final \/ m < clock THEN <<>> ELSE open[m]
  BY DEF Closed, Left
<1>5. Taken(final) = [tape |-> batch, update |-> update, candles |-> taken]
  BY DEF Taken
<1> HIDE DEF taken
<1> QED
  BY <1>1, <1>2, <1>3, <1>4, <1>5 DEF FlushJob

\* A minute's trades when they are taken: all are, or none.
LEMMA PlaceTaken ==
    ASSUME NEW m \in Int, NEW now \in Int, NEW o \in Seq(Trades), NEW row, NEW H,
           InOnePlace(m, o, <<>>, row, H, now), NEW final \in BOOLEAN,
           final /\ m = now => o = <<>>
    PROVE  InOnePlace(m, IF final \/ m < now THEN <<>> ELSE o,
                         IF final \/ m < now THEN o ELSE <<>>, row, H, now)
<1>1. CASE ~(final \/ m < now)
  BY <1>1
<1>2. CASE m < now
  <2>1. row = NoCandle => CountsJust(o, H)
    BY CountsNone DEF InOnePlace, NoCandle
  <2> QED
    BY <1>2, <2>1 DEF InOnePlace
<1>3. CASE final /\ ~(m < now)
  <2>1. o = <<>>
    <3>1. CASE m > now
      BY <1>3, <3>1, CountsNone DEF InOnePlace
    <3> QED
      BY <1>3, <3>1
  <2> QED
    BY <2>1
<1> QED
  BY <1>1, <1>2, <1>3

LEMMA TapeInvInit ==
    ASSUME TapeAssumption, TapeInit
    PROVE  TapeInv
<1>1. 0 \in Minutes
  BY DEF TapeAssumption, Minutes
<1>2. NoCandle \in CandleRow
  BY DEF NoCandle, CandleRow
<1>3. /\ open = [m \in Minutes |-> <<>>] /\ open \in [Minutes -> Seq(Trades)]
      /\ update = [c \in Columns |-> 0] /\ update \in [Columns -> Nat]
      /\ job \in FlushJob /\ job.update = [c \in Columns |-> 0]
      /\ job.candles = [m \in Minutes |-> <<>>]
  BY NothingIs DEF TapeInit
<1>4. {running, stopping, dropped} \subseteq BOOLEAN
  BY DEF TapeInit
<1>5. TapeTypeOK
  BY <1>1, <1>2, <1>3, <1>4 DEF TapeInit, TapeTypeOK, Unsaid
<1>6. NothingHandledIsForgotten
  BY DEF TapeInit, NothingHandledIsForgotten
<1>7. QuotesAreOrdered
  BY <1>3 DEF TapeInit, QuotesAreOrdered, QuotesInOrder, Unsaid
<1>8. MinuteIsInOnePlace
  BY <1>3, CountsNone DEF TapeInit, MinuteIsInOnePlace, InOnePlace, HandledOf
<1> QED
  BY <1>5, <1>6, <1>7, <1>8 DEF TapeInv

LEMMA TapeRests ==
    ASSUME TapeInv, clock' \in Minutes, clock <= clock', {running', stopping'} \subseteq BOOLEAN,
           UNCHANGED <<buffers, job, stored, quoted, history>>
    PROVE  TapeInv'
<1>1. /\ UNCHANGED <<open, batch, update, job, tape, candle, market, quoted, handled, lost>>
      /\ UNCHANGED <<spoiled, dropped>>
  BY DEF buffers, stored, history
<1>2. TapeTypeOK'
  <2>1. {running', stopping', dropped'} \subseteq BOOLEAN
    BY <1>1 DEF TapeInv, TapeTypeOK
  <2> QED
    BY <1>1, <2>1 DEF TapeInv, TapeTypeOK
<1>3. MinuteIsInOnePlace'
  <2>1. SUFFICES ASSUME NEW m \in Minutes \ spoiled
                 PROVE  InOnePlace(m, open[m], job.candles[m], candle[m], HandledOf(m), clock')
    BY <1>1 DEF MinuteIsInOnePlace, HandledOf
  <2>2. InOnePlace(m, open[m], job.candles[m], candle[m], HandledOf(m), clock)
    BY DEF TapeInv, MinuteIsInOnePlace
  <2>3. m \in Int /\ clock \in Int /\ clock' \in Int
    BY DEF Minutes, TapeInv, TapeTypeOK
  <2>4. (m > clock' => m > clock) /\ (m < clock => m < clock')
    BY <2>3
  <2> QED
    BY <2>2, <2>4 DEF InOnePlace
<1> QED
  BY <1>1, <1>2, <1>3 DEF TapeInv, NothingHandledIsForgotten, QuotesAreOrdered

\* A trade joins the batch and the bucket of its minute.
LEMMA OnTradeKeeps ==
    ASSUME TapeAssumption, TapeInv, NEW t \in Trades, OnTrade(t)
    PROVE  TapeInv'
<1> DEFINE mt == MinuteOf[t]
<1>1. /\ mt <= clock /\ batch' = Append(batch, t) /\ open' = [open EXCEPT ![mt] = Append(@, t)]
      /\ handled' = handled \cup {t}
      /\ spoiled \subseteq spoiled' /\ spoiled' \subseteq spoiled \cup {mt}
      /\ t \in handled \/ mt < clock => mt \in spoiled'
      /\ UNCHANGED <<clock, running, stopping, update, job, tape, candle, market, quoted,
                     lost, dropped>>
  BY DEF OnTrade, AddTrade, stored
<1>2. mt \in Minutes /\ mt \in Int /\ clock \in Int
  BY DEF TapeAssumption, Minutes, TapeInv, TapeTypeOK
<1>3. /\ open \in [Minutes -> Seq(Trades)] /\ batch \in Seq(Trades) /\ Append(batch, t) \in Seq(Trades)
  BY DEF TapeInv, TapeTypeOK
<1>4. /\ open'[mt] = Append(open[mt], t) /\ open[mt] \in Seq(Trades)
      /\ Append(open[mt], t) \in Seq(Trades) /\ \A m \in Minutes \ {mt} : open'[m] = open[m]
  <2> HIDE DEF mt
  <2> QED
    BY <1>1, <1>2, <1>3
<1>5. TapeTypeOK'
  <2>1. open' \in [Minutes -> Seq(Trades)]
    <3> HIDE DEF mt
    <3> QED
      BY <1>1, <1>3, <1>4
  <2>2. {running', stopping', dropped'} \subseteq BOOLEAN
    BY <1>1 DEF TapeInv, TapeTypeOK
  <2>3. handled' \subseteq Trades /\ spoiled' \subseteq Minutes
    BY <1>1, <1>2 DEF TapeInv, TapeTypeOK
  <2> QED
    BY <1>1, <1>3, <2>1, <2>2, <2>3 DEF TapeInv, TapeTypeOK
<1>6. NothingHandledIsForgotten'
  <2>1. ToSet(batch') = ToSet(batch) \cup {t}
    BY <1>1, <1>3, ToSetAppend
  <2> QED
    BY <1>1, <2>1 DEF TapeInv, NothingHandledIsForgotten
<1>7. MinuteIsInOnePlace'
  <2>1. SUFFICES ASSUME NEW m \in Minutes \ spoiled'
                 PROVE  InOnePlace(m, open'[m], job.candles[m], candle[m], HandledOf(m)', clock)
    BY <1>1 DEF MinuteIsInOnePlace
  <2>2. InOnePlace(m, open[m], job.candles[m], candle[m], HandledOf(m), clock)
    BY <1>1 DEF TapeInv, MinuteIsInOnePlace
  <2>3. CASE m # mt
    <3>1. HandledOf(m)' = HandledOf(m)
      BY <1>1, <2>3 DEF HandledOf
    <3> QED
      BY <1>4, <2>2, <2>3, <3>1
  <2>4. CASE m = mt
    <3>1. t \notin HandledOf(m) /\ m = clock
      BY <1>1, <1>2, <2>4 DEF HandledOf
    <3>2. HandledOf(m)' = HandledOf(m) \cup {t}
      BY <1>1, <2>4 DEF HandledOf
    <3>3. /\ CountsJust(open[m], HandledOf(m))
          /\ job.candles[m] = <<>> /\ candle[m] = NoCandle
      BY <1>2, <2>2, <3>1 DEF InOnePlace
    <3>4. CountsJust(open'[m], HandledOf(m)')
      <4>1. open[m] \in Seq(Trades) /\ open'[m] = Append(open[m], t)
        BY <1>4, <2>4
      <4>2. CountsJust(Append(open[m], t), HandledOf(m) \cup {t})
        BY <3>1, <3>3, <4>1, CountsOneMore
      <4> QED
        BY <3>2, <4>1, <4>2
    <3> QED
      BY <1>2, <3>1, <3>3, <3>4 DEF InOnePlace
  <2> QED
    BY <2>3, <2>4
<1> QED
  BY <1>1, <1>5, <1>6, <1>7 DEF TapeInv, QuotesAreOrdered

\* The newest ticker message is newer than what any column is known from.
LEMMA OnTickerKeeps ==
    ASSUME TapeInv, NEW C \in SUBSET Columns, OnTicker(C)
    PROVE  TapeInv'
<1>1. /\ quoted' = quoted + 1 /\ update' = [c \in Columns |-> IF c \in C THEN quoted' ELSE Unsaid]
      /\ UNCHANGED <<clock, running, stopping, open, batch, job, tape, candle, market,
                     handled, lost, spoiled, dropped>>
  BY DEF OnTicker, stored
<1>2. quoted \in Nat /\ quoted' \in Nat
  BY <1>1 DEF TapeInv, TapeTypeOK
<1>3. TapeTypeOK'
  <2>1. update' \in [Columns -> Nat]
    BY <1>1, <1>2 DEF Unsaid
  <2>2. {running', stopping', dropped'} \subseteq BOOLEAN
    BY <1>1 DEF TapeInv, TapeTypeOK
  <2> QED
    BY <1>1, <1>2, <2>1, <2>2 DEF TapeInv, TapeTypeOK
<1>4. QuotesAreOrdered'
  <2>1. SUFFICES ASSUME NEW c \in Columns
                 PROVE  QuotesInOrder(update'[c], job.update[c], market[c], quoted')
    BY <1>1 DEF QuotesAreOrdered
  <2>2. QuotesInOrder(update[c], job.update[c], market[c], quoted)
    BY DEF TapeInv, QuotesAreOrdered
  <2>3. job.update[c] \in Nat /\ market[c] \in Nat
    BY DEF TapeInv, TapeTypeOK, FlushJob
  <2>4. update'[c] = quoted + 1 \/ update'[c] = 0
    BY <1>1 DEF Unsaid
  <2> QED
    BY <1>1, <1>2, <2>2, <2>3, <2>4 DEF QuotesInOrder, Unsaid
<1> QED
  BY <1>1, <1>3, <1>4 DEF TapeInv, NothingHandledIsForgotten, MinuteIsInOnePlace, HandledOf

\* What is taken is with the flush from then on; what the flush before it held was
\* committed or is known to be lost.
LEMMA TakeKeeps ==
    ASSUME TapeInv, NEW final \in BOOLEAN, Take(final),
           UNCHANGED <<clock, tape, candle, market, quoted, handled>>,
           lost' \subseteq Trades, lost \cup ToSet(job.tape) \subseteq lost',
           spoiled' \subseteq Minutes, spoiled \cup MinutesIn(job.candles) \subseteq spoiled',
           final /\ open[clock] # <<>> => clock \in spoiled',
           {running', stopping', dropped'} \subseteq BOOLEAN
    PROVE  TapeInv'
<1>1. job' = Taken(final) /\ open' = Left(final) /\ batch' = <<>> /\ update' = Nothing.update
  BY DEF Take
<1>2. /\ job' \in FlushJob /\ job'.tape = batch /\ job'.update = update
      /\ \A m \in Minutes :
            job'.candles[m] = IF final \/ m < clock THEN open[m] ELSE <<>>
      /\ open' \in [Minutes -> Seq(Trades)]
      /\ \A m \in Minutes : open'[m] = IF final \/ m < clock THEN <<>> ELSE open[m]
  BY <1>1, TakenIs DEF TapeInv
<1>3. update' \in [Columns -> Nat] /\ \A c \in Columns : update'[c] = 0
  BY <1>1, NothingIs
<1>4. TapeTypeOK'
  BY <1>1, <1>2, <1>3 DEF TapeInv, TapeTypeOK
<1>5. NothingHandledIsForgotten'
  BY <1>2 DEF TapeInv, NothingHandledIsForgotten
<1>6. QuotesAreOrdered'
  <2>1. SUFFICES ASSUME NEW c \in Columns
                 PROVE  QuotesInOrder(0, update[c], market[c], quoted)
    BY <1>2, <1>3 DEF QuotesAreOrdered
  <2>2. QuotesInOrder(update[c], job.update[c], market[c], quoted) /\ quoted \in Nat
    BY DEF TapeInv, QuotesAreOrdered, TapeTypeOK
  <2> QED
    BY <2>2 DEF QuotesInOrder, Unsaid
<1>7. MinuteIsInOnePlace'
  <2>1. SUFFICES ASSUME NEW m \in Minutes \ spoiled'
                 PROVE  InOnePlace(m, open'[m], job'.candles[m], candle[m], HandledOf(m), clock)
    BY DEF MinuteIsInOnePlace, HandledOf
  <2>2. InOnePlace(m, open[m], job.candles[m], candle[m], HandledOf(m), clock)
    BY DEF TapeInv, MinuteIsInOnePlace
  <2>3. job.candles[m] = <<>>
    BY DEF MinutesIn
  <2>4. m \in Int /\ clock \in Int /\ open[m] \in Seq(Trades)
    BY DEF Minutes, TapeInv, TapeTypeOK
  <2>5. final /\ m = clock => open[m] = <<>>
    OBVIOUS
  <2>6. InOnePlace(m, IF final \/ m < clock THEN <<>> ELSE open[m],
                   IF final \/ m < clock THEN open[m] ELSE <<>>, candle[m], HandledOf(m), clock)
    BY <2>2, <2>3, <2>4, <2>5, PlaceTaken
  <2> QED
    BY <1>2, <2>6
<1> QED
  BY <1>4, <1>5, <1>6, <1>7 DEF TapeInv

LEMMA StartFlushKeeps ==
    ASSUME TapeInv, StartFlush
    PROVE  TapeInv'
<1>1. /\ job = Nothing /\ Take(stopping) /\ spoiled' = spoiled \cup CutShort(stopping)
      /\ UNCHANGED <<clock, running, stopping, tape, candle, market, quoted, handled, lost, dropped>>
  BY DEF StartFlush, stored
<1>2. ToSet(job.tape) = {} /\ MinutesIn(job.candles) = {}
  BY <1>1, NothingIs, ToSetEmpty DEF MinutesIn
<1>3. stopping \in BOOLEAN /\ clock \in Minutes /\ spoiled \subseteq Minutes /\ lost \subseteq Trades
  BY DEF TapeInv, TapeTypeOK
<1>4. spoiled' \subseteq Minutes /\ (stopping /\ open[clock] # <<>> => clock \in spoiled')
  BY <1>1, <1>3 DEF CutShort
<1>5. {running', stopping', dropped'} \subseteq BOOLEAN
  BY <1>1 DEF TapeInv, TapeTypeOK
<1> QED
  BY <1>1, <1>2, <1>3, <1>4, <1>5, TakeKeeps

LEMMA StreamEndsKeeps ==
    ASSUME TapeAssumption, TapeInv, StreamEnds
    PROVE  TapeInv'
<1>1. /\ running' = FALSE /\ lost' = lost \cup ToSet(job.tape)
      /\ spoiled' = spoiled \cup (MinutesIn(job.candles) \cup MinutesOf(job.tape) \cup CutShort(TRUE))
      /\ dropped' = (dropped \/ job.update # Nothing.update) /\ Take(TRUE)
      /\ UNCHANGED <<clock, stopping, tape, candle, market, quoted, handled>>
  BY DEF StreamEnds, Lose, stored
<1>2. job.tape \in Seq(Trades) /\ clock \in Minutes /\ spoiled \subseteq Minutes /\ lost \subseteq Trades
  BY DEF TapeInv, TapeTypeOK, FlushJob
<1>3. lost' \subseteq Trades /\ lost \cup ToSet(job.tape) \subseteq lost'
  BY <1>1, <1>2, ToSetIs
<1>4. spoiled' \subseteq Minutes /\ spoiled \cup MinutesIn(job.candles) \subseteq spoiled'
  BY <1>1, <1>2, MinutesOfIs DEF MinutesIn, CutShort
<1>5. TRUE /\ open[clock] # <<>> => clock \in spoiled'
  BY <1>1 DEF CutShort
<1>6. {running', stopping', dropped'} \subseteq BOOLEAN
  BY <1>1 DEF TapeInv, TapeTypeOK
<1> QED
  BY <1>1, <1>3, <1>4, <1>5, <1>6, TakeKeeps

\* A commit moves what the flush took to the tables.
LEMMA CommitKeeps ==
    ASSUME TapeInv, Commit
    PROVE  TapeInv'
<1>1. /\ tape' = tape \cup ToSet(job.tape)
      /\ candle' = [m \in Minutes |-> MergeCandle(candle[m], job.candles[m])]
      /\ market' = (IF job.update = Nothing.update THEN market
                    ELSE [c \in Columns |-> Coalesce(job.update[c], market[c])])
      /\ batch' = batch /\ job' = Nothing
      /\ UNCHANGED <<clock, running, stopping, open, update, quoted, handled, lost, spoiled, dropped>>
  BY DEF Commit, AfterCommit, history
<1>2. /\ job.tape \in Seq(Trades) /\ job.candles \in [Minutes -> Seq(Trades)]
      /\ job.update \in [Columns -> Nat] /\ market \in [Columns -> Nat]
      /\ candle \in [Minutes -> CandleRow] /\ update \in [Columns -> Nat] /\ quoted \in Nat
  BY DEF TapeInv, TapeTypeOK, FlushJob
<1>3. /\ job' \in FlushJob /\ job'.tape = <<>>
      /\ \A m \in Minutes : job'.candles[m] = <<>>
      /\ \A c \in Columns : job'.update[c] = 0
  BY <1>1, NothingIs
<1>4. /\ market' \in [Columns -> Nat]
      /\ \A c \in Columns : market'[c] = IF job.update[c] = 0 THEN market[c] ELSE job.update[c]
  <2>1. CASE job.update = Nothing.update
    BY <1>1, <1>2, <2>1, NothingIs
  <2>2. CASE job.update # Nothing.update
    BY <1>1, <1>2, <2>2 DEF Coalesce, Unsaid
  <2> QED
    BY <2>1, <2>2
<1>5. ASSUME NEW m \in Minutes
      PROVE  /\ candle'[m] \in CandleRow
             /\ job.candles[m] = <<>> => candle'[m] = candle[m]
             /\ job.candles[m] # <<>> /\ candle[m] = NoCandle
                   => candle'[m] = [first |-> {Head(job.candles[m])}, counts |-> job.candles[m]]
  <2>1. candle'[m] = MergeCandle(candle[m], job.candles[m])
    BY <1>1
  <2>2. job.candles[m] \in Seq(Trades) /\ candle[m] \in CandleRow
    BY <1>2
  <2>3. CASE job.candles[m] = <<>>
    BY <2>1, <2>2, <2>3 DEF MergeCandle
  <2>4. CASE job.candles[m] # <<>>
    <3> DEFINE j == job.candles[m]
               row == candle[m]
               f == IF row = NoCandle THEN {Head(j)} ELSE row.first
    <3>1. candle'[m] = [first |-> f, counts |-> j]
      BY <2>1, <2>4 DEF MergeCandle
    <3>2. j \in Seq(Trades) /\ Head(j) \in Trades /\ row.first \in SUBSET Trades
      BY <2>2, <2>4, HeadTailProperties DEF CandleRow
    <3>3. f \in SUBSET Trades /\ (row = NoCandle => f = {Head(j)})
      BY <3>2
    <3> HIDE DEF j, row, f
    <3>4. candle'[m] \in CandleRow
      BY <3>1, <3>2, <3>3 DEF CandleRow
    <3> QED
      BY <2>4, <3>1, <3>3, <3>4 DEF j, row
  <2> QED
    BY <2>3, <2>4
<1>6. TapeTypeOK'
  <2>1. candle' \in [Minutes -> CandleRow]
    BY <1>1, <1>5
  <2>2. tape' \subseteq Trades
    BY <1>1, <1>2, ToSetIs DEF TapeInv, TapeTypeOK
  <2>3. {running', stopping', dropped'} \subseteq BOOLEAN
    BY <1>1 DEF TapeInv, TapeTypeOK
  <2>4. UNCHANGED <<clock, open, batch, update, quoted, handled, lost, spoiled>>
    BY <1>1
  <2> QED
    BY <1>3, <1>4, <2>1, <2>2, <2>3, <2>4 DEF TapeInv, TapeTypeOK
<1>7. NothingHandledIsForgotten'
  BY <1>1 DEF TapeInv, NothingHandledIsForgotten
<1>8. QuotesAreOrdered'
  <2>1. SUFFICES ASSUME NEW c \in Columns
                 PROVE  QuotesInOrder(update[c], 0, market'[c], quoted)
    BY <1>1, <1>3 DEF QuotesAreOrdered
  <2>2. QuotesInOrder(update[c], job.update[c], market[c], quoted)
    BY DEF TapeInv, QuotesAreOrdered
  <2>3. update[c] \in Nat /\ job.update[c] \in Nat /\ market[c] \in Nat
    BY <1>2
  <2> QED
    BY <1>2, <1>4, <2>2, <2>3 DEF QuotesInOrder, Unsaid
<1>9. MinuteIsInOnePlace'
  <2>1. SUFFICES ASSUME NEW m \in Minutes \ spoiled
                 PROVE  InOnePlace(m, open[m], <<>>, candle'[m], HandledOf(m), clock)
    BY <1>1, <1>3 DEF MinuteIsInOnePlace, HandledOf
  <2>2. InOnePlace(m, open[m], job.candles[m], candle[m], HandledOf(m), clock)
    BY DEF TapeInv, MinuteIsInOnePlace
  <2>3. CASE job.candles[m] = <<>>
    BY <1>5, <2>2, <2>3
  <2>4. CASE job.candles[m] # <<>>
    <3>1. /\ CountsJust(job.candles[m], HandledOf(m)) /\ open[m] = <<>> /\ candle[m] = NoCandle
          /\ m < clock /\ (m > clock => HandledOf(m) = {})
      BY <2>2, <2>4 DEF InOnePlace
    <3>2. candle'[m].counts = job.candles[m] /\ candle'[m].first = {Head(job.candles[m])}
      <4>1. candle'[m] = [first |-> {Head(job.candles[m])}, counts |-> job.candles[m]]
        BY <1>5, <2>4, <3>1
      <4> QED
        BY <4>1
    <3> QED
      BY <2>4, <3>1, <3>2 DEF InOnePlace
  <2> QED
    BY <2>3, <2>4
<1> QED
  BY <1>6, <1>7, <1>8, <1>9 DEF TapeInv

\* What goes with a failed flush or a crash is known to be lost, and its minutes are.
LEMMA LossKeeps ==
    ASSUME TapeAssumption, TapeInv, FlushFails \/ Crash
    PROVE  TapeInv'
<1> DEFINE s == IF FlushFails THEN job.tape ELSE batch \o job.tape
<1>1. /\ batch \in Seq(Trades) /\ job.tape \in Seq(Trades) /\ batch \o job.tape \in Seq(Trades)
      /\ spoiled \subseteq Minutes /\ lost \subseteq Trades
  BY DEF TapeInv, TapeTypeOK, FlushJob
<1>2. ToSet(batch \o job.tape) = ToSet(batch) \cup ToSet(job.tape)
  BY <1>1, ToSetConcat
<1>3. /\ job' = Nothing /\ UNCHANGED <<clock, stopping, tape, candle, market, quoted, handled>>
      /\ {running', dropped'} \subseteq BOOLEAN
      /\ lost \cup ToSet(job.tape) \subseteq lost' /\ lost' \subseteq Trades
      /\ spoiled \cup MinutesIn(job.candles) \subseteq spoiled' /\ spoiled' \subseteq Minutes
  <2>1. CASE FlushFails
    <3>1. /\ job' = Nothing /\ UNCHANGED <<clock, running, stopping, tape, candle, market, quoted>>
          /\ handled' = handled /\ lost' = lost \cup ToSet(job.tape)
          /\ spoiled' = spoiled \cup (MinutesIn(job.candles) \cup MinutesOf(job.tape))
          /\ dropped' = (dropped \/ job.update # Nothing.update)
      BY <2>1 DEF FlushFails, Lose, stored
    <3>2. {running', dropped'} \subseteq BOOLEAN
      BY <3>1 DEF TapeInv, TapeTypeOK
    <3>3. lost' \subseteq Trades /\ spoiled' \subseteq Minutes
      BY <1>1, <3>1, ToSetIs, MinutesOfIs DEF MinutesIn
    <3> QED
      BY <3>1, <3>2, <3>3
  <2>2. CASE Crash
    <3> DEFINE u == [c \in Columns |-> Coalesce(update[c], job.update[c])]
    <3>1. /\ job' = Nothing /\ UNCHANGED <<clock, stopping, tape, candle, market, quoted>>
          /\ handled' = handled /\ lost' = lost \cup ToSet(batch \o job.tape) /\ running' = FALSE
          /\ spoiled' = spoiled \cup (MinutesIn(open) \cup MinutesIn(job.candles)
                                        \cup MinutesOf(batch \o job.tape))
          /\ dropped' = (dropped \/ u # Nothing.update)
      BY <2>2 DEF Crash, Lose, stored
    <3> HIDE DEF u
    <3>2. {running', dropped'} \subseteq BOOLEAN
      BY <3>1
    <3>3. lost' \subseteq Trades /\ spoiled' \subseteq Minutes
      BY <1>1, <3>1, ToSetIs, MinutesOfIs DEF MinutesIn
    <3> QED
      BY <1>2, <3>1, <3>2, <3>3
  <2> QED
    BY <2>1, <2>2
<1>4. /\ open' \in [Minutes -> Seq(Trades)] /\ batch' \in Seq(Trades)
      /\ update' \in [Columns -> Nat]
      /\ ToSet(batch) \subseteq ToSet(batch') \cup lost'
      /\ \A c \in Columns : update'[c] \in {0, update[c]}
      /\ \A m \in Minutes \ spoiled' : open'[m] = open[m]
  <2>1. CASE FlushFails
    BY <2>1 DEF FlushFails, buffers, TapeInv, TapeTypeOK
  <2>2. CASE Crash
    <3>1. /\ open' = Nothing.candles /\ batch' = <<>> /\ update' = Nothing.update
          /\ lost' = lost \cup ToSet(batch \o job.tape) /\ MinutesIn(open) \subseteq spoiled'
      BY <2>2 DEF Crash, Lose
    <3>2. \A m \in Minutes \ spoiled' : open[m] = <<>> /\ open'[m] = <<>>
      BY <3>1, NothingIs DEF MinutesIn
    <3> QED
      BY <1>2, <3>1, <3>2, NothingIs
  <2> QED
    BY <2>1, <2>2
<1>5. /\ job' \in FlushJob /\ job'.tape = <<>>
      /\ \A m \in Minutes : job'.candles[m] = <<>>
      /\ \A c \in Columns : job'.update[c] = 0
  BY <1>3, NothingIs
<1>6. TapeTypeOK'
  <2>1. {running', stopping', dropped'} \subseteq BOOLEAN
    <3>1. stopping' = stopping /\ stopping \in BOOLEAN
      BY <1>3 DEF TapeInv, TapeTypeOK
    <3> QED
      BY <1>3, <3>1
  <2>2. UNCHANGED <<clock, tape, candle, market, quoted, handled>>
    BY <1>3
  <2> QED
    BY <1>3, <1>4, <1>5, <2>1, <2>2 DEF TapeInv, TapeTypeOK
<1>7. NothingHandledIsForgotten'
  BY <1>3, <1>4 DEF TapeInv, NothingHandledIsForgotten
<1>8. QuotesAreOrdered'
  <2>1. SUFFICES ASSUME NEW c \in Columns
                 PROVE  QuotesInOrder(update'[c], 0, market[c], quoted)
    BY <1>3, <1>5 DEF QuotesAreOrdered
  <2>2. QuotesInOrder(update[c], job.update[c], market[c], quoted) /\ quoted \in Nat
        /\ update[c] \in Nat
    BY DEF TapeInv, QuotesAreOrdered, TapeTypeOK
  <2>3. update'[c] = 0 \/ update'[c] = update[c]
    BY <1>4
  <2> QED
    BY <2>2, <2>3 DEF QuotesInOrder, Unsaid
<1>9. MinuteIsInOnePlace'
  <2>1. SUFFICES ASSUME NEW m \in Minutes \ spoiled'
                 PROVE  InOnePlace(m, open[m], <<>>, candle[m], HandledOf(m), clock)
    BY <1>3, <1>4, <1>5 DEF MinuteIsInOnePlace, HandledOf
  <2>2. InOnePlace(m, open[m], job.candles[m], candle[m], HandledOf(m), clock)
    BY <1>3 DEF TapeInv, MinuteIsInOnePlace
  <2>3. job.candles[m] = <<>>
    BY <1>3 DEF MinutesIn
  <2> QED
    BY <2>2, <2>3
<1> QED
  BY <1>6, <1>7, <1>8, <1>9 DEF TapeInv

\* Every trade that was handled is somewhere, every minute's trades are in one place,
\* and quotes are held in the order they came.
THEOREM TapeInvariant == TapeSpec => []TapeInv
<1>1. TapeInit => TapeInv
  BY TapeAssumption, TapeInvInit
<1>2. ASSUME TapeInv, [TapeNext]_tapeVars
      PROVE  TapeInv'
  <2>0. clock \in Minutes /\ clock \in Int /\ MaxMinute \in Nat /\ {running, stopping} \subseteq BOOLEAN
    BY <1>2, TapeAssumption DEF TapeInv, TapeTypeOK, Minutes, TapeAssumption
  <2>1. CASE Minute \/ SetStop \/ Restart \/ UNCHANGED tapeVars
    <3>1. UNCHANGED <<buffers, job, stored, quoted, history>>
      BY <2>1 DEF Minute, SetStop, Restart, tapeVars
    <3>2. clock' \in Minutes /\ clock <= clock'
      BY <2>0, <2>1 DEF Minute, SetStop, Restart, tapeVars, Minutes
    <3>3. {running', stopping'} \subseteq BOOLEAN
      <4>1. running' = running \/ running' = TRUE
        BY <2>1 DEF Minute, SetStop, Restart, tapeVars
      <4>2. stopping' = stopping \/ stopping' = TRUE \/ stopping' = FALSE
        BY <2>1 DEF Minute, SetStop, Restart, tapeVars
      <4> QED
        BY <2>0, <4>1, <4>2
    <3> QED
      BY <1>2, <3>1, <3>2, <3>3, TapeRests
  <2>2. ASSUME NEW t \in Trades, OnTrade(t)
        PROVE  TapeInv'
    BY <1>2, <2>2, TapeAssumption, OnTradeKeeps
  <2>3. ASSUME NEW C \in SUBSET Columns \ {{}}, OnTicker(C)
        PROVE  TapeInv'
    BY <1>2, <2>3, OnTickerKeeps
  <2> QED
    BY <1>2, <2>1, <2>2, <2>3, TapeAssumption, StartFlushKeeps, CommitKeeps, LossKeeps,
       StreamEndsKeeps DEF TapeNext
<1> QED
  BY <1>1, <1>2, PTL DEF TapeSpec

\* No trade is forgotten between arrival and commit, for any number of trades
\* (ingest/streams.py's _on_trade and flush).
THEOREM TradesAreKept == TapeSpec => []NothingHandledIsForgotten
<1>1. TapeInv => NothingHandledIsForgotten
  BY DEF TapeInv
<1> QED
  BY <1>1, TapeInvariant, PTL

\* A candle that is stored counts the trades of its minute, each once
\* (ingest/streams.py's CandleBuilder and _insert_candles).
THEOREM CandlesAreTheirMinutes == TapeSpec => []CandleIsItsMinute
<1>1. ASSUME TapeInv PROVE CandleIsItsMinute
  <2>1. SUFFICES ASSUME NEW m \in Minutes \ spoiled, candle[m] # NoCandle
                 PROVE  /\ IsInjective(candle[m].counts)
                        /\ ToSet(candle[m].counts) = {t \in handled : MinuteOf[t] = m}
                        /\ candle[m].first = {Head(candle[m].counts)}
    BY DEF CandleIsItsMinute
  <2>2. InOnePlace(m, open[m], job.candles[m], candle[m], HandledOf(m), clock)
    BY <1>1 DEF TapeInv, MinuteIsInOnePlace
  <2>3. CountsJust(candle[m].counts, HandledOf(m)) /\ candle[m].first = {Head(candle[m].counts)}
    BY <2>1, <2>2 DEF InOnePlace
  <2> QED
    BY <2>3 DEF CountsJust, HandledOf
<1> QED
  BY <1>1, TapeInvariant, PTL

\* No flush takes a quote back to an older message (ingest/streams.py's
\* _update_tickers).
THEOREM QuotesNeverGoBack == TapeSpec => QuotesOnlyAdvance
<1>1. ASSUME TapeInv, [TapeNext]_tapeVars
      PROVE  [\A c \in Columns : market'[c] >= market[c]]_tapeVars
  <2>1. ASSUME NEW c \in Columns
        PROVE  market[c] \in Nat /\ job.update[c] \in Nat /\ (job.update[c] # 0 => market[c] <= job.update[c])
    BY <1>1 DEF TapeInv, TapeTypeOK, FlushJob, QuotesAreOrdered, QuotesInOrder, Unsaid
  <2>2. CASE Commit
    <3>1. market' = market \/ market' = [c \in Columns |-> Coalesce(job.update[c], market[c])]
      BY <2>2 DEF Commit
    <3> QED
      BY <2>1, <3>1 DEF Coalesce, Unsaid
  <2>3. CASE market' = market
    BY <2>1, <2>3
  <2>4. Commit \/ market' = market
    BY <1>1 DEF TapeNext, Minute, StartFlush, FlushFails, SetStop, StreamEnds, Crash, Restart,
       OnTrade, OnTicker, stored, tapeVars
  <2> QED
    BY <2>2, <2>3, <2>4
<1> QED
  BY <1>1, TapeInvariant, PTL DEF TapeSpec, QuotesOnlyAdvance

===============================================================================
