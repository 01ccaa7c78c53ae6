------------------------------ MODULE RestClient -------------------------------
(***************************************************************************)
(* KalshiRestClient.request (backend/app/kalshi/rest.py) and the token     *)
(* bucket it draws on (kalshi/ratelimit.py): several tasks of a process    *)
(* share one client, hence one bucket for reads and one for writes.        *)
(*                                                                         *)
(* Time is in ticks and tokens are whole; a bucket starts full.            *)
(***************************************************************************)
EXTENDS Integers, Sequences, FiniteSets

CONSTANTS
    Requests,       \* the calls made
    Writes,         \* those among them with a method of _WRITE_METHODS
    MaxRetries,     \* attempts of a call
    Capacity,       \* tokens a bucket holds
    MaxRate,        \* tokens a tick refills, unthrottled
    MinRate,        \* and at worst
    SuccessesPerIncrease,
    TokenCost,      \* what a request costs
    MaxBackoff,     \* longest delay after an attempt, in ticks
    MaxTicks        \* bound: the last tick

ASSUME RestAssumption ==
    /\ Writes \subseteq Requests
    /\ MaxRetries \in Nat \ {0} /\ SuccessesPerIncrease \in Nat \ {0}
    /\ {Capacity, MaxRate, MaxBackoff, MaxTicks} \subseteq Nat
    /\ MinRate \in 1..MaxRate /\ TokenCost \in 1..Capacity

VARIABLES
    tick,
    request,        \* per call: where it is, its attempt, when it may go on
    bucket,         \* per direction: tokens, rate and successes in a row
    executed,       \* how often the exchange carried out each call
    sends           \* when each request of a direction was sent, in order

restVars == <<tick, request, bucket, executed, sends>>

Directions == {"read", "write"}
DirectionOf(r) == IF r \in Writes THEN "write" ELSE "read"
Delays == 1..MaxBackoff

RestInit ==
    /\ tick = 0
    /\ request = [r \in Requests |-> [pc |-> "idle", attempt |-> 0, ready |-> 0]]
    /\ bucket = [d \in Directions |-> [tokens |-> Capacity, rate |-> MaxRate, successes |-> 0]]
    /\ executed = [r \in Requests |-> 0]
    /\ sends = [d \in Directions |-> <<>>]

-------------------------------------------------------------------------------
(* ratelimit.py *)

AtMost(n, most) == IF n > most THEN most ELSE n
AtLeast(n, least) == IF n < least THEN least ELSE n

\* _refill, which precedes every use of the tokens and every change of the rate:
\* as if the tokens came in with each tick.
Refilled_Unbounded(b) == [b EXCEPT !.tokens = b.tokens + b.rate]
Refilled(b) == [b EXCEPT !.tokens = AtMost(b.tokens + b.rate, Capacity)]

\* penalize: halve the rate and leave the bucket a delay in debt.
Penalized(b, delay) ==
    LET rate == AtLeast(b.rate \div 2, MinRate)
    IN [tokens |-> AtMost(-(delay * rate), b.tokens), rate |-> rate, successes |-> 0]

\* record_success: a run of them raises a lowered rate by a step.
Credited(b) ==
    IF b.rate >= MaxRate THEN b
    ELSE IF b.successes + 1 < SuccessesPerIncrease
    THEN [b EXCEPT !.successes = b.successes + 1]
    ELSE [b EXCEPT !.successes = 0, !.rate = AtMost(b.rate + 1, MaxRate)]

-------------------------------------------------------------------------------
(* request *)

Start(r) ==
    /\ request[r].pc = "idle"
    /\ request' = [request EXCEPT ![r].pc = "acquire"]
    /\ UNCHANGED <<tick, bucket, executed, sends>>

\* acquire looks and takes without giving way; a caller that found too few
\* tokens sleeps and looks again, so whoever looks first takes them.
Send(r) ==
    LET d == DirectionOf(r)
    IN /\ request[r].pc = "acquire" /\ bucket[d].tokens >= TokenCost
       /\ bucket' = [bucket EXCEPT ![d].tokens = bucket[d].tokens - TokenCost]
       /\ request' = [request EXCEPT ![r].pc = "flying"]
       /\ sends' = [sends EXCEPT ![d] = Append(sends[d], tick)]
       /\ UNCHANGED <<tick, executed>>

\* The exchange carries a request out (the other outcomes may come before it or
\* after it).
Execute(r) ==
    /\ request[r].pc = "flying"
    /\ request' = [request EXCEPT ![r].pc = "executed"]
    /\ executed' = [executed EXCEPT ![r] = executed[r] + 1]
    /\ UNCHANGED <<tick, bucket, sends>>

InFlight(r) == request[r].pc \in {"flying", "executed"}
Ends(r, pc) == request' = [request EXCEPT ![r].pc = pc]

\* Sleep, then the next attempt, or the end of them.
Retry(r, delay) ==
    request' = [request EXCEPT ![r] =
        [pc |-> "backoff", attempt |-> request[r].attempt + 1, ready |-> tick + delay]]

\* 2xx.
Ok(r) ==
    /\ request[r].pc = "executed" /\ Ends(r, "ok")
    /\ bucket' = [bucket EXCEPT ![DirectionOf(r)] = Credited(bucket[DirectionOf(r)])]
    /\ UNCHANGED <<tick, executed, sends>>

\* 4xx other than 429: not carried out, and no retry will change it.
Refused(r) ==
    /\ request[r].pc = "flying" /\ Ends(r, "refused")
    /\ UNCHANGED <<tick, bucket, executed, sends>>

\* 429: not carried out, retried whatever the method.
Throttled(r) ==
    /\ request[r].pc = "flying"
    /\ \E delay \in Delays :
        /\ Retry(r, delay)
        /\ bucket' = [bucket EXCEPT ![DirectionOf(r)] =
                        Penalized(bucket[DirectionOf(r)], delay)]
    /\ UNCHANGED <<tick, executed, sends>>

\* A network error or a 5xx says nothing of whether the request was carried out:
\* a read goes again, a write is surfaced as ambiguous.
MayRepeat_Any(r) == TRUE
MayRepeat(r) == r \notin Writes
Unclear(r) ==
    /\ InFlight(r)
    /\ \/ /\ MayRepeat(r)
          /\ \E delay \in Delays : Retry(r, delay)
       \/ ~MayRepeat(r) /\ Ends(r, "ambiguous")
    /\ UNCHANGED <<tick, bucket, executed, sends>>

\* Errors httpx raises that request does not catch (a dropped connection, a
\* protocol error) end the call, read or write, as they are.
Raised(r) ==
    /\ InFlight(r) /\ Ends(r, "raised")
    /\ UNCHANGED <<tick, bucket, executed, sends>>

\* After the sleep; the attempts run out with an error of status 0, the one an
\* ambiguous write has.
Resume(r) ==
    /\ request[r].pc = "backoff" /\ tick >= request[r].ready
    /\ Ends(r, IF request[r].attempt < MaxRetries THEN "acquire" ELSE "ambiguous")
    /\ UNCHANGED <<tick, bucket, executed, sends>>

Tick ==
    /\ tick < MaxTicks /\ tick' = tick + 1
    /\ bucket' = [d \in Directions |-> Refilled(bucket[d])]
    /\ UNCHANGED <<request, executed, sends>>

RestNext ==
    \/ Tick
    \/ \E r \in Requests : \/ Start(r) \/ Send(r) \/ Execute(r) \/ Ok(r) \/ Refused(r)
                           \/ Throttled(r) \/ Unclear(r) \/ Raised(r) \/ Resume(r)

RestSpec == RestInit /\ [][RestNext]_restVars

-------------------------------------------------------------------------------
(* Properties *)

\* Retries never double a write: whatever mix of rejections, server errors and
\* lost answers a call meets, the exchange carries a write out at most once, and
\* one reported as refused not at all.
WriteReachesOnce ==
    \A r \in Writes : executed[r] <= (IF request[r].pc = "refused" THEN 0 ELSE 1)

\* The client keeps the tier's budget over every stretch of time, however many
\* tasks share it and whatever the rate adapted to: between any two requests of
\* a direction no more were sent than a full bucket and the refill of the time
\* between them pay for.
WithinBudget ==
    \A d \in Directions : \A i, j \in DOMAIN sends[d] :
        i < j => (j - i + 1) * TokenCost <= Capacity + MaxRate * (sends[d][j] - sends[d][i])

===============================================================================
