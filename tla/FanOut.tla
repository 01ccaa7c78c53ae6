-------------------------------- MODULE FanOut ---------------------------------
(***************************************************************************)
(* The websocket hub of backend/app/api/ws.py: one Redis subscription, one *)
(* pump task, and a bounded queue for every browser. A message is its      *)
(* number in the order of publication; its topic is a market whose price   *)
(* moved, or Urgent: an approval request, a fill, a signal, a system event.*)
(***************************************************************************)
EXTENDS Integers, FiniteSets, Sequences, SequencesExt

CONSTANTS
    Clients,        \* browsers
    Watchable,      \* markets a page can watch
    Urgent,         \* the topic of every channel but the ticks
    Pumps,          \* identities of pump tasks
    NoPump,         \* _task is None
    QueueMax,       \* CLIENT_QUEUE_MAX
    MaxMessages     \* bound: messages published

ASSUME FanOutAssumption ==
    /\ Urgent \notin Watchable /\ NoPump \notin Pumps
    /\ QueueMax \in Nat \ {0} /\ MaxMessages \in Nat

VARIABLES
    joined,         \* Hub._clients
    watching,       \* Client.tickers; empty means everything
    queued,         \* Client.queue
    shown,          \* what its browser was sent
    task,           \* Hub._task
    pumping,        \* what each pump task is doing
    published,      \* how many messages there were
    overflown,      \* history: clients that had a message dropped
    urgent,         \* history: urgent messages a pump read while a client was joined
    deaf            \* history: the pump failed after the newest registration

hubVars == <<joined, watching, queued, shown, task, pumping, published, overflown,
             urgent, deaf>>

HubInit ==
    /\ joined = {}
    /\ watching = [c \in Clients |-> {}]
    /\ queued = [c \in Clients |-> <<>>] /\ shown = [c \in Clients |-> <<>>]
    /\ task = NoPump /\ pumping = [p \in Pumps |-> "done"]
    /\ published = 0
    /\ overflown = {} /\ urgent = [c \in Clients |-> {}] /\ deaf = FALSE

Alive == {p \in Pumps : pumping[p] # "done"}

\* register: the hub's lock makes it one step. A pump that failed is replaced.
NeedsPump_WhenNone == task = NoPump
NeedsPump == task = NoPump \/ task \notin Alive
Register(c) ==
    /\ c \notin joined /\ joined' = joined \cup {c}
    /\ watching' = [watching EXCEPT ![c] = {}]
    /\ queued' = [queued EXCEPT ![c] = <<>>] /\ shown' = [shown EXCEPT ![c] = <<>>]
    /\ overflown' = overflown \ {c} /\ urgent' = [urgent EXCEPT ![c] = {}]
    /\ deaf' = FALSE
    /\ IF NeedsPump
       THEN \E p \in Pumps \ (Alive \cup {task}) :
                task' = p /\ pumping' = [pumping EXCEPT ![p] = "subscribing"]
       ELSE UNCHANGED <<task, pumping>>
    /\ UNCHANGED published

\* unregister: nobody left, and the pump is cancelled.
Unregister(c) ==
    /\ c \in joined /\ joined' = joined \ {c}
    /\ IF joined' = {} /\ task # NoPump
       THEN task' = NoPump /\ pumping' = [pumping EXCEPT ![task] = "done"]
       ELSE UNCHANGED <<task, pumping>>
    /\ UNCHANGED <<watching, queued, shown, published, overflown, urgent, deaf>>

\* The command a page sends.
Watch(c, T) ==
    /\ c \in joined /\ watching' = [watching EXCEPT ![c] = T]
    /\ UNCHANGED <<joined, queued, shown, task, pumping, published, overflown, urgent, deaf>>

Subscribe(p) ==
    /\ pumping[p] = "subscribing"
    /\ pumping' = [pumping EXCEPT ![p] = "listening"]
    /\ UNCHANGED <<joined, watching, queued, shown, task, published, overflown, urgent, deaf>>

\* Redis fails the pump: it is logged, and the task is over.
PumpFails(p) ==
    /\ p \in Alive
    /\ pumping' = [pumping EXCEPT ![p] = "done"]
    /\ deaf' = TRUE
    /\ UNCHANGED <<joined, watching, queued, shown, task, published, overflown, urgent>>

\* wants: a filter is for ticks alone.
Wants(c, topic) == topic = Urgent \/ watching[c] = {} \/ topic \in watching[c]

\* offer: what no longer fits is dropped.
Offered(queue, messages) ==
    LET all == queue \o messages
    IN SubSeq(all, 1, IF Len(all) < QueueMax THEN Len(all) ELSE QueueMax)

\* A message is published, and every pump that listens offers it to every client
\* that wants it.
Publish(topic) ==
    /\ published < MaxMessages /\ published' = published + 1
    /\ LET listening == {p \in Pumps : pumping[p] = "listening"}
           reached == {c \in joined : listening # {} /\ Wants(c, topic)}
           copies == [i \in 1 .. Cardinality(listening) |-> published']
       IN /\ queued' = [c \in Clients |->
                IF c \in reached THEN Offered(queued[c], copies) ELSE queued[c]]
          /\ overflown' = overflown \cup
                {c \in reached : Len(queued[c]) + Cardinality(listening) > QueueMax}
          /\ urgent' = [c \in Clients |->
                IF c \in joined /\ listening # {} /\ topic = Urgent
                THEN urgent[c] \cup {published'} ELSE urgent[c]]
    /\ UNCHANGED <<joined, watching, shown, task, pumping, deaf>>

\* _send_loop. One whose socket failed takes nothing more until its client is
\* unregistered.
Show(c) ==
    /\ c \in joined /\ queued[c] # <<>>
    /\ shown' = [shown EXCEPT ![c] = Append(@, Head(queued[c]))]
    /\ queued' = [queued EXCEPT ![c] = Tail(@)]
    /\ UNCHANGED <<joined, watching, task, pumping, published, overflown, urgent, deaf>>

HubNext ==
    \/ \E c \in Clients : Register(c) \/ Unregister(c) \/ Show(c)
    \/ \E c \in Clients, T \in SUBSET Watchable : Watch(c, T)
    \/ \E p \in Pumps : Subscribe(p) \/ PumpFails(p)
    \/ \E topic \in Watchable \cup {Urgent} : Publish(topic)

HubSpec == HubInit /\ [][HubNext]_hubVars

-------------------------------------------------------------------------------
(* Properties *)

\* However browsers come and go and whenever the pump fails: as long as one is
\* connected a pump is at work, unless it failed after the newest of them came
\* (only a registration starts another); what a browser gets is in order and
\* never twice; and no filter and no other browser keeps an approval request or
\* a fill from it, only its own queue when it was full.
EveryBrowserIsServed ==
    /\ joined # {} => task \in Alive \/ deaf
    /\ \A c \in joined :
        LET got == shown[c] \o queued[c]
        IN /\ \A i, j \in DOMAIN got : i < j => got[i] < got[j]
           /\ c \notin overflown => urgent[c] \subseteq ToSet(got)

===============================================================================
