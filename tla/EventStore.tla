----------------------------- MODULE EventStore -----------------------------
(***************************************************************************)
(* The event store of ONE session (src/src/executor/event-store.ts) with   *)
(* the producers that append to it and the daemon's clients that follow it *)
(* by SSE (streamEvents) or by paging (GET events).  Sessions are          *)
(* independent: every map and every SQL statement is keyed by session_id.  *)
(*                                                                         *)
(* append, list and subscribe are synchronous, so each is one atomic step; *)
(* the consumer of a subscription is asynchronous: between a push into its *)
(* AsyncQueue and the moment it has written the event to the client,       *)
(* anything else may run.                                                  *)
(***************************************************************************)
EXTENDS Integers, Sequences, SequencesExt

CONSTANTS
    Clients,         \* the HTTP clients that read this session's events
    Backend,         \* "memory": InMemoryEventStore, "sqlite": SqliteEventStore
    AdapterNumbers,  \* TRUE: adapters put their own seq on what they emit
    MaxEvents,       \* bound: events produced in a behaviour
    MaxRestarts,     \* bound: restarts of the daemon process
    PageLimits       \* the values of ?limit= that paging clients use

ASSUME StoreAssumption ==
    /\ Backend \in {"memory", "sqlite"}
    /\ AdapterNumbers \in BOOLEAN
    /\ MaxEvents \in Nat
    /\ MaxRestarts \in Nat
    /\ PageLimits \subseteq Nat \ {0}

VARIABLES
    events,      \* the stored log in the order list() returns it
    produced,    \* how many events were handed to append, stored or not
    adapterSeq,  \* the `let seq = 1` counter of the running task's adapter
    conn,        \* conn[c]: where client c's subscription is (see ConnStates)
    queue,       \* queue[c]: AsyncQueue.values of its subscription
    handed,      \* handed[c]: the event its pending next() resolved with
    received,    \* received[c]: everything client c got, over all connections
    restarts     \* how often the process was restarted

storeVars == <<events, produced, adapterSeq>>
clientVars == <<conn, queue, handed, received>>
vars == <<events, produced, adapterSeq, conn, queue, handed, received, restarts>>

(***************************************************************************)
(* A stored event: its seq, and an id that stands for everything else.     *)
(***************************************************************************)
Event == [seq : Nat \ {0}, id : Nat \ {0}]
NoEvent == [seq |-> 0, id |-> 0]

\* "none": not subscribed; "idle": the loop of streamEvents is about to call
\* next(); "waiting": next() is parked as a waiter of the AsyncQueue;
\* "handed": next() has a value, which is not yet written to the client.
ConnStates == {"none", "idle", "waiting", "handed"}

LastSeq(s) == IF s = << >> THEN 0 ELSE Last(s).seq

\* Fault: the last event the client already has is listed again (>= for >).
ListAfter_Inclusive(after) == SelectSeq(events, LAMBDA e : e.seq >= after)

\* list(session, {afterSeq}): from the first event with a greater seq.  The
\* rows of SQLite come ORDER BY seq, and events is kept in that order.
ListAfter(after) ==
    IF \E i \in 1 .. Len(events) : events[i].seq > after
    THEN LET start == CHOOSE i \in 1 .. Len(events) :
                        /\ events[i].seq > after
                        /\ \A j \in 1 .. (i - 1) : events[j].seq <= after
         IN  SubSeq(events, start, Len(events))
    ELSE << >>

\* list(session, {afterSeq, limit})
Page(after, limit) ==
    LET all == ListAfter(after)
    IN  IF Len(all) <= limit THEN all ELSE SubSeq(all, 1, limit)

(***************************************************************************)
(* append                                                                  *)
(***************************************************************************)
SeqTaken(seq) == \E i \in 1 .. Len(events) : events[i].seq = seq

\* In memory the event is pushed at the end; SQLite keeps rows by key.
Stored(e) ==
    IF Backend = "sqlite" /\ \E i \in 1 .. Len(events) : events[i].seq > e.seq
    THEN LET at == CHOOSE i \in 1 .. Len(events) :
                     /\ events[i].seq > e.seq
                     /\ \A j \in 1 .. (i - 1) : events[j].seq <= e.seq
         IN  InsertAt(events, at, e)
    ELSE Append(events, e)

\* Fault: push never looks for a waiter, the parked next() sleeps on.
Push_NoWakeup(e) ==
    /\ queue' = [c \in Clients |->
                   IF conn[c] # "none" THEN Append(queue[c], e) ELSE queue[c]]
    /\ UNCHANGED <<conn, handed, received>>

\* Fault: an event that arrives while the previous one is being written is lost.
Push_DropWhileWriting(e) ==
    /\ conn' = [c \in Clients |->
                  IF conn[c] = "waiting" THEN "handed" ELSE conn[c]]
    /\ handed' = [c \in Clients |->
                    IF conn[c] = "waiting" THEN e ELSE handed[c]]
    /\ queue' = [c \in Clients |->
                   IF conn[c] = "idle" THEN Append(queue[c], e) ELSE queue[c]]
    /\ UNCHANGED received

\* AsyncQueue.push on every open subscription: the parked next() is resolved
\* with the event if there is one, otherwise the event is queued.
Push(e) ==
    /\ conn' = [c \in Clients |->
                  IF conn[c] = "waiting" THEN "handed" ELSE conn[c]]
    /\ handed' = [c \in Clients |->
                    IF conn[c] = "waiting" THEN e ELSE handed[c]]
    /\ queue' = [c \in Clients |->
                   IF conn[c] \in {"idle", "handed"}
                   THEN Append(queue[c], e) ELSE queue[c]]
    /\ UNCHANGED received

\* Persist, then emit to the subscribers.
Put(seq) ==
    LET e == [seq |-> seq, id |-> produced + 1]
    IN  /\ events' = Stored(e)
        /\ Push(e)

\* Fault: the seq of the last event is used again.
EngineAppend_SameSeq ==
    /\ produced < MaxEvents
    /\ AdapterNumbers => events # << >>
    /\ produced' = produced + 1
    /\ Put(LastSeq(events))
    /\ UNCHANGED <<adapterSeq, restarts>>

\* An event without a seq (the engine's own): last.seq + 1, or MAX(seq) + 1.
\* An adapter's model.input always comes before anything the engine appends.
EngineAppend ==
    /\ produced < MaxEvents
    /\ AdapterNumbers => events # << >>
    /\ produced' = produced + 1
    /\ Put(LastSeq(events) + 1)
    /\ UNCHANGED <<adapterSeq, restarts>>

\* Fault: the table has no primary key on (session_id, seq).
AdapterAppend_NoKey ==
    /\ AdapterNumbers
    /\ produced < MaxEvents
    /\ produced' = produced + 1
    /\ adapterSeq' = adapterSeq + 1
    /\ Put(adapterSeq)
    /\ UNCHANGED restarts

\* An event of the running task's adapter, which carries the adapter's own
\* counter as its seq.  The PRIMARY KEY (session_id, seq) of SQLite rejects a
\* seq that is in use: append throws, the stream fails and the task is over.
AdapterAppend ==
    /\ AdapterNumbers
    /\ produced < MaxEvents
    /\ produced' = produced + 1
    /\ IF Backend = "sqlite" /\ SeqTaken(adapterSeq)
       THEN /\ adapterSeq' = 1
            /\ UNCHANGED <<events, clientVars>>
       ELSE /\ adapterSeq' = adapterSeq + 1
            /\ Put(adapterSeq)
    /\ UNCHANGED restarts

\* The next task of the session: its adapter counts from 1 again.
NextTask ==
    /\ AdapterNumbers
    /\ adapterSeq > 1
    /\ adapterSeq' = 1
    /\ UNCHANGED <<events, produced, clientVars, restarts>>

(***************************************************************************)
(* The clients.  A client that reconnects asks for the events after the    *)
(* last one it received (after_seq).                                       *)
(***************************************************************************)
Cursor(c) == LastSeq(received[c])

\* Fault: the queue is registered without the snapshot of what is stored.
Subscribe_LiveOnly(c) ==
    /\ conn[c] = "none"
    /\ conn' = [conn EXCEPT ![c] = "idle"]
    /\ queue' = [queue EXCEPT ![c] = << >>]
    /\ UNCHANGED <<storeVars, handed, received, restarts>>

\* subscribe: the stored suffix is queued and the queue is registered.
Subscribe(c) ==
    /\ conn[c] = "none"
    /\ conn' = [conn EXCEPT ![c] = "idle"]
    /\ queue' = [queue EXCEPT ![c] = ListAfter(Cursor(c))]
    /\ UNCHANGED <<storeVars, handed, received, restarts>>

\* GET events without streaming, with after_seq = next_seq of the last page.
Poll(c) ==
    /\ conn[c] = "none"
    /\ \E limit \in PageLimits :
         /\ Page(Cursor(c), limit) # << >>
         /\ received' = [received EXCEPT ![c] = @ \o Page(Cursor(c), limit)]
    /\ UNCHANGED <<storeVars, conn, queue, handed, restarts>>

\* next() on a queue with values: the first one is taken.
Shift(c) ==
    /\ conn[c] = "idle"
    /\ queue[c] # << >>
    /\ handed' = [handed EXCEPT ![c] = Head(queue[c])]
    /\ queue' = [queue EXCEPT ![c] = Tail(queue[c])]
    /\ conn' = [conn EXCEPT ![c] = "handed"]
    /\ UNCHANGED <<storeVars, received, restarts>>

\* next() on an empty queue: the consumer parks itself as a waiter.
Park(c) ==
    /\ conn[c] = "idle"
    /\ queue[c] = << >>
    /\ conn' = [conn EXCEPT ![c] = "waiting"]
    /\ UNCHANGED <<storeVars, queue, handed, received, restarts>>

\* writeSse succeeded and the client has the event.
Deliver(c) ==
    /\ conn[c] = "handed"
    /\ received' = [received EXCEPT ![c] = Append(@, handed[c])]
    /\ handed' = [handed EXCEPT ![c] = NoEvent]
    /\ conn' = [conn EXCEPT ![c] = "idle"]
    /\ UNCHANGED <<storeVars, queue, restarts>>

\* The connection ends (the client left, or backpressure closed it): return()
\* closes the queue and deregisters it; what was not written is dropped.
Disconnect(c) ==
    /\ conn[c] # "none"
    /\ conn' = [conn EXCEPT ![c] = "none"]
    /\ queue' = [queue EXCEPT ![c] = << >>]
    /\ handed' = [handed EXCEPT ![c] = NoEvent]
    /\ UNCHANGED <<storeVars, received, restarts>>

\* Fault: the SQLite rows do not survive the process.
Restart_Amnesia ==
    /\ restarts < MaxRestarts
    /\ restarts' = restarts + 1
    /\ events' = << >>
    /\ adapterSeq' = 1
    /\ conn' = [c \in Clients |-> "none"]
    /\ queue' = [c \in Clients |-> << >>]
    /\ handed' = [c \in Clients |-> NoEvent]
    /\ UNCHANGED <<produced, received>>

(***************************************************************************)
(* The daemon process dies and is started again: connections and the       *)
(* in-memory log are gone, the SQLite file is not.                         *)
(***************************************************************************)
Restart ==
    /\ restarts < MaxRestarts
    /\ restarts' = restarts + 1
    /\ events' = IF Backend = "sqlite" THEN events ELSE << >>
    /\ adapterSeq' = 1
    /\ conn' = [c \in Clients |-> "none"]
    /\ queue' = [c \in Clients |-> << >>]
    /\ handed' = [c \in Clients |-> NoEvent]
    /\ UNCHANGED <<produced, received>>

Init ==
    /\ events = << >>
    /\ produced = 0
    /\ adapterSeq = 1
    /\ conn = [c \in Clients |-> "none"]
    /\ queue = [c \in Clients |-> << >>]
    /\ handed = [c \in Clients |-> NoEvent]
    /\ received = [c \in Clients |-> << >>]
    /\ restarts = 0

Consume(c) == Shift(c) \/ Park(c) \/ Deliver(c)

Next ==
    \/ EngineAppend
    \/ AdapterAppend
    \/ NextTask
    \/ \E c \in Clients : Subscribe(c) \/ Poll(c) \/ Consume(c) \/ Disconnect(c)
    \/ Restart

Spec == Init /\ [][Next]_vars

\* The loop of streamEvents keeps running while its connection lives; nothing
\* is assumed of producers, of clients connecting or of restarts.
FairSpec == Spec /\ \A c \in Clients : WF_vars(Consume(c))

-----------------------------------------------------------------------------

TypeOK ==
    /\ events \in Seq(Event)
    /\ produced \in Nat
    /\ adapterSeq \in Nat \ {0}
    /\ conn \in [Clients -> ConnStates]
    /\ queue \in [Clients -> Seq(Event)]
    /\ handed \in [Clients -> Event \cup {NoEvent}]
    /\ \A c \in Clients : conn[c] = "handed" => handed[c] \in Event
    /\ received \in [Clients -> Seq(Event)]
    /\ restarts \in Nat

\* seq grows strictly along the log of a session ("monotonic per session",
\* docs/plan.md:192).  Not so in memory if adapters number their events.
MonotonicSeq ==
    \A i, j \in 1 .. Len(events) : i < j => events[i].seq < events[j].seq

\* Stronger, and inductive: the seq of an event is its position.
DenseSeq ==
    /\ \A i \in 1 .. Len(events) : events[i].seq = i
    /\ adapterSeq <= Len(events) + 1

\* Refuted for SQLite: everything the program emitted is in the log.
AllEventsPersisted == produced = Len(events)

\* Over any number of disconnects, reconnects with the last seq seen, pages
\* and restarts, a client has received a prefix of the log: no event twice,
\* none skipped, none out of order, and none that is not persisted.
ExactlyOnce == \A c \in Clients : IsPrefix(received[c], events)

InFlight(c) == IF conn[c] = "handed" THEN <<handed[c]>> ELSE << >>

\* While a subscription is open, what the client has, what is being written
\* and what is queued make up the whole log: the snapshot taken by subscribe
\* and the live pushes meet without a gap and without an overlap.
NoGapAtSubscribe ==
    \A c \in Clients :
        conn[c] # "none" => received[c] \o InFlight(c) \o queue[c] = events

\* A consumer sleeps only when there is nothing left for it (no lost wakeup).
NoLostWakeup ==
    \A c \in Clients : conn[c] = "waiting" => received[c] = events

\* An event that is in the log reaches every client that stays connected.
CatchesUp ==
    \A c \in Clients : \A n \in 1 .. MaxEvents :
        (conn[c] # "none" /\ Len(events) >= n)
            ~> (Len(received[c]) >= n \/ conn[c] = "none")

\* The store implements the abstract log.
Log == INSTANCE EventLog WITH
           Entries <- [seq : 1 .. MaxEvents, id : 1 .. MaxEvents],
           Readers <- Clients,
           log <- events,
           held <- received

ImplementsEventLog == Log!Spec
=============================================================================
