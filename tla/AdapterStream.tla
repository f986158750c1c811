---------------------------- MODULE AdapterStream ----------------------------
(***************************************************************************)
(* What the four runtime adapters of src/src/adapters share: startTask     *)
(* creates an AsyncQueue, pushes the task's events into it from a loop     *)
(* over the runtime's stream, and returns a handle whose events() drains   *)
(* the queue.  The other end is the engine: it reads, answers the tool     *)
(* calls it read, turns away after a terminal event, calls stop(), and     *)
(* starts the next task of a session when it is done with the one before.  *)
(*                                                                         *)
(* Everything between two awaits is one step.                              *)
(***************************************************************************)
EXTENDS Integers, Sequences, SequencesExt, FiniteSets

CONSTANTS
    Tasks,       \* task requests, numbered in the order they are started
    Adapters,    \* the adapters to consider
    Sessions,    \* the sessions the tasks belong to
    Placements,  \* which task may be in which session
    Stoppable,   \* the tasks that a user may stop
    Calls,       \* the call ids the runtimes use
    MaxSent,     \* bound, per adapter, placement and task: events a task sends
    MaxAttempts  \* bound: times one runtime call id is used

ASSUME AdapterAssumption ==
    /\ Tasks \subseteq Nat
    /\ Placements \subseteq [Tasks -> Sessions]
    /\ Stoppable \subseteq Tasks
    /\ Calls \subseteq Nat
    /\ \A a \in Adapters, p \in Placements : MaxSent[a][p] \in [Tasks -> Nat]
    /\ MaxAttempts \in Nat

VARIABLES
    adapter,    \* which of the four: RuntimeAdapter.name
    sessionOf,  \* the session of each task
    loop,       \* how far startTask and the task's background loop are
    queue,      \* AsyncQueue.values
    closed,     \* AsyncQueue.closed
    got,        \* what the engine's for-await has received
    done,       \* the engine has left its for-await over events()
    answered,   \* the answers the engine has sent to this task's calls
    stopped,    \* stop() was called
    attempts    \* the adapter's counter of uses of a runtime call id

streamVars == <<adapter, sessionOf, loop, queue, closed, got, done, answered, stopped,
                attempts>>

\* startTask has returned its handle.
HasHandle(t) == loop[t] \in {"streaming", "tools", "ended"}

Event(type, id, n) == [type |-> type, id |-> id, n |-> n]
Plain(type) == Event(type, 0, 0)

\* Everything the queue has taken.
Sent(t) == got[t] \o queue[t]

StreamInit ==
    /\ adapter \in Adapters
    /\ sessionOf \in Placements
    /\ loop = [t \in Tasks |-> "new"]
    /\ queue = [t \in Tasks |-> << >>]
    /\ closed = [t \in Tasks |-> FALSE]
    /\ got = [t \in Tasks |-> << >>]
    /\ done = [t \in Tasks |-> FALSE]
    /\ answered = [t \in Tasks |-> {}]
    /\ stopped = [t \in Tasks |-> FALSE]
    /\ attempts = [c \in Calls |-> 0]

-----------------------------------------------------------------------------
(* AsyncQueue.  A parked shift() is resolved by the push or the close that  *)
(* it waits for: here it is a Shift that has not been taken yet.            *)

\* Fault: what is pushed after close() is still queued.
Emit_AfterClose(t, events, shut) ==
    /\ queue' = [queue EXCEPT ![t] = @ \o events]
    /\ closed' = [closed EXCEPT ![t] = @ \/ shut]
    /\ UNCHANGED <<got, done>>

\* The pushes of one step and, if shut, the close() after them; a push on a
\* closed queue is ignored.
Emit(t, events, shut) ==
    /\ queue' = [queue EXCEPT ![t] = IF closed[t] THEN @ ELSE @ \o events]
    /\ closed' = [closed EXCEPT ![t] = @ \/ shut]
    /\ UNCHANGED <<got, done>>

Push(t, events) == Emit(t, events, FALSE)
Close(t) == Emit(t, << >>, TRUE)
Finish(t, events) == Emit(t, events, TRUE)

Goto(t, where) == loop' = [loop EXCEPT ![t] = where]

queueVars == <<queue, closed, got, done>>
\* What the engine's side owns and no step of an adapter's loop changes.
callerVars == <<adapter, sessionOf, answered, stopped>>

\* The runtime says something more on task t, which becomes n events.
MayProduce(t, n) == loop[t] = "streaming" /\ Len(Sent(t)) + n <= MaxSent[adapter][sessionOf][t]

-----------------------------------------------------------------------------
(* The engine *)

\* Sessions run one task at a time: the engine is done with the one before
\* (which it may have stopped, and whose loop may still be running).
MayStart(t) ==
    /\ loop[t] = "new"
    /\ \A u \in Tasks : u < t =>
         /\ loop[u] # "new"
         /\ sessionOf[u] = sessionOf[t] => done[u] \/ loop[u] = "rejected"

\* Fault: events() ends when the queue is closed, whatever is left in it.
Shift_DropRest(t) ==
    /\ HasHandle(t)
    /\ ~done[t]
    /\ \/ /\ ~closed[t]
          /\ queue[t] # << >>
          /\ got' = [got EXCEPT ![t] = Append(@, Head(queue[t]))]
          /\ queue' = [queue EXCEPT ![t] = Tail(@)]
          /\ UNCHANGED done
       \/ /\ closed[t]
          /\ done' = [done EXCEPT ![t] = TRUE]
          /\ UNCHANGED <<got, queue>>
    /\ UNCHANGED <<callerVars, loop, closed, attempts>>

\* next() of events(): the next value, or the end of a closed, empty queue.
Shift(t) ==
    /\ HasHandle(t)
    /\ ~done[t]
    /\ \/ /\ queue[t] # << >>
          /\ got' = [got EXCEPT ![t] = Append(@, Head(queue[t]))]
          /\ queue' = [queue EXCEPT ![t] = Tail(@)]
          /\ UNCHANGED done
       \/ /\ queue[t] = << >> /\ closed[t]
          /\ done' = [done EXCEPT ![t] = TRUE]
          /\ UNCHANGED <<got, queue>>
    /\ UNCHANGED <<callerVars, loop, closed, attempts>>

Terminal == {"task.completed", "task.failed", "task.stopped"}

\* The engine leaves the loop once it has a terminal event.
TurnAway(t) ==
    /\ ~done[t]
    /\ \E i \in 1 .. Len(got[t]) : got[t][i].type \in Terminal
    /\ done' = [done EXCEPT ![t] = TRUE]
    /\ UNCHANGED <<callerVars, loop, queue, closed, got, attempts>>

\* The calls the engine has read and not answered yet.
Unanswered(t) ==
    {e \in ToSet(got[t]) : /\ e.type = "tool.call.requested"
                           /\ \A a \in answered[t] : a.id # e.id \/ a.n # e.n}

\* One answer to call e of task t, recorded on the engine's side.
Answer(t, e, verdict) ==
    /\ e \in Unanswered(t)
    /\ answered' = [answered EXCEPT
                      ![t] = @ \cup {[id |-> e.id, n |-> e.n, verdict |-> verdict]}]

MayStop(t) == t \in Stoppable /\ HasHandle(t) /\ ~stopped[t]
=============================================================================
