-------------------------------- MODULE Daemon --------------------------------
(***************************************************************************)
(* The HTTP daemon (createCodeSdkdServer in src/src/daemon/server.ts): the *)
(* map of sessions and its paged listing, the admission of tasks, the map  *)
(* of task handles that the stop endpoint needs, and the slots and loops   *)
(* of the SSE connections.                                                 *)
(*                                                                         *)
(* A handler runs atomically between two awaits.  The engine behind it is  *)
(* the abstract SessionQueue that ExecutorEngine implements; EventStore    *)
(* has the delivery of events, so a connection carries none here.          *)
(***************************************************************************)
EXTENDS Integers, Sequences, FiniteSets, SequencesExt

CONSTANTS
    Sessions,    \* session ids that runtimes hand out
    NoSession,   \* no cursor
    Posts,       \* POST /sessions/:id/tasks requests
    NoPost,      \* no entry in the map of tasks
    SessionOf,   \* SessionOf[p]: the session in the path of p
    TaskIds,     \* task ids
    TaskIdOf,    \* TaskIdOf[p]: the id in the body of p, or the generated one
    Streams,     \* SSE connections
    MaxInflight, \* options.maxInflightTasks
    MaxSse,      \* options.maxSseClients
    Backpressure,  \* the values of options.closeOnBackpressure
    PageSize     \* ?limit= of the client that lists the sessions

ASSUME DaemonAssumption ==
    /\ NoSession \notin Sessions
    /\ NoPost \notin Posts
    /\ IsFiniteSet(Posts) /\ IsFiniteSet(Streams)
    /\ SessionOf \in [Posts -> Sessions]
    /\ TaskIdOf \in [Posts -> TaskIds]
    /\ MaxInflight \in Nat /\ MaxSse \in Nat
    /\ Backpressure \subseteq BOOLEAN
    /\ PageSize \in Nat \ {0}

VARIABLES
    up,             \* the process has not died
    sessions,       \* the ids in the map `sessions`, in insertion order
    listed,         \* what the listing client got, over all its pages
    cursor,         \* its ?after=, NoSession at first
    listing,        \* "more", or "end" after next_after = null
    turn, stage,    \* the engine: SessionQueue over the accepted posts
    post,           \* progress of each POST (see PostStates)
    inflightTasks,
    tasks,          \* the map of handles, by session and task id
    notified,       \* posts whose completion.finally(...) callback has run
    stream,         \* progress of each SSE connection (see StreamStates)
    closed,         \* connections whose close() has run
    gone,           \* connections whose peer has left
    heartbeat,      \* connections whose heartbeat timer is set
    sseClients,
    closeOnBackpressure   \* the option, fixed when the daemon is created

sessionVars == <<sessions, listed, cursor, listing>>
taskVars == <<turn, stage, post, inflightTasks, tasks, notified>>
streamVars == <<stream, closed, gone, heartbeat, sseClients,
                closeOnBackpressure>>
vars == <<up, sessionVars, taskVars, streamVars>>

\* "reading": past the limit, awaits readJsonBody.
PostStates == {"none", "reading", "refused", "invalid", "accepted"}

\* "greeting": awaits 'drain' in the write of the ready event; "next": awaits
\* iterator.next(); "writing": awaits 'drain' in the write of an event;
\* "ended": the finally block of streamEvents has run.
StreamStates == {"none", "refused", "greeting", "next", "writing", "ended"}

Engine == INSTANCE SessionQueue WITH Tasks <- Posts

Listed(s) == \E i \in 1 .. Len(sessions) : sessions[i] = s

(***************************************************************************)
(* Sessions.                                                               *)
(***************************************************************************)
\* POST /sessions, after `await runtime.createSession`: the map keeps the
\* place of a key that it already has.
CreateSession(s) ==
    /\ up
    /\ sessions' = IF Listed(s) THEN sessions ELSE Append(sessions, s)
    /\ UNCHANGED <<up, listed, cursor, listing, taskVars, streamVars>>

\* Fault: the page begins with the cursor, not after it.
PageStart_AtCursor ==
    IF cursor = NoSession THEN 0
    ELSE (CHOOSE i \in 1 .. Len(sessions) : sessions[i] = cursor) - 1

PageStart ==
    IF cursor = NoSession THEN 0
    ELSE CHOOSE i \in 1 .. Len(sessions) : sessions[i] = cursor

\* Fault: a full page is taken for the last one.
IsLastPage_IfFull(slice) == Len(slice) <= PageSize

\* next_after is null unless the page is full.
IsLastPage(slice) == Len(slice) < PageSize

\* GET /sessions?limit&after.
ListPage ==
    /\ up
    /\ listing = "more"
    /\ LET rest == Len(sessions) - PageStart
           slice == SubSeq(sessions, PageStart + 1,
                           PageStart + IF rest < PageSize THEN rest ELSE PageSize)
       IN  /\ listed' = listed \o slice
           /\ IF IsLastPage(slice)
              THEN listing' = "end" /\ UNCHANGED cursor
              ELSE cursor' = Last(slice) /\ UNCHANGED listing
    /\ UNCHANGED <<up, sessions, taskVars, streamVars>>

(***************************************************************************)
(* Tasks.                                                                  *)
(***************************************************************************)
Key(p) == <<SessionOf[p], TaskIdOf[p]>>

\* POST tasks up to its first await: the limit is checked.
Admit(p) ==
    /\ up
    /\ post[p] = "none"
    /\ Listed(SessionOf[p])
    /\ post' = [post EXCEPT ![p] = IF inflightTasks >= MaxInflight
                                   THEN "refused" ELSE "reading"]
    /\ UNCHANGED <<up, sessionVars, turn, stage, inflightTasks, tasks, notified,
                   streamVars>>

\* The body is too large, is not JSON, or has no messages.
BadBody(p) ==
    /\ up
    /\ post[p] = "reading"
    /\ post' = [post EXCEPT ![p] = "invalid"]
    /\ UNCHANGED <<up, sessionVars, turn, stage, inflightTasks, tasks, notified,
                   streamVars>>

\* Fault: a second task under the same id is not counted.
Accept_CountKeys(p) ==
    /\ up
    /\ post[p] = "reading"
    /\ post' = [post EXCEPT ![p] = "accepted"]
    /\ inflightTasks' = IF tasks[Key(p)] = NoPost THEN inflightTasks + 1 ELSE inflightTasks
    /\ Engine!Enqueue(p)
    /\ tasks' = [tasks EXCEPT ![Key(p)] = p]
    /\ UNCHANGED <<up, sessionVars, notified, streamVars>>

\* The rest of POST tasks: counted, started, entered in the map (202).
Accept(p) ==
    /\ up
    /\ post[p] = "reading"
    /\ post' = [post EXCEPT ![p] = "accepted"]
    /\ inflightTasks' = inflightTasks + 1
    /\ Engine!Enqueue(p)
    /\ tasks' = [tasks EXCEPT ![Key(p)] = p]
    /\ UNCHANGED <<up, sessionVars, notified, streamVars>>

\* A step of the engine with an accepted task.
EngineStep(p) ==
    /\ up
    /\ Engine!Begin(p) \/ Engine!Skip(p) \/ Engine!Finish(p)
    /\ UNCHANGED <<up, sessionVars, post, inflightTasks, tasks, notified, streamVars>>

\* Fault: the handle of a task that is over stays in the map.
Forget_Never(p) == UNCHANGED tasks

\* tasks.delete(key), whoever's handle is there by now.
Forget(p) == tasks' = [tasks EXCEPT ![Key(p)] = NoPost]

\* The callback of handle.completion.finally(...).  Nobody handles the promise
\* that finally returns: a rejected completion ends the process.
Completed(p) ==
    /\ up
    /\ post[p] = "accepted"
    /\ p \notin notified
    /\ Engine!Over(p)
    /\ notified' = notified \cup {p}
    /\ inflightTasks' = IF inflightTasks > 0 THEN inflightTasks - 1 ELSE 0
    /\ Forget(p)
    /\ up' = (stage[p] = "fulfilled")
    /\ UNCHANGED <<sessionVars, turn, stage, post, streamVars>>

(***************************************************************************)
(* SSE connections: GET events with stream=1, streamEvents and writeSse.   *)
(***************************************************************************)
Connected(c) == stream[c] \in {"greeting", "next", "writing"}

\* Fault: neither does close() remember that it has run nor is there a floor.
Close_Unguarded(c) == closed' = closed \cup {c} /\ sseClients' = sseClients - 1

\* Fault: close() does not remember that it has run.
Close_NotOnce(c) ==
    /\ closed' = closed \cup {c}
    /\ sseClients' = IF sseClients > 0 THEN sseClients - 1 ELSE 0

\* close(): the slot is released once, and iterator.return() ends the queue.
Close(c) ==
    /\ closed' = closed \cup {c}
    /\ sseClients' = IF c \in closed \/ sseClients = 0 THEN sseClients ELSE sseClients - 1

\* The limit is checked and the slot taken; the ready event is written, and
\* with closeOnBackpressure nobody looks at what became of it.
OpenStream(c) ==
    /\ up
    /\ stream[c] = "none"
    /\ sessions # << >>
    /\ IF sseClients >= MaxSse
       THEN /\ stream' = [stream EXCEPT ![c] = "refused"]
            /\ UNCHANGED <<sseClients, heartbeat>>
       ELSE /\ sseClients' = sseClients + 1
            /\ \/ /\ stream' = [stream EXCEPT ![c] = "next"]
                  /\ heartbeat' = heartbeat \cup {c}
               \/ /\ ~closeOnBackpressure
                  /\ stream' = [stream EXCEPT ![c] = "greeting"]
                  /\ UNCHANGED heartbeat
    /\ UNCHANGED <<up, sessionVars, taskVars, closed, gone, closeOnBackpressure>>

\* The peer leaves: the request's 'close' event.
PeerLeaves(c) ==
    /\ up
    /\ Connected(c)
    /\ c \notin gone
    /\ gone' = gone \cup {c}
    /\ Close(c)
    /\ UNCHANGED <<up, sessionVars, taskVars, stream, heartbeat, closeOnBackpressure>>

\* 'drain', which a connection without a peer never emits.
Drain(c) ==
    /\ up
    /\ stream[c] \in {"greeting", "writing"}
    /\ c \notin gone
    /\ stream' = [stream EXCEPT ![c] = "next"]
    /\ heartbeat' = heartbeat \cup {c}
    /\ UNCHANGED <<up, sessionVars, taskVars, closed, gone, sseClients,
                   closeOnBackpressure>>

\* Fault: the timer is not cleared.
EndLoop_KeepTimer(c) ==
    /\ stream' = [stream EXCEPT ![c] = "ended"]
    /\ Close(c)
    /\ UNCHANGED heartbeat

\* The finally block of streamEvents.
EndLoop(c) ==
    /\ stream' = [stream EXCEPT ![c] = "ended"]
    /\ heartbeat' = heartbeat \ {c}
    /\ Close(c)

\* An event meets backpressure; one that does not changes nothing here.
Congested(c) ==
    /\ up
    /\ stream[c] = "next"
    /\ c \notin closed
    /\ IF closeOnBackpressure
       THEN EndLoop(c)
       ELSE /\ stream' = [stream EXCEPT ![c] = "writing"]
            /\ UNCHANGED <<heartbeat, closed, sseClients>>
    /\ UNCHANGED <<up, sessionVars, taskVars, gone, closeOnBackpressure>>

\* iterator.next() is done, or resolves after close(): the loop breaks.
EndOfQueue(c) ==
    /\ up
    /\ stream[c] = "next"
    /\ c \in closed
    /\ EndLoop(c)
    /\ UNCHANGED <<up, sessionVars, taskVars, gone, closeOnBackpressure>>

-----------------------------------------------------------------------------
Init ==
    /\ up = TRUE
    /\ sessions = << >> /\ listed = << >>
    /\ cursor = NoSession /\ listing = "more"
    /\ Engine!QueueInit
    /\ post = [p \in Posts |-> "none"]
    /\ inflightTasks = 0
    /\ tasks = [k \in Sessions \X TaskIds |-> NoPost]
    /\ notified = {}
    /\ stream = [c \in Streams |-> "none"]
    /\ closed = {} /\ gone = {} /\ heartbeat = {}
    /\ sseClients = 0
    /\ closeOnBackpressure \in Backpressure

TaskStep(p) == Admit(p) \/ BadBody(p) \/ Accept(p) \/ EngineStep(p) \/ Completed(p)
StreamStep(c) ==
    OpenStream(c) \/ PeerLeaves(c) \/ Drain(c) \/ Congested(c) \/ EndOfQueue(c)

Next ==
    \/ \E s \in Sessions : CreateSession(s)
    \/ ListPage
    \/ \E p \in Posts : TaskStep(p)
    \/ \E c \in Streams : StreamStep(c)

Spec == Init /\ [][Next]_vars

\* Promise reactions run; nothing is assumed of clients, runtimes or sockets.
FairSpec == Spec /\ \A c \in Streams : WF_vars(EndOfQueue(c))

-----------------------------------------------------------------------------
\* Each variable of the daemon stays in the set it is meant to be in.
TypeOK ==
    /\ up \in BOOLEAN
    /\ sessions \in Seq(Sessions) /\ listed \in Seq(Sessions)
    /\ cursor \in Sessions \cup {NoSession} /\ listing \in {"more", "end"}
    /\ turn \in [Posts -> Nat] /\ stage \in [Posts -> Engine!Stages]
    /\ post \in [Posts -> PostStates]
    /\ inflightTasks \in Nat
    /\ tasks \in [Sessions \X TaskIds -> Posts \cup {NoPost}]
    /\ notified \subseteq Posts
    /\ stream \in [Streams -> StreamStates]
    /\ closed \subseteq Streams /\ gone \subseteq Streams /\ heartbeat \subseteq Streams
    /\ sseClients \in Nat
    /\ closeOnBackpressure \in BOOLEAN

InFlight(p) == post[p] = "accepted" /\ p \notin notified

\* The in-flight counter is the number of accepted tasks that are not over,
\* whatever ids they have and in whatever order they end: no slot is lost and
\* none is given back twice.
InflightExact == inflightTasks = Cardinality({p \in Posts : InFlight(p)})

\* The map of handles holds no task that is over, and a task whose id no other
\* accepted request has used can always be found there by the stop endpoint.
HandlesMatchTasks ==
    /\ \A k \in Sessions \X TaskIds :
          tasks[k] # NoPost => InFlight(tasks[k]) /\ Key(tasks[k]) = k
    /\ \A p \in Posts :
          /\ InFlight(p)
          /\ \A q \in Posts \ {p} : Key(q) = Key(p) => post[q] # "accepted"
          => tasks[Key(p)] = p

\* Over all its pages a client lists every session once and in order, though
\* sessions are created between the pages; and when it is told that there are
\* no more, it has seen them all.
ListedAll ==
    [][/\ IsPrefix(listed', sessions')
       /\ listing' = "end" /\ listing # "end" => listed' = sessions]_vars

\* The count of SSE clients is the number of connections that have not been
\* closed, each released once whether the peer leaves, the loop ends, or both;
\* it never exceeds the limit.
SseSlots ==
    /\ sseClients = Cardinality({c \in Streams : Connected(c) /\ c \notin closed})
    /\ sseClients <= MaxSse

\* With closeOnBackpressure, a connection whose peer has left leaves no loop
\* and no timer behind.
StreamsEnd ==
    \A c \in Streams :
        (c \in gone /\ closeOnBackpressure)
            ~> ((stream[c] = "ended" /\ c \notin heartbeat) \/ ~up)

\* Refuted: the status of a task that failed can be asked for afterwards
\* (daemon-api.md, GET task: "status derived from terminal events").
FailedTaskIsServed == \A p \in notified : stage[p] = "rejected" => up
=============================================================================
