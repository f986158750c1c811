------------------------- MODULE ExecutorEngineProps -------------------------
(***************************************************************************)
(* What the engine is supposed to guarantee.  The first part holds; the    *)
(* second part states promises of the repository's documents that the code *)
(* does not keep, each refuted by a run of its own.                        *)
(***************************************************************************)
EXTENDS ExecutorEngine

PendingEntry == [task : Tasks, call : Calls] \cup {NoPending}
Statuses == Terminal \cup {"none"}

LockTypeOK ==
    /\ phase \in [Tasks -> Phases]
    /\ resolved \in [Tasks -> BOOLEAN]
    /\ pred \in [Tasks -> Tasks \cup {NoTask}]
    /\ ticket \in [Tasks -> Nat]
    /\ sessionLocks \in [Sessions -> Tasks \cup {NoTask}]

StreamTypeOK ==
    /\ stopRequested \in [Tasks -> BOOLEAN]
    /\ stopCall \in [Tasks -> {"none", "waiting", "done", "failed"}]
    /\ handleReady \in [Tasks -> BOOLEAN]
    /\ terminalEmitted \in [Tasks -> BOOLEAN]
    /\ streamError \in [Tasks -> BOOLEAN]
    /\ log \in [Sessions -> Seq(Event)]

ToolTypeOK ==
    /\ toolQueue \in [Tasks -> Seq(Calls)]
    /\ worker \in [Tasks -> [pc : WorkerStates, call : Calls \cup {NoCall},
                             verdict : Verdicts]]
    /\ pendingToolCalls \in [Sessions -> [Ids -> PendingEntry]]
    /\ granted \subseteq Sessions \X Calls

GaugeTypeOK ==
    /\ pendingTasks \in Nat
    /\ activeTasks \in Nat
    /\ activeSessions \subseteq Sessions
    /\ taskStartTimes \subseteq Tasks
    /\ taskTerminalStatus \in [Tasks -> Statuses]
    /\ finished \in [Tasks -> Statuses]

\* Every variable has its type.
TypeOK == LockTypeOK /\ StreamTypeOK /\ ToolTypeOK /\ GaugeTypeOK

SameSession(t, u) == SessionOf[t] = SessionOf[u]

\* The per-session lock (plan.md: "one active task per session_id"): between
\* runtime.startTask and the end of runTask no other task of the session is.
SessionMutex ==
    \A t, u \in Tasks : t # u /\ SameSession(t, u) => ~(Running(t) /\ Running(u))

\* The tasks of a session run in the order of the startTask calls, each after
\* the one before it is settled for good, failed predecessors included.
SessionFifo ==
    \A t, u \in Tasks :
        SameSession(t, u) /\ ticket[u] # 0 /\ ticket[u] < ticket[t] /\ Begun(t)
            => phase[u] = "settled"

\* No tool call is in progress once its task has left runTask: the tool of
\* one task never runs beside the next task of the session.
NoToolOutlivesTask ==
    \A t \in Tasks : worker[t].pc \notin {"idle", "broken"}
                         => phase[t] \in {"streaming", "draining"}

\* An approval is pending exactly while a handler awaits it: no handler waits
\* for an entry that is gone, no entry is left behind for a later task to
\* collide with.
PendingIffAsking ==
    /\ \A s \in Sessions, id \in Ids :
         LET p == pendingToolCalls[s][id]
         IN  p # NoPending => /\ SessionOf[p.task] = s
                              /\ p.call.id = id
                              /\ worker[p.task] = At("asking", p.call, "ask")
    /\ \A t \in Tasks :
         worker[t].pc = "asking" =>
             pendingToolCalls[SessionOf[t]][worker[t].call.id] =
                 [task |-> t, call |-> worker[t].call]

\* A handler that is about to ask never finds its key taken (the "tool call
\* already pending" error cannot be reached).
AskNeverCollides ==
    \A t \in Tasks :
        Running(t) /\ worker[t].pc = "idle" =>
            \A id \in Ids : ~IsPending(SessionOf[t], id)

Before(s, i, t, c, types) ==
    \E j \in 1 .. (i - 1) : /\ log[s][j].task = t
                            /\ log[s][j].call = c
                            /\ log[s][j].type \in types

\* A tool is started only on the policy's word, or on the user's approval of
\* that very attempt given in answer to an "ask"; never after a denial.
AuditTrail ==
    \A s \in Sessions : \A i \in 1 .. Len(log[s]) :
        LET e == log[s][i]
        IN  e.type = "started" =>
              /\ \/ Before(s, i, e.task, e.call, {"policy_allow"})
                 \/ /\ Before(s, i, e.task, e.call, {"policy_ask"})
                    /\ Before(s, i, e.task, e.call, {"user_allow"})
                    /\ <<s, e.call>> \in granted
              /\ ~Before(s, Len(log[s]) + 1, e.task, e.call,
                         {"policy_deny", "user_deny", "denied"})

Rank(type) ==
    CASE type = "requested" -> 1
      [] type \in {"policy_allow", "policy_ask", "policy_deny"} -> 2
      [] type \in {"user_allow", "user_deny"} -> 3
      [] type \in {"approved", "denied"} -> 4
      [] type = "started" -> 5
      [] type = "output.delta" -> 6
      [] type = "completed" -> 7
      [] OTHER -> 0

\* The events of one tool call attempt come in the documented order, each at
\* most once (output deltas aside), with at most one terminal decision.
CallLifecycle ==
    \A s \in Sessions : \A i, j \in 1 .. Len(log[s]) :
        LET d == log[s][i]
            e == log[s][j]
        IN  i < j /\ d.task = e.task /\ d.call = e.call /\ d.call # NoCall =>
              \/ Rank(d.type) < Rank(e.type)
              \/ d.type = "output.delta" /\ e.type = "output.delta"

TerminalsOf(t) ==
    {i \in 1 .. Len(TaskLog(t)) : /\ TaskLog(t)[i].task = t
                                  /\ TaskLog(t)[i].type \in Terminal}

\* A task nobody asked to stop has at most one terminal event, and the status
\* that the finished-tasks metric counts is the one that event says.
TerminalOnceUnlessStopped ==
    \A t \in Tasks : ~stopRequested[t] =>
        /\ Cardinality(TerminalsOf(t)) <= 1
        /\ finished[t] # "none" =>
             \A i \in TerminalsOf(t) : TaskLog(t)[i].type = finished[t]

\* While no handler has thrown, the gauges say what is going on: active tasks
\* and sessions are those between markTaskStarted and finalizeTask, and every
\* started promise chain is counted until it is settled.
GaugesExact ==
    /\ pendingTasks = Cardinality({t \in Tasks : Unsettled(t)})
    /\ activeTasks = Cardinality(taskStartTimes)
    /\ (\A t \in Tasks : worker[t].pc # "broken") =>
         /\ taskStartTimes = {t \in Tasks : phase[t] \in {"streaming", "draining"}}
         /\ activeSessions = {SessionOf[t] : t \in taskStartTimes}

\* No tool is executed for a task after stop() was called for it.
NoExecutionAfterStop ==
    [][\A t \in Tasks :
         stopRequested[t] /\ worker'[t].pc = "executing"
             => worker[t].pc = "executing"]_vars

\* stop() takes a running task out of the session even if it was waiting for
\* a user who never answers, and even if handle.stop() never returns, as long
\* as the runtime's stream ends and no orphaned handler ends the process.
StopUnblocks ==
    \A t \in Tasks :
        (stopRequested[t] /\ phase[t] \in {"streaming", "draining"})
            ~> (phase[t] = "settled" \/ ~Alive)

\* With a user who answers, a task that is started settles, though its runtime
\* ends its stream only after it got an answer to each of its calls, and
\* whatever failed in the session before it: a start, a stream, or a handler
\* after the end of the stream.  Only a handler that fails while a stream
\* runs leaves its task, and all others, unsettled: it ends the process.
EveryTaskSettles ==
    UserFairness =>
        \A t \in Tasks : phase[t] = "queued" ~> (phase[t] = "settled" \/ ~Alive)

\* What the callers of startTask see of a task.
Outcome(t) == IF resolved[t] THEN "fulfilled" ELSE "rejected"
Stage(t) == IF phase[t] \in {"idle", "queued"} THEN phase[t]
            ELSE IF Running(t) THEN "running" ELSE Outcome(t)

Queue == INSTANCE SessionQueue WITH
             turn <- ticket, stage <- [t \in Tasks |-> Stage(t)]

\* The chain of promises in sessionLocks implements a queue per session: turns
\* in the order of the calls, one at a time, rejection handed to the successor.
ImplementsSessionQueue == Queue!QueueSpec

-----------------------------------------------------------------------------
\* Refuted: "exactly one terminal event per task" (plan.md), at most one part,
\* for a task whose stream had begun before the first of them.
AtMostOneTerminal ==
    \A t \in Tasks :
        (\A i \in TerminalsOf(t) : \E j \in 1 .. (i - 1) :
             TaskLog(t)[j] = TaskEvent(t, "output"))
            => Cardinality(TerminalsOf(t)) <= 1

\* Refuted: "exactly one terminal event per task", at least one part, for a
\* task whose runtime started, that is settled and was not stopped.
AtLeastOneTerminal ==
    \A t \in Tasks :
        handleReady[t] /\ ~streamError[t] /\ phase[t] = "settled"
            => TerminalsOf(t) # {}
=============================================================================
