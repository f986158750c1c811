--------------------------- MODULE ExecutorEngine ---------------------------
(***************************************************************************)
(* The ExecutorEngine class (src/src/executor/engine.ts): tasks queued     *)
(* behind a per-session chain of promises, the loop that moves a runtime's *)
(* stream into the event log, the serial tool worker of a task with its    *)
(* policy decisions and user approvals, stop(), and the gauges.            *)
(*                                                                         *)
(* The program is single-threaded: code between two awaits is one atomic   *)
(* step, and any other handler may run at an await.  The runtime (its      *)
(* stream, startTask, stop, sendToolResult), the tool executor and the     *)
(* user are the environment: they answer in any order, late, or with an    *)
(* error.                                                                  *)
(***************************************************************************)
EXTENDS Integers, Sequences, FiniteSets, SequencesExt

CONSTANTS
    Sessions,    \* session ids
    Tasks,       \* task ids; each is started at most once
    NoTask,      \* no task: no lock, no predecessor
    SessionOf,   \* SessionOf[t]: the session that task t is started in
    Ids,         \* tool_call_id values
    Attempts,    \* (attempt, input_hash) pairs of a tool call id
    HostTools,   \* tasks whose runtime is external_mcp or hybrid
    StreamEnds,  \* bound: terminal events that a runtime's stream may yield
    Stoppable,   \* bound: tasks for which somebody calls stop()
    MaxOutputs,  \* bound: plain events of one task's stream
    MaxDeltas    \* bound: tool.output.delta events of one tool call

ASSUME EngineAssumption ==
    /\ NoTask \notin Tasks
    /\ SessionOf \in [Tasks -> Sessions]
    /\ HostTools \subseteq Tasks
    /\ IsFiniteSet(Tasks)
    /\ StreamEnds \subseteq {"task.completed", "task.failed", "task.stopped"}
    /\ Stoppable \subseteq Tasks
    /\ MaxOutputs \in Nat \ {0}
    /\ MaxDeltas \in Nat

Calls == [id : Ids, attempt : Attempts]
NoCall == [id |-> "none", attempt |-> "none"]

VARIABLES
    \* startTask: the per-session lock, a chain of promises
    phase,             \* where each task is (see Phases)
    resolved,          \* resolved[t]: lockPromise was fulfilled, not rejected
    pred,              \* pred[t]: the task whose lockPromise t waits for
    ticket,            \* ticket[t]: the order of the startTask calls (0: none)
    sessionLocks,      \* the task whose lockPromise is in the map
    \* stop()
    stopRequested,     \* control.stopRequested
    stopCall,          \* progress of the stop() call itself
    \* runTask: the stream loop
    handleReady,       \* runtimeHandleReady is resolved
    terminalEmitted,   \* the local terminalEmitted
    streamError,       \* the local streamError is set
    log,               \* log[s]: the events of session s
    \* handleToolCall
    toolQueue,         \* calls chained on toolProcessing, not yet begun
    worker,            \* the handleToolCall that is running
    pendingToolCalls,  \* the approvals the user is asked for
    granted,           \* what the user approved (history)
    \* gauges and metrics
    pendingTasks, activeTasks, activeSessions,
    taskStartTimes,    \* the keys of the map
    taskTerminalStatus,
    finished           \* finished[t]: status given to metrics.taskFinished

lockVars == <<phase, resolved, pred, ticket, sessionLocks>>
stopVars == <<stopRequested, stopCall>>
streamVars == <<handleReady, terminalEmitted, streamError>>
toolVars == <<toolQueue, worker, pendingToolCalls, granted>>
gaugeVars == <<pendingTasks, activeTasks, activeSessions, taskStartTimes,
               taskTerminalStatus, finished>>
vars == <<lockVars, stopVars, streamVars, log, toolVars, gaugeVars>>

-----------------------------------------------------------------------------
\* "queued": its `existing` promise is not settled; "starting": awaits
\* runtime.startTask; "streaming": awaits the next event; "draining": awaits
\* toolProcessing; "settling": runTask (or `existing`) settled and lockPromise
\* with it, .finally not yet run; "settled": .finally has run.
Phases == {"idle", "queued", "starting", "streaming", "draining",
           "settling", "settled"}

Running(t) == phase[t] \in {"starting", "streaming", "draining"}
Unsettled(t) == phase[t] \notin {"idle", "settled"}
Begun(t) == phase[t] \notin {"idle", "queued"}

(***************************************************************************)
(* The event log.  seq is the position here; EventStore models the store.  *)
(***************************************************************************)
Terminal == {"task.completed", "task.failed", "task.stopped"}
ToolEvents == {"requested", "policy_allow", "policy_ask", "policy_deny",
               "user_allow", "user_deny", "approved", "denied", "started",
               "output.delta", "completed"}
EventTypes == Terminal \cup ToolEvents \cup {"output"}
Event == [type : EventTypes, task : Tasks, call : Calls \cup {NoCall}]

TaskEvent(t, type) == [type |-> type, task |-> t, call |-> NoCall]
ToolEvent(t, c, type) == [type |-> type, task |-> t, call |-> c]

TaskLog(t) == log[SessionOf[t]]
Logged(t, c, type) ==
    \E i \in 1 .. Len(TaskLog(t)) : TaskLog(t)[i] = ToolEvent(t, c, type)
Count(t, c, type) ==
    Cardinality({i \in 1 .. Len(TaskLog(t)) :
                    TaskLog(t)[i] = ToolEvent(t, c, type)})

\* Appends the events es to the log of t's session.
Emit(t, es) == log' = [log EXCEPT ![SessionOf[t]] = @ \o es]

(***************************************************************************)
(* The tool worker.                                                        *)
(*   "asking": awaits the user; "decided": the promise it awaits is        *)
(*   resolved; "executing": awaits toolExecutor.execute; "reporting" and   *)
(*   "denying": await sendToolResult and sendToolDenied; "broken": the     *)
(*   handler threw and toolProcessing is rejected for good.                *)
(***************************************************************************)
WorkerStates == {"idle", "asking", "decided", "executing", "reporting",
                 "denying", "broken"}
Verdicts == {"none", "allow", "ask", "approve", "deny"}
Idle == [pc |-> "idle", call |-> NoCall, verdict |-> "none"]
At(pc, c, v) == [pc |-> pc, call |-> c, verdict |-> v]

NoPending == [task |-> NoTask, call |-> NoCall]
IsPending(s, id) == pendingToolCalls[s][id] # NoPending

\* Fault: the entry is deleted, the awaiting handler is not told.
Resolve_Silent(s, id, verdict) ==
    /\ pendingToolCalls' = [pendingToolCalls EXCEPT ![s][id] = NoPending]
    /\ UNCHANGED worker

\* The entry is deleted and the promise its task's worker awaits is resolved.
Resolve(s, id, verdict) ==
    LET p == pendingToolCalls[s][id]
    IN  /\ pendingToolCalls' = [pendingToolCalls EXCEPT ![s][id] = NoPending]
        /\ worker' = [worker EXCEPT ![p.task] = At("decided", p.call, verdict)]

\* Fault: the handler is told, the entry stays in the map.
CancelPending_KeepEntry(t) ==
    /\ worker' = [worker EXCEPT ![t] = IF @.pc = "asking"
                                      THEN At("decided", @.call, "deny") ELSE @]
    /\ UNCHANGED pendingToolCalls

\* Fault: the entries are deleted, the handler is not told.
CancelPending_Silent(t) ==
    /\ pendingToolCalls' = [pendingToolCalls EXCEPT ![SessionOf[t]] =
                              [id \in Ids |-> IF @[id].task = t THEN NoPending ELSE @[id]]]
    /\ UNCHANGED worker

\* cancelPendingToolCallsForTask: every entry of t is resolved with a denial.
CancelPending(t) ==
    LET s == SessionOf[t]
        own == {id \in Ids : pendingToolCalls[s][id].task = t}
    IN  /\ pendingToolCalls' =
             [pendingToolCalls EXCEPT ![s] =
                [id \in Ids |-> IF id \in own THEN NoPending ELSE @[id]]]
        /\ worker' = IF own = {} THEN worker
                     ELSE [worker EXCEPT ![t].pc = "decided",
                                         ![t].verdict = "deny"]

(***************************************************************************)
(* startTask: the task is chained behind the session's lock.               *)
(***************************************************************************)
StartTask(t) ==
    /\ phase[t] = "idle"
    /\ phase' = [phase EXCEPT ![t] = "queued"]
    /\ pred' = [pred EXCEPT ![t] = sessionLocks[SessionOf[t]]]
    /\ sessionLocks' = [sessionLocks EXCEPT ![SessionOf[t]] = t]
    /\ ticket' = [ticket EXCEPT
                    ![t] = Cardinality({u \in Tasks : phase[u] # "idle"}) + 1]
    /\ pendingTasks' = pendingTasks + 1
    /\ UNCHANGED <<resolved, stopVars, streamVars, log, toolVars, activeTasks,
                   activeSessions, taskStartTimes, taskTerminalStatus, finished>>

\* Fault: runTask is called without awaiting `existing`.
LockFree_NoWait(t) == TRUE

\* The promise that t was chained on is fulfilled.
LockFree(t) == pred[t] # NoTask => phase[pred[t]] = "settled" /\ resolved[pred[t]]

\* `existing` is fulfilled: runTask calls runtime.startTask.
RunTask(t) ==
    /\ phase[t] = "queued"
    /\ LockFree(t)
    /\ phase' = [phase EXCEPT ![t] = "starting"]
    /\ UNCHANGED <<resolved, pred, ticket, sessionLocks, stopVars, streamVars,
                   log, toolVars, gaugeVars>>

\* `existing` is rejected: runTask is never called and the lock rejects too.
SkipTask(t) ==
    /\ phase[t] = "queued"
    /\ pred[t] # NoTask
    /\ phase[pred[t]] = "settled"
    /\ ~resolved[pred[t]]
    /\ phase' = [phase EXCEPT ![t] = "settling"]
    /\ UNCHANGED <<resolved, pred, ticket, sessionLocks, stopVars, streamVars,
                   log, toolVars, gaugeVars>>

\* Fault: the lock is deleted whoever holds it by now.
Unlock_Always(t) == sessionLocks' = [sessionLocks EXCEPT ![SessionOf[t]] = NoTask]

\* The map entry is deleted if it is still this task's lockPromise.
Unlock(t) ==
    IF sessionLocks[SessionOf[t]] = t
    THEN sessionLocks' = [sessionLocks EXCEPT ![SessionOf[t]] = NoTask]
    ELSE UNCHANGED sessionLocks

\* The .finally of lockPromise.
Settle(t) ==
    /\ phase[t] = "settling"
    /\ phase' = [phase EXCEPT ![t] = "settled"]
    /\ pendingTasks' = IF pendingTasks > 0 THEN pendingTasks - 1 ELSE 0
    /\ Unlock(t)
    /\ UNCHANGED <<resolved, pred, ticket, stopVars, streamVars, log, toolVars,
                   activeTasks, activeSessions, taskStartTimes,
                   taskTerminalStatus, finished>>

(***************************************************************************)
(* Gauges and terminal status.                                             *)
(***************************************************************************)
\* recordTerminalStatus: the first status wins.
Record(t, type) ==
    taskTerminalStatus' =
        [taskTerminalStatus EXCEPT ![t] = IF @ = "none" THEN type ELSE @]

LastIsTerminal(s) == log[s] # << >> /\ Last(log[s]).type \in Terminal

\* emitTerminal looks at the last event of the session, whoever it is from.
TerminalAdopted(t, type) ==
    IF LastIsTerminal(SessionOf[t]) THEN Last(TaskLog(t)).type ELSE type
EmitTerminal(t, type) ==
    IF LastIsTerminal(SessionOf[t]) THEN UNCHANGED log
    ELSE Emit(t, <<TaskEvent(t, type)>>)

\* Fault: the gauge is decremented even if the task was never counted.
Finalize_NoGuard(t, status) ==
    /\ finished' = [finished EXCEPT ![t] = status]
    /\ taskTerminalStatus' = [taskTerminalStatus EXCEPT ![t] = "none"]
    /\ activeTasks' = activeTasks - 1
    /\ activeSessions' = activeSessions \ {SessionOf[t]}
    /\ taskStartTimes' = taskStartTimes \ {t}
    /\ UNCHANGED pendingTasks

\* Fault: the start time of the task is not forgotten.
Finalize_KeepStart(t, status) ==
    /\ finished' = [finished EXCEPT ![t] = status]
    /\ taskTerminalStatus' = [taskTerminalStatus EXCEPT ![t] = "none"]
    /\ activeTasks' = IF t \in taskStartTimes THEN activeTasks - 1 ELSE activeTasks
    /\ activeSessions' = IF t \in taskStartTimes
                         THEN activeSessions \ {SessionOf[t]} ELSE activeSessions
    /\ UNCHANGED <<taskStartTimes, pendingTasks>>

\* finalizeTask with the status the task has by then ("none": completed).
Finalize(t, status) ==
    /\ finished' = [finished EXCEPT
                      ![t] = IF status = "none" THEN "task.completed" ELSE status]
    /\ taskTerminalStatus' = [taskTerminalStatus EXCEPT ![t] = "none"]
    /\ IF t \in taskStartTimes
       THEN /\ activeTasks' = IF activeTasks > 0 THEN activeTasks - 1 ELSE 0
            /\ activeSessions' = activeSessions \ {SessionOf[t]}
       ELSE UNCHANGED <<activeTasks, activeSessions>>
    /\ taskStartTimes' = taskStartTimes \ {t}
    /\ UNCHANGED pendingTasks

(***************************************************************************)
(* runTask                                                                 *)
(***************************************************************************)
\* runtime.startTask resolved; markTaskStarted; the stream loop is entered.
RuntimeStarted(t) ==
    /\ phase[t] = "starting"
    /\ phase' = [phase EXCEPT ![t] = "streaming"]
    /\ handleReady' = [handleReady EXCEPT ![t] = TRUE]
    /\ taskStartTimes' = taskStartTimes \cup {t}
    /\ activeTasks' = activeTasks + 1
    /\ activeSessions' = activeSessions \cup {SessionOf[t]}
    /\ UNCHANGED <<resolved, pred, ticket, sessionLocks, stopVars,
                   terminalEmitted, streamError, log, toolVars, pendingTasks,
                   taskTerminalStatus, finished>>

\* runtime.startTask threw: no event at all, the lock rejects.
RuntimeStartFailed(t) ==
    /\ phase[t] = "starting"
    /\ phase' = [phase EXCEPT ![t] = "settling"]
    /\ Finalize(t, IF taskTerminalStatus[t] = "none" THEN "task.failed"
                   ELSE taskTerminalStatus[t])
    /\ UNCHANGED <<resolved, pred, ticket, sessionLocks, stopVars, streamVars,
                   log, toolVars>>

Outputs(t) == Cardinality({i \in 1 .. Len(TaskLog(t)) :
                              TaskLog(t)[i] = TaskEvent(t, "output")})
Opened(t) == phase[t] = "streaming" /\ ~terminalEmitted[t] /\ Outputs(t) > 0

\* The stream yields an event that is neither a tool request nor terminal.
\* Every adapter opens its stream with one (model.input).
StreamOutput(t) ==
    /\ phase[t] = "streaming"
    /\ ~terminalEmitted[t]
    /\ Outputs(t) < MaxOutputs
    /\ Emit(t, <<TaskEvent(t, "output")>>)
    /\ UNCHANGED <<lockVars, stopVars, streamVars, toolVars, gaugeVars>>

\* The stream yields tool.call.requested; enqueueTool chains the handler
\* unless the task is being stopped.  An adapter requests an attempt once.
StreamToolRequest(t, c) ==
    /\ Opened(t)
    /\ ~Logged(t, c, "requested")
    /\ Emit(t, <<ToolEvent(t, c, "requested")>>)
    /\ toolQueue' = IF t \in HostTools /\ ~stopRequested[t]
                    THEN [toolQueue EXCEPT ![t] = Append(@, c)]
                    ELSE toolQueue
    /\ UNCHANGED <<lockVars, stopVars, streamVars, worker, pendingToolCalls,
                   granted, gaugeVars>>

\* The stream yields the runtime's own terminal event.
StreamTerminal(t) ==
    /\ Opened(t)
    /\ \E type \in StreamEnds :
         /\ Emit(t, <<TaskEvent(t, type)>>)
         /\ Record(t, type)
    /\ terminalEmitted' = [terminalEmitted EXCEPT ![t] = TRUE]
    /\ UNCHANGED <<lockVars, stopVars, handleReady, streamError, toolVars,
                   pendingTasks, activeTasks, activeSessions, taskStartTimes,
                   finished>>

LeaveLoop(t) ==
    /\ phase' = [phase EXCEPT ![t] = "draining"]
    /\ CancelPending(t)
    /\ UNCHANGED <<resolved, pred, ticket, sessionLocks, stopVars, handleReady,
                   terminalEmitted, log, toolQueue, granted, gaugeVars>>

\* The stream ends, or yields one more event after a terminal one (break).
StreamEnded(t) ==
    /\ phase[t] = "streaming"
    /\ Outputs(t) > 0
    /\ LeaveLoop(t)
    /\ UNCHANGED streamError

\* The stream throws, or append refuses one of its events.
StreamFailed(t) ==
    /\ phase[t] = "streaming"
    /\ streamError' = [streamError EXCEPT ![t] = TRUE]
    /\ LeaveLoop(t)

\* Fault: `await toolProcessing` is missing.
ToolsDone_NoAwait(t) == TRUE

\* The chain of handlers, toolProcessing, is fulfilled.
ToolsDone(t) == worker[t].pc = "idle" /\ toolQueue[t] = << >>

\* Fault: emitTerminal is called even though the stream yielded a terminal.
NeedsTerminal_Always(t) == TRUE

NeedsTerminal(t) == ~terminalEmitted[t]

\* toolProcessing is fulfilled: the terminal event, finalizeTask, and the
\* task's promise settles, rejected if there was a stream error.
Drained(t) ==
    /\ phase[t] = "draining"
    /\ ToolsDone(t)
    /\ LET type == IF streamError[t] THEN "task.failed" ELSE "task.completed"
           adopted == IF NeedsTerminal(t) THEN TerminalAdopted(t, type) ELSE "none"
       IN  /\ IF NeedsTerminal(t) THEN EmitTerminal(t, type) ELSE UNCHANGED log
           /\ Finalize(t, IF taskTerminalStatus[t] = "none" THEN adopted
                          ELSE taskTerminalStatus[t])
    /\ phase' = [phase EXCEPT ![t] = "settling"]
    /\ resolved' = [resolved EXCEPT ![t] = ~streamError[t]]
    /\ UNCHANGED <<pred, ticket, sessionLocks, stopVars, streamVars, toolVars>>

\* toolProcessing is rejected: runTask throws at `await toolProcessing`.
DrainRejected(t) ==
    /\ phase[t] = "draining"
    /\ worker[t].pc = "broken"
    /\ phase' = [phase EXCEPT ![t] = "settling"]
    /\ UNCHANGED <<resolved, pred, ticket, sessionLocks, stopVars, streamVars,
                   log, toolVars, gaugeVars>>

(***************************************************************************)
(* handleToolCall                                                          *)
(***************************************************************************)
\* Fault: control.stopRequested is not looked at again after the user's answer.
MayExecute_Always(t) == TRUE

\* `if (control.stopRequested) return`, last checked before execute.
MayExecute(t) == ~stopRequested[t]

\* Fault: the execution is announced before the approval is.
Execute_StartedFirst(t, c, verdict, before) ==
    /\ Emit(t, before \o <<ToolEvent(t, c, "started"), ToolEvent(t, c, "approved")>>)
    /\ worker' = [worker EXCEPT ![t] = At("executing", c, verdict)]

\* The part from `tool.call.approved` to the call of toolExecutor.execute.
Execute(t, c, verdict, before) ==
    /\ Emit(t, before \o <<ToolEvent(t, c, "approved"), ToolEvent(t, c, "started")>>)
    /\ worker' = [worker EXCEPT ![t] = At("executing", c, verdict)]

\* The next handler of the chain runs up to its first await.
BeginToolCall(t) ==
    /\ worker[t].pc = "idle"
    /\ toolQueue[t] # << >>
    /\ toolQueue' = [toolQueue EXCEPT ![t] = Tail(@)]
    /\ LET c == Head(toolQueue[t])
           s == SessionOf[t]
       IN  \/ /\ stopRequested[t]
              /\ UNCHANGED <<worker, pendingToolCalls, log>>
           \/ /\ ~stopRequested[t]       \* policyEngine.decide: deny
              /\ Emit(t, <<ToolEvent(t, c, "policy_deny"), ToolEvent(t, c, "denied")>>)
              /\ worker' = [worker EXCEPT ![t] = At("denying", c, "deny")]
              /\ UNCHANGED pendingToolCalls
           \/ /\ ~stopRequested[t]       \* ask; throws if the key is pending
              /\ Emit(t, <<ToolEvent(t, c, "policy_ask")>>)
              /\ IF IsPending(s, c.id)
                 THEN /\ worker' = [worker EXCEPT ![t] = At("broken", c, "ask")]
                      /\ UNCHANGED pendingToolCalls
                 ELSE /\ worker' = [worker EXCEPT ![t] = At("asking", c, "ask")]
                      /\ pendingToolCalls' = [pendingToolCalls EXCEPT
                             ![s][c.id] = [task |-> t, call |-> c]]
           \/ /\ ~stopRequested[t]       \* allow
              /\ Execute(t, c, "allow", <<ToolEvent(t, c, "policy_allow")>>)
              /\ UNCHANGED pendingToolCalls
    /\ UNCHANGED <<lockVars, stopVars, streamVars, granted, gaugeVars>>

\* Fault: the attempt and the input hash are not compared.
Matches_IdOnly(s, c) == IsPending(s, c.id)

\* The id is pending, with this attempt and input hash.
Matches(s, c) == IsPending(s, c.id) /\ pendingToolCalls[s][c.id].call = c

\* approveToolCall and denyToolCall: only the pending attempt is resolved.
Approve(s, c) ==
    /\ Matches(s, c)
    /\ Resolve(s, c.id, "approve")
    /\ granted' = granted \cup {<<s, c>>}
    /\ UNCHANGED <<lockVars, stopVars, streamVars, log, toolQueue, gaugeVars>>

Deny(s, c) ==
    /\ Matches(s, c)
    /\ Resolve(s, c.id, "deny")
    /\ UNCHANGED <<lockVars, stopVars, streamVars, log, toolQueue, granted,
                   gaugeVars>>

\* The handler goes on after `await waitForToolCallDecision`.
AfterDecision(t) ==
    /\ worker[t].pc = "decided"
    /\ LET c == worker[t].call
       IN  \/ /\ worker[t].verdict = "deny"
              /\ Emit(t, <<ToolEvent(t, c, "user_deny"), ToolEvent(t, c, "denied")>>)
              /\ worker' = [worker EXCEPT ![t] = At("denying", c, "deny")]
           \/ /\ worker[t].verdict = "approve"
              /\ ~MayExecute(t)
              /\ Emit(t, <<ToolEvent(t, c, "user_allow")>>)
              /\ worker' = [worker EXCEPT ![t] = Idle]
           \/ /\ worker[t].verdict = "approve"
              /\ MayExecute(t)
              /\ Execute(t, c, "approve", <<ToolEvent(t, c, "user_allow")>>)
    /\ UNCHANGED <<lockVars, stopVars, streamVars, toolQueue, pendingToolCalls,
                   granted, gaugeVars>>

\* onOutput of the running tool.
ToolOutput(t) ==
    /\ worker[t].pc = "executing"
    /\ Count(t, worker[t].call, "output.delta") < MaxDeltas
    /\ Emit(t, <<ToolEvent(t, worker[t].call, "output.delta")>>)
    /\ UNCHANGED <<lockVars, stopVars, streamVars, toolVars, gaugeVars>>

\* The tool returned: [output.completed and] completed, then sendToolResult.
ToolReturned(t) ==
    /\ worker[t].pc = "executing"
    /\ Emit(t, <<ToolEvent(t, worker[t].call, "completed")>>)
    /\ worker' = [worker EXCEPT ![t].pc = "reporting"]
    /\ UNCHANGED <<lockVars, stopVars, streamVars, toolQueue, pendingToolCalls,
                   granted, gaugeVars>>

\* The executor, or the artifact store that takes a large result, threw; or
\* sendToolResult or sendToolDenied rejected.  The runtime gets no answer to
\* the call.  While the stream runs nobody awaits toolProcessing: see Alive.
ToolCallThrows(t) ==
    /\ worker[t].pc \in {"executing", "reporting", "denying"}
    /\ worker' = [worker EXCEPT ![t].pc = "broken"]
    /\ UNCHANGED <<lockVars, stopVars, streamVars, log, toolQueue,
                   pendingToolCalls, granted, gaugeVars>>

\* sendToolResult or sendToolDenied returned: the handler is done.
ToolCallDone(t) ==
    /\ worker[t].pc \in {"reporting", "denying"}
    /\ worker' = [worker EXCEPT ![t] = Idle]
    /\ UNCHANGED <<lockVars, stopVars, streamVars, log, toolQueue,
                   pendingToolCalls, granted, gaugeVars>>

(***************************************************************************)
(* stop(): called once per task here, at any time after startTask.         *)
(***************************************************************************)
Stop(t) ==
    /\ t \in Stoppable
    /\ phase[t] # "idle"
    /\ stopCall[t] = "none"
    /\ stopRequested' = [stopRequested EXCEPT ![t] = TRUE]
    /\ stopCall' = [stopCall EXCEPT ![t] = "waiting"]
    /\ CancelPending(t)
    /\ UNCHANGED <<lockVars, streamVars, log, toolQueue, granted, gaugeVars>>

\* handle.stop() resolved: the task.stopped event.
StopReturned(t) ==
    /\ stopCall[t] = "waiting"
    /\ handleReady[t]
    /\ stopCall' = [stopCall EXCEPT ![t] = "done"]
    /\ EmitTerminal(t, "task.stopped")
    /\ Record(t, TerminalAdopted(t, "task.stopped"))
    /\ UNCHANGED <<lockVars, stopRequested, streamVars, toolVars, pendingTasks,
                   activeTasks, activeSessions, taskStartTimes, finished>>

\* handle.stop() rejected: stop() rejects, nothing is emitted.
StopFailed(t) ==
    /\ stopCall[t] = "waiting"
    /\ handleReady[t]
    /\ stopCall' = [stopCall EXCEPT ![t] = "failed"]
    /\ UNCHANGED <<lockVars, stopRequested, streamVars, log, toolVars, gaugeVars>>

Init ==
    /\ phase = [t \in Tasks |-> "idle"]
    /\ resolved = [t \in Tasks |-> FALSE]
    /\ pred = [t \in Tasks |-> NoTask]
    /\ ticket = [t \in Tasks |-> 0]
    /\ sessionLocks = [s \in Sessions |-> NoTask]
    /\ stopRequested = [t \in Tasks |-> FALSE]
    /\ stopCall = [t \in Tasks |-> "none"]
    /\ handleReady = [t \in Tasks |-> FALSE]
    /\ terminalEmitted = [t \in Tasks |-> FALSE]
    /\ streamError = [t \in Tasks |-> FALSE]
    /\ log = [s \in Sessions |-> << >>]
    /\ toolQueue = [t \in Tasks |-> << >>]
    /\ worker = [t \in Tasks |-> Idle]
    /\ pendingToolCalls = [s \in Sessions |-> [id \in Ids |-> NoPending]]
    /\ granted = {}
    /\ pendingTasks = 0
    /\ activeTasks = 0
    /\ activeSessions = {}
    /\ taskStartTimes = {}
    /\ taskTerminalStatus = [t \in Tasks |-> "none"]
    /\ finished = [t \in Tasks |-> "none"]

TaskStep(t) ==
    \/ StartTask(t) \/ RunTask(t) \/ SkipTask(t) \/ Settle(t)
    \/ RuntimeStarted(t) \/ RuntimeStartFailed(t)
    \/ StreamOutput(t) \/ StreamTerminal(t) \/ StreamEnded(t) \/ StreamFailed(t)
    \/ \E c \in Calls : StreamToolRequest(t, c)
    \/ Drained(t) \/ DrainRejected(t)

ToolStep(t) ==
    \/ BeginToolCall(t) \/ AfterDecision(t)
    \/ ToolOutput(t) \/ ToolReturned(t) \/ ToolCallThrows(t) \/ ToolCallDone(t)

StopStep(t) == Stop(t) \/ StopReturned(t) \/ StopFailed(t)

UserStep == \E s \in Sessions, c \in Calls : Approve(s, c) \/ Deny(s, c)

\* A rejected toolProcessing of a task whose stream still runs has nobody who
\* listens to it (runTask awaits it after the loop): an unhandled rejection,
\* and nothing in src/ handles those, so Node ends the process.
Orphaned(t) == phase[t] = "streaming" /\ worker[t].pc = "broken"
Alive == \A t \in Tasks : ~Orphaned(t)

Next == /\ Alive
        /\ \/ UserStep
           \/ \E t \in Tasks : TaskStep(t) \/ ToolStep(t) \/ StopStep(t)

Spec == Init /\ [][Next]_vars

(***************************************************************************)
(* Fairness, while the process lives.  Promise reactions are run by the    *)
(* event loop.  The runtime answers startTask, and the tool executor and   *)
(* sendToolResult return or fail, in the end.  A runtime waits for the     *)
(* answers to its calls, so its stream has to end only when each of them   *)
(* is answered, or when it was told to stop (StopEnds of RuntimeAdapters). *)
(* handle.stop() itself and the user may never answer.                     *)
(***************************************************************************)
Continue(t) == RunTask(t) \/ SkipTask(t) \/ Settle(t) \/ Drained(t) \/ DrainRejected(t)
Handle(t) == BeginToolCall(t) \/ AfterDecision(t)
EndStream(t) == /\ ToolsDone(t) \/ stopRequested[t]
                /\ StreamEnded(t) \/ StreamFailed(t)

LoopFairness ==
    \A t \in Tasks : WF_vars(Alive /\ Continue(t)) /\ WF_vars(Alive /\ Handle(t))
RuntimeFairness ==
    \A t \in Tasks :
        /\ WF_vars(Alive /\ (RuntimeStarted(t) \/ RuntimeStartFailed(t)))
        /\ WF_vars(Alive /\ EndStream(t))
        /\ WF_vars(Alive /\ (ToolReturned(t) \/ ToolCallThrows(t) \/ ToolCallDone(t)))
UserFairness ==
    \A s \in Sessions : WF_vars(Alive /\ \E c \in Calls : Approve(s, c) \/ Deny(s, c))

FairSpec == Spec /\ LoopFairness /\ RuntimeFairness
=============================================================================
