------------------------ MODULE ExecutorEngineProofs ------------------------
(***************************************************************************)
(* Proofs about ExecutorEngine for any number of sessions, tasks, tool     *)
(* calls and events: type correctness, the session lock (mutual exclusion  *)
(* and first-in-first-out), and the approvals.                             *)
(***************************************************************************)
EXTENDS ExecutorEngineProps, FiniteSetTheorems, TLAPS

-----------------------------------------------------------------------------
(* Type correctness.                                                       *)

Started == {u \in Tasks : phase[u] # "idle"}

\* The tasks of which startTask was called can be counted.
LEMMA StartedFinite == Cardinality(Started) \in Nat /\ IsFiniteSet(Started)
<1>1. Started \subseteq Tasks
  BY DEF Started
<1>2. QED  BY <1>1, EngineAssumption, FS_Subset, FS_CardinalityType

\* Appending typed events to a session's log keeps the logs typed.
LEMMA EmitType ==
    ASSUME StreamTypeOK, NEW t \in Tasks, NEW es \in Seq(Event), Emit(t, es)
    PROVE  log' \in [Sessions -> Seq(Event)]
<1>1. SessionOf[t] \in Sessions
  BY EngineAssumption
<1>2. log[SessionOf[t]] \o es \in Seq(Event)
  BY <1>1 DEF StreamTypeOK
<1>3. QED  BY <1>1, <1>2 DEF Emit, StreamTypeOK

\* Denying the pending calls of a task keeps workers and entries typed.
LEMMA CancelType ==
    ASSUME ToolTypeOK, NEW t \in Tasks, CancelPending(t)
    PROVE  /\ worker' \in [Tasks -> [pc : WorkerStates,
                                     call : Calls \cup {NoCall},
                                     verdict : Verdicts]]
           /\ pendingToolCalls' \in [Sessions -> [Ids -> PendingEntry]]
<1>1. SessionOf[t] \in Sessions
  BY EngineAssumption
<1>2. NoPending \in PendingEntry
  BY DEF PendingEntry
<1>3. pendingToolCalls' \in [Sessions -> [Ids -> PendingEntry]]
  BY <1>1, <1>2 DEF CancelPending, ToolTypeOK
<1>4. [worker EXCEPT ![t].pc = "decided", ![t].verdict = "deny"]
        \in [Tasks -> [pc : WorkerStates, call : Calls \cup {NoCall},
                       verdict : Verdicts]]
  BY DEF ToolTypeOK, WorkerStates, Verdicts
<1>5. QED  BY <1>3, <1>4 DEF CancelPending, ToolTypeOK

\* finalizeTask keeps the gauges typed.
LEMMA FinalizeType ==
    ASSUME GaugeTypeOK, NEW t \in Tasks, NEW status \in Statuses,
           Finalize(t, status)
    PROVE  GaugeTypeOK'
BY DEF Finalize, GaugeTypeOK, Statuses, Terminal

\* The status that emitTerminal returns is the type of a terminal event.
LEMMA AdoptedType ==
    ASSUME StreamTypeOK, NEW t \in Tasks, NEW type \in Terminal
    PROVE  TerminalAdopted(t, type) \in Terminal
BY DEF TerminalAdopted, LastIsTerminal, TaskLog

\* emitTerminal appends at most one typed event.
LEMMA EmitTerminalType ==
    ASSUME StreamTypeOK, NEW t \in Tasks, NEW type \in Terminal,
           EmitTerminal(t, type)
    PROVE  log' \in [Sessions -> Seq(Event)]
<1>1. <<TaskEvent(t, type)>> \in Seq(Event)
  BY DEF TaskEvent, Event, EventTypes
<1>2. QED  BY <1>1, EmitType DEF EmitTerminal, StreamTypeOK

\* Initially every variable has its type.
LEMMA InitType == ASSUME Init PROVE TypeOK
BY DEF Init, TypeOK, LockTypeOK, StreamTypeOK, ToolTypeOK, GaugeTypeOK, Phases,
       Idle, WorkerStates, Verdicts, Statuses, PendingEntry

\* The session lock: startTask, its two continuations and its .finally.
LEMMA LockStepsType ==
    ASSUME TypeOK, NEW t \in Tasks,
           StartTask(t) \/ RunTask(t) \/ SkipTask(t) \/ Settle(t)
    PROVE  TypeOK'
<1> USE EngineAssumption
    DEF TypeOK, LockTypeOK, Phases, stopVars, streamVars, toolVars, gaugeVars
<1>1. SessionOf[t] \in Sessions
  OBVIOUS
<1>2. CASE StartTask(t)
  <2>1. Cardinality(Started) + 1 \in Nat
    BY StartedFinite
  <2>2. ticket' \in [Tasks -> Nat]
    BY <1>2, <2>1 DEF StartTask, Started
  <2>3. GaugeTypeOK'
    BY <1>2 DEF StartTask, GaugeTypeOK
  <2>4. StreamTypeOK' /\ ToolTypeOK'
    BY <1>2 DEF StartTask, StreamTypeOK, ToolTypeOK
  <2>5. QED  BY <1>1, <1>2, <2>2, <2>3, <2>4 DEF StartTask
<1>3. CASE RunTask(t)
  BY <1>3 DEF RunTask, StreamTypeOK, ToolTypeOK, GaugeTypeOK
<1>4. CASE SkipTask(t)
  BY <1>4 DEF SkipTask, StreamTypeOK, ToolTypeOK, GaugeTypeOK
<1>5. CASE Settle(t)
  <2>1. GaugeTypeOK'
    BY <1>5 DEF Settle, GaugeTypeOK
  <2>2. StreamTypeOK' /\ ToolTypeOK'
    BY <1>5 DEF Settle, StreamTypeOK, ToolTypeOK
  <2>3. QED  BY <1>1, <1>5, <2>1, <2>2 DEF Settle, Unlock
<1>6. QED  BY <1>2, <1>3, <1>4, <1>5

\* The start of the runtime, and the stream loop.
LEMMA StreamStepsType ==
    ASSUME TypeOK, NEW t \in Tasks,
           \/ RuntimeStarted(t) \/ RuntimeStartFailed(t)
           \/ StreamOutput(t) \/ StreamTerminal(t)
           \/ \E c \in Calls : StreamToolRequest(t, c)
    PROVE  TypeOK'
<1> USE EngineAssumption DEF TypeOK
<1>1. SessionOf[t] \in Sessions
  OBVIOUS
<1>2. CASE RuntimeStarted(t)
  BY <1>1, <1>2 DEF RuntimeStarted, LockTypeOK, Phases, StreamTypeOK,
                    ToolTypeOK, GaugeTypeOK, stopVars, toolVars
<1>3. CASE RuntimeStartFailed(t)
  <2>1. (IF taskTerminalStatus[t] = "none" THEN "task.failed"
         ELSE taskTerminalStatus[t]) \in Statuses
    BY DEF GaugeTypeOK, Statuses, Terminal
  <2>2. GaugeTypeOK'
    BY <1>3, <2>1, FinalizeType DEF RuntimeStartFailed
  <2>3. QED
    BY <1>3, <2>2 DEF RuntimeStartFailed, LockTypeOK, Phases, StreamTypeOK,
                      ToolTypeOK, stopVars, streamVars, toolVars
<1>4. CASE StreamOutput(t)
  <2>1. <<TaskEvent(t, "output")>> \in Seq(Event)
    BY DEF TaskEvent, Event, EventTypes
  <2>2. log' \in [Sessions -> Seq(Event)]
    BY <1>4, <2>1, EmitType DEF StreamOutput
  <2>3. QED
    BY <1>4, <2>2 DEF StreamOutput, LockTypeOK, StreamTypeOK, ToolTypeOK,
         GaugeTypeOK, lockVars, stopVars, streamVars, toolVars, gaugeVars
<1>5. CASE StreamTerminal(t)
  <2>1. PICK type \in StreamEnds : /\ Emit(t, <<TaskEvent(t, type)>>)
                                   /\ Record(t, type)
    BY <1>5 DEF StreamTerminal
  <2>2. type \in Terminal
    BY DEF Terminal
  <2>3. <<TaskEvent(t, type)>> \in Seq(Event)
    BY <2>2 DEF TaskEvent, Event, EventTypes
  <2>4. log' \in [Sessions -> Seq(Event)]
    BY <2>1, <2>3, EmitType
  <2>5. taskTerminalStatus' \in [Tasks -> Statuses]
    BY <2>1, <2>2 DEF Record, GaugeTypeOK, Statuses
  <2>6. QED
    BY <1>5, <2>4, <2>5 DEF StreamTerminal, LockTypeOK, StreamTypeOK,
         ToolTypeOK, GaugeTypeOK, lockVars, stopVars, toolVars
<1>6. ASSUME NEW c \in Calls, StreamToolRequest(t, c)
      PROVE  TypeOK'
  <2>1. <<ToolEvent(t, c, "requested")>> \in Seq(Event)
    BY DEF ToolEvent, Event, EventTypes, ToolEvents
  <2>2. log' \in [Sessions -> Seq(Event)]
    BY <1>6, <2>1, EmitType DEF StreamToolRequest
  <2>3. toolQueue' \in [Tasks -> Seq(Calls)]
    <3>1. Append(toolQueue[t], c) \in Seq(Calls)
      BY DEF ToolTypeOK
    <3>2. QED  BY <1>6, <3>1 DEF StreamToolRequest, ToolTypeOK
  <2>4. QED
    BY <1>6, <2>2, <2>3 DEF StreamToolRequest, LockTypeOK, StreamTypeOK,
         ToolTypeOK, GaugeTypeOK, lockVars, stopVars, streamVars, gaugeVars
<1>7. QED  BY <1>2, <1>3, <1>4, <1>5, <1>6

\* The end of the stream and of the task.
LEMMA EndStepsType ==
    ASSUME TypeOK, NEW t \in Tasks,
           StreamEnded(t) \/ StreamFailed(t) \/ Drained(t) \/ DrainRejected(t)
    PROVE  TypeOK'
<1> USE EngineAssumption DEF TypeOK
<1>1. CASE StreamEnded(t) \/ StreamFailed(t)
  <2>1. LeaveLoop(t)
    BY <1>1 DEF StreamEnded, StreamFailed
  <2>2. ToolTypeOK'
    BY <2>1, CancelType DEF LeaveLoop, ToolTypeOK
  <2>3. streamError' \in [Tasks -> BOOLEAN]
    BY <1>1 DEF StreamEnded, StreamFailed, StreamTypeOK
  <2>4. LockTypeOK' /\ StreamTypeOK' /\ GaugeTypeOK'
    BY <2>1, <2>3 DEF LeaveLoop, LockTypeOK, Phases, StreamTypeOK,
                      GaugeTypeOK, stopVars, gaugeVars
  <2>5. QED  BY <2>2, <2>4
<1>2. CASE Drained(t)
  <2> DEFINE type == IF streamError[t] THEN "task.failed" ELSE "task.completed"
             adopted == IF NeedsTerminal(t) THEN TerminalAdopted(t, type)
                        ELSE "none"
             status == IF taskTerminalStatus[t] = "none" THEN adopted
                       ELSE taskTerminalStatus[t]
  <2>1. type \in Terminal
    BY DEF Terminal
  <2>2. adopted \in Statuses
    BY <2>1, AdoptedType DEF Statuses
  <2>3. status \in Statuses
    BY <2>2 DEF GaugeTypeOK
  <2>4. Finalize(t, status)
    BY <1>2 DEF Drained
  <2>5. GaugeTypeOK'
    BY <2>3, <2>4, FinalizeType
  <2>6. log' \in [Sessions -> Seq(Event)]
    BY <1>2, <2>1, EmitTerminalType DEF Drained, StreamTypeOK
  <2>7. QED
    BY <1>2, <2>5, <2>6 DEF Drained, LockTypeOK, Phases, StreamTypeOK,
                            ToolTypeOK, stopVars, streamVars, toolVars
<1>3. CASE DrainRejected(t)
  BY <1>3 DEF DrainRejected, LockTypeOK, Phases, StreamTypeOK, ToolTypeOK,
              GaugeTypeOK, stopVars, streamVars, toolVars, gaugeVars
<1>4. QED  BY <1>1, <1>2, <1>3

\* stop(): its call, its answer and its failure.
LEMMA StopStepsType ==
    ASSUME TypeOK, NEW t \in Tasks, StopStep(t)
    PROVE  TypeOK'
<1> USE EngineAssumption DEF TypeOK
<1>1. CASE Stop(t)
  <2>1. ToolTypeOK'
    BY <1>1, CancelType DEF Stop, ToolTypeOK
  <2>2. QED
    BY <1>1, <2>1 DEF Stop, LockTypeOK, StreamTypeOK, GaugeTypeOK, lockVars,
                      streamVars, gaugeVars
<1>2. CASE StopReturned(t)
  <2>1. "task.stopped" \in Terminal
    BY DEF Terminal
  <2>2. log' \in [Sessions -> Seq(Event)]
    BY <1>2, <2>1, EmitTerminalType DEF StopReturned
  <2>3. taskTerminalStatus' \in [Tasks -> Statuses]
    BY <1>2, <2>1, AdoptedType DEF StopReturned, Record, GaugeTypeOK, Statuses
  <2>4. QED
    BY <1>2, <2>2, <2>3 DEF StopReturned, LockTypeOK, StreamTypeOK, ToolTypeOK,
                            GaugeTypeOK, lockVars, streamVars, toolVars
<1>3. CASE StopFailed(t)
  BY <1>3 DEF StopFailed, LockTypeOK, StreamTypeOK, ToolTypeOK, GaugeTypeOK,
              lockVars, streamVars, toolVars, gaugeVars
<1>4. QED  BY <1>1, <1>2, <1>3 DEF StopStep

\* Answering a pending call keeps workers and entries typed.
LEMMA ResolveType ==
    ASSUME ToolTypeOK, NEW s \in Sessions, NEW id \in Ids,
           NEW verdict \in Verdicts, IsPending(s, id), Resolve(s, id, verdict)
    PROVE  /\ worker' \in [Tasks -> [pc : WorkerStates,
                                     call : Calls \cup {NoCall},
                                     verdict : Verdicts]]
           /\ pendingToolCalls' \in [Sessions -> [Ids -> PendingEntry]]
<1> DEFINE p == pendingToolCalls[s][id]
<1>1. p.task \in Tasks /\ p.call \in Calls
  BY DEF IsPending, ToolTypeOK, PendingEntry
<1>2. At("decided", p.call, verdict)
        \in [pc : WorkerStates, call : Calls \cup {NoCall}, verdict : Verdicts]
  BY <1>1 DEF At, WorkerStates
<1>3. NoPending \in PendingEntry
  BY DEF PendingEntry
<1>4. QED  BY <1>1, <1>2, <1>3 DEF Resolve, ToolTypeOK

\* The user's answers.
LEMMA UserStepsType ==
    ASSUME TypeOK, UserStep
    PROVE  TypeOK'
<1>1. PICK s \in Sessions, c \in Calls : Approve(s, c) \/ Deny(s, c)
  BY DEF UserStep
<1>2. IsPending(s, c.id) /\ c.id \in Ids
  BY <1>1 DEF Approve, Deny, Matches, Calls
<1>3. \E v \in Verdicts : Resolve(s, c.id, v)
  BY <1>1 DEF Approve, Deny, Verdicts
<1>4. /\ worker' \in [Tasks -> [pc : WorkerStates, call : Calls \cup {NoCall},
                                verdict : Verdicts]]
      /\ pendingToolCalls' \in [Sessions -> [Ids -> PendingEntry]]
  BY <1>2, <1>3, ResolveType DEF TypeOK
<1>5. granted' \subseteq Sessions \X Calls
  BY <1>1 DEF Approve, Deny, TypeOK, ToolTypeOK
<1>6. UNCHANGED <<lockVars, stopVars, streamVars, log, toolQueue, gaugeVars>>
  BY <1>1 DEF Approve, Deny
<1>7. QED
  BY <1>4, <1>5, <1>6 DEF TypeOK, LockTypeOK, StreamTypeOK, ToolTypeOK,
     GaugeTypeOK, lockVars, stopVars, streamVars, gaugeVars

Workers == [pc : WorkerStates, call : Calls \cup {NoCall}, verdict : Verdicts]

\* What Execute appends and where it leaves the worker.
LEMMA ExecuteType ==
    ASSUME TypeOK, NEW t \in Tasks, NEW c \in Calls \cup {NoCall},
           NEW verdict \in Verdicts, NEW before \in ToolEvents,
           Execute(t, c, verdict, <<ToolEvent(t, c, before)>>)
    PROVE  log' \in [Sessions -> Seq(Event)] /\ worker' \in [Tasks -> Workers]
<1>1. /\ ToolEvent(t, c, before) \in Event
      /\ ToolEvent(t, c, "approved") \in Event
      /\ ToolEvent(t, c, "started") \in Event
  BY DEF ToolEvent, Event, EventTypes, ToolEvents
<1>2. <<ToolEvent(t, c, before)>> \o <<ToolEvent(t, c, "approved"),
                                       ToolEvent(t, c, "started")>> \in Seq(Event)
  BY <1>1
<1>3. log' \in [Sessions -> Seq(Event)]
  BY <1>2, EmitType DEF Execute, TypeOK
<1>4. At("executing", c, verdict) \in Workers
  BY DEF At, Workers, WorkerStates
<1>5. QED  BY <1>3, <1>4 DEF Execute, TypeOK, ToolTypeOK, Workers

\* The tool worker.
LEMMA ToolStepsType ==
    ASSUME TypeOK, NEW t \in Tasks, ToolStep(t)
    PROVE  TypeOK'
<1>1. SessionOf[t] \in Sessions /\ worker[t] \in Workers /\ Idle \in Workers
  BY EngineAssumption
     DEF TypeOK, ToolTypeOK, Workers, Idle, WorkerStates, Verdicts
<1>2. ASSUME NEW c \in Calls \cup {NoCall}, NEW type \in ToolEvents
      PROVE  ToolEvent(t, c, type) \in Event
  BY DEF ToolEvent, Event, EventTypes
<1>3. ASSUME NEW c \in Calls \cup {NoCall}, NEW v \in Verdicts,
             NEW pc \in WorkerStates
      PROVE  At(pc, c, v) \in Workers
  BY DEF At, Workers
<1>4. SUFFICES /\ log' \in [Sessions -> Seq(Event)]
               /\ toolQueue' \in [Tasks -> Seq(Calls)]
               /\ worker' \in [Tasks -> Workers]
               /\ pendingToolCalls' \in [Sessions -> [Ids -> PendingEntry]]
  <2>1. UNCHANGED <<lockVars, stopVars, streamVars, granted, gaugeVars>>
    BY DEF ToolStep, BeginToolCall, AfterDecision, ToolOutput, ToolReturned,
           ToolCallThrows, ToolCallDone, toolVars
  <2>2. QED
    BY <2>1 DEF TypeOK, LockTypeOK, StreamTypeOK, ToolTypeOK, GaugeTypeOK,
                Workers, lockVars, stopVars, streamVars, gaugeVars
<1> DEFINE Old == /\ log \in [Sessions -> Seq(Event)]
                  /\ toolQueue \in [Tasks -> Seq(Calls)]
                  /\ worker \in [Tasks -> Workers]
                  /\ pendingToolCalls \in [Sessions -> [Ids -> PendingEntry]]
<1>5. Old
  BY DEF TypeOK, StreamTypeOK, ToolTypeOK, Workers
<1>6. CASE BeginToolCall(t)
  <2> DEFINE c == Head(toolQueue[t])
             s == SessionOf[t]
  <2>1. c \in Calls /\ c.id \in Ids /\ Tail(toolQueue[t]) \in Seq(Calls)
    <3>1. toolQueue[t] \in Seq(Calls) /\ toolQueue[t] # << >>
      BY <1>5, <1>6 DEF BeginToolCall
    <3>2. Head(toolQueue[t]) \in Calls /\ Tail(toolQueue[t]) \in Seq(Calls)
      BY <3>1
    <3>3. QED  BY <3>2 DEF Calls
  <2>2. toolQueue' \in [Tasks -> Seq(Calls)]
    BY <1>5, <1>6, <2>1 DEF BeginToolCall
  <2>3. CASE UNCHANGED <<worker, pendingToolCalls, log>>
    BY <1>5, <2>2, <2>3
  <2>4. CASE /\ Emit(t, <<ToolEvent(t, c, "policy_deny"),
                          ToolEvent(t, c, "denied")>>)
             /\ worker' = [worker EXCEPT ![t] = At("denying", c, "deny")]
             /\ UNCHANGED pendingToolCalls
    <3>1. <<ToolEvent(t, c, "policy_deny"), ToolEvent(t, c, "denied")>>
            \in Seq(Event)
      BY <1>2, <2>1 DEF ToolEvents
    <3>2. At("denying", c, "deny") \in Workers
      BY <1>3, <2>1 DEF Verdicts, WorkerStates
    <3>3. log' \in [Sessions -> Seq(Event)]
      BY <2>4, <3>1, EmitType DEF TypeOK
    <3>4. QED  BY <1>5, <2>2, <2>4, <3>2, <3>3
  <2>5. CASE /\ Emit(t, <<ToolEvent(t, c, "policy_ask")>>)
             /\ IF IsPending(s, c.id)
                THEN /\ worker' = [worker EXCEPT ![t] = At("broken", c, "ask")]
                     /\ UNCHANGED pendingToolCalls
                ELSE /\ worker' = [worker EXCEPT ![t] = At("asking", c, "ask")]
                     /\ pendingToolCalls' = [pendingToolCalls EXCEPT
                            ![s][c.id] = [task |-> t, call |-> c]]
    <3>1. <<ToolEvent(t, c, "policy_ask")>> \in Seq(Event)
      BY <1>2, <2>1 DEF ToolEvents
    <3>2. At("broken", c, "ask") \in Workers /\ At("asking", c, "ask") \in Workers
      BY <1>3, <2>1 DEF Verdicts, WorkerStates
    <3>3. log' \in [Sessions -> Seq(Event)]
      BY <2>5, <3>1, EmitType DEF TypeOK
    <3>4. [task |-> t, call |-> c] \in PendingEntry
      BY <2>1 DEF PendingEntry
    <3>5. pendingToolCalls' \in [Sessions -> [Ids -> PendingEntry]]
      <4>1. CASE IsPending(s, c.id)
        BY <1>5, <2>5, <4>1
      <4>2. CASE ~IsPending(s, c.id)
        <5>1. [pendingToolCalls[s] EXCEPT ![c.id] = [task |-> t, call |-> c]]
                \in [Ids -> PendingEntry]
          BY <1>1, <1>5, <3>4
        <5>2. pendingToolCalls' = [pendingToolCalls EXCEPT ![s] =
                [pendingToolCalls[s] EXCEPT ![c.id] = [task |-> t, call |-> c]]]
          BY <2>5, <4>2
        <5>3. QED  BY <1>5, <5>1, <5>2
      <4>3. QED  BY <4>1, <4>2
    <3>6. worker' \in [Tasks -> Workers]
      BY <1>5, <2>5, <3>2
    <3>7. QED  BY <2>2, <3>3, <3>5, <3>6
  <2>6. CASE /\ Execute(t, c, "allow", <<ToolEvent(t, c, "policy_allow")>>)
             /\ UNCHANGED pendingToolCalls
    <3>1. "allow" \in Verdicts /\ "policy_allow" \in ToolEvents
      BY DEF Verdicts, ToolEvents
    <3>2. log' \in [Sessions -> Seq(Event)] /\ worker' \in [Tasks -> Workers]
      BY <2>1, <2>6, <3>1, ExecuteType
    <3>3. QED  BY <1>5, <2>2, <2>6, <3>2
  <2>7. QED  BY <1>6, <2>3, <2>4, <2>5, <2>6 DEF BeginToolCall
<1>7. CASE AfterDecision(t)
  <2> DEFINE c == worker[t].call
  <2>1. c \in Calls \cup {NoCall} /\ UNCHANGED <<toolQueue, pendingToolCalls>>
    BY <1>1, <1>7 DEF AfterDecision, Workers
  <2>2. CASE /\ Emit(t, <<ToolEvent(t, c, "user_deny"), ToolEvent(t, c, "denied")>>)
             /\ worker' = [worker EXCEPT ![t] = At("denying", c, "deny")]
    <3>1. <<ToolEvent(t, c, "user_deny"), ToolEvent(t, c, "denied")>> \in Seq(Event)
      BY <1>2, <2>1 DEF ToolEvents
    <3>2. At("denying", c, "deny") \in Workers
      BY <1>3, <2>1 DEF Verdicts, WorkerStates
    <3>3. log' \in [Sessions -> Seq(Event)]
      BY <2>2, <3>1, EmitType DEF TypeOK
    <3>4. QED  BY <1>5, <2>1, <2>2, <3>2, <3>3
  <2>3. CASE /\ Emit(t, <<ToolEvent(t, c, "user_allow")>>)
             /\ worker' = [worker EXCEPT ![t] = Idle]
    <3>1. <<ToolEvent(t, c, "user_allow")>> \in Seq(Event)
      BY <1>2, <2>1 DEF ToolEvents
    <3>2. log' \in [Sessions -> Seq(Event)]
      BY <2>3, <3>1, EmitType DEF TypeOK
    <3>3. QED  BY <1>1, <1>5, <2>1, <2>3, <3>2
  <2>4. CASE Execute(t, c, "approve", <<ToolEvent(t, c, "user_allow")>>)
    <3>1. "approve" \in Verdicts /\ "user_allow" \in ToolEvents
      BY DEF Verdicts, ToolEvents
    <3>2. log' \in [Sessions -> Seq(Event)] /\ worker' \in [Tasks -> Workers]
      BY <2>1, <2>4, <3>1, ExecuteType
    <3>3. QED  BY <1>5, <2>1, <3>2
  <2>5. QED  BY <1>7, <2>2, <2>3, <2>4 DEF AfterDecision
<1>8. CASE ToolOutput(t)
  <2>1. <<ToolEvent(t, worker[t].call, "output.delta")>> \in Seq(Event)
    BY <1>1, <1>2 DEF ToolEvents, Workers
  <2>2. log' \in [Sessions -> Seq(Event)]
    BY <1>8, <2>1, EmitType DEF ToolOutput, TypeOK
  <2>3. QED  BY <1>5, <1>8, <2>2 DEF ToolOutput, toolVars
<1>9. CASE ToolReturned(t)
  <2>1. <<ToolEvent(t, worker[t].call, "completed")>> \in Seq(Event)
    BY <1>1, <1>2 DEF ToolEvents, Workers
  <2>2. log' \in [Sessions -> Seq(Event)]
    BY <1>9, <2>1, EmitType DEF ToolReturned, TypeOK
  <2>3. worker' \in [Tasks -> Workers]
    BY <1>1, <1>5, <1>9 DEF ToolReturned, Workers, WorkerStates
  <2>4. QED  BY <1>5, <1>9, <2>2, <2>3 DEF ToolReturned
<1>10. CASE ToolCallThrows(t)
  BY <1>1, <1>5, <1>10 DEF ToolCallThrows, Workers, WorkerStates
<1>11. CASE ToolCallDone(t)
  BY <1>1, <1>5, <1>11 DEF ToolCallDone
<1>12. QED  BY <1>6, <1>7, <1>8, <1>9, <1>10, <1>11 DEF ToolStep

\* No step takes a variable out of its type.
LEMMA NextType ==
    ASSUME TypeOK, [Next]_vars
    PROVE  TypeOK'
<1>1. CASE UNCHANGED vars
  BY <1>1 DEF vars, lockVars, stopVars, streamVars, toolVars, gaugeVars,
              TypeOK, LockTypeOK, StreamTypeOK, ToolTypeOK, GaugeTypeOK
<1>2. CASE UserStep
  BY <1>2, UserStepsType
<1>3. ASSUME NEW t \in Tasks, TaskStep(t) \/ ToolStep(t) \/ StopStep(t)
      PROVE  TypeOK'
  BY <1>3, LockStepsType, StreamStepsType, EndStepsType, StopStepsType,
     ToolStepsType DEF TaskStep
<1>4. QED  BY <1>1, <1>2, <1>3 DEF Next

\* Every variable of the engine always has its type.
THEOREM TypeCorrect == Spec => []TypeOK
<1>1. Init => TypeOK
  BY InitType
<1>2. TypeOK /\ [Next]_vars => TypeOK'
  BY NextType
<1>3. QED  BY <1>1, <1>2, PTL DEF Spec

-----------------------------------------------------------------------------
(* The session lock.                                                       *)

\* What the chain of promises maintains.  Tickets number the startTask calls;
\* a queued task waits for the latest task before it, which is unsettled as
\* long as any earlier one is; the map holds the last unsettled task.
TicketsOK ==
    /\ \A t \in Tasks : ticket[t] = 0 <=> phase[t] = "idle"
    /\ \A t \in Tasks : ticket[t] <= Cardinality(Started)
    /\ \A t, u \in Tasks : t # u /\ ticket[t] # 0 => ticket[t] # ticket[u]

ChainOK ==
    \A t, u \in Tasks :
        /\ SameSession(t, u) /\ phase[t] = "queued"
        /\ Unsettled(u) /\ ticket[u] < ticket[t]
        => /\ pred[t] # NoTask
           /\ Unsettled(pred[t])
           /\ SameSession(t, pred[t])
           /\ ticket[u] <= ticket[pred[t]]
           /\ ticket[pred[t]] < ticket[t]

MapOK ==
    /\ \A s \in Sessions :
          sessionLocks[s] # NoTask => /\ SessionOf[sessionLocks[s]] = s
                                      /\ Unsettled(sessionLocks[s])
    /\ \A u \in Tasks :
          Unsettled(u) => /\ sessionLocks[SessionOf[u]] # NoTask
                          /\ ticket[u] <= ticket[sessionLocks[SessionOf[u]]]

LockInv == TicketsOK /\ SessionFifo /\ ChainOK /\ MapOK

\* A step of a task that has its turn: it stays between its start and its
\* settling, and the lock is not touched.
Advance(t) ==
    /\ phase[t] \in {"starting", "streaming", "draining"}
    /\ \E p \in {"streaming", "draining", "settling"} :
          phase' = [phase EXCEPT ![t] = p]
    /\ UNCHANGED <<pred, ticket, sessionLocks>>

\* Every step starts a task, gives one its turn, moves it on, settles it, or
\* leaves the lock alone.
LEMMA LockSteps ==
    ASSUME [Next]_vars
    PROVE  \/ \E t \in Tasks : \/ StartTask(t) \/ RunTask(t) \/ SkipTask(t)
                               \/ Settle(t) \/ Advance(t)
           \/ UNCHANGED <<phase, pred, ticket, sessionLocks>>
<1>1. CASE UserStep \/ UNCHANGED vars
  BY <1>1 DEF UserStep, Approve, Deny, vars, lockVars
<1>2. ASSUME NEW t \in Tasks, ToolStep(t) \/ StopStep(t)
      PROVE  UNCHANGED <<phase, pred, ticket, sessionLocks>>
  BY <1>2 DEF ToolStep, StopStep, BeginToolCall, AfterDecision, ToolOutput,
              ToolReturned, ToolCallThrows, ToolCallDone, Stop, StopReturned,
              StopFailed, lockVars
<1>3. ASSUME NEW t \in Tasks,
             \/ StreamOutput(t) \/ StreamTerminal(t)
             \/ \E c \in Calls : StreamToolRequest(t, c)
      PROVE  UNCHANGED <<phase, pred, ticket, sessionLocks>>
  BY <1>3 DEF StreamOutput, StreamTerminal, StreamToolRequest, lockVars
<1>4. ASSUME NEW t \in Tasks,
             \/ RuntimeStarted(t) \/ RuntimeStartFailed(t) \/ StreamEnded(t)
             \/ StreamFailed(t) \/ Drained(t) \/ DrainRejected(t)
      PROVE  Advance(t)
  BY <1>4 DEF RuntimeStarted, RuntimeStartFailed, StreamEnded, StreamFailed,
              LeaveLoop, Drained, DrainRejected, Advance
<1>5. QED  BY <1>1, <1>2, <1>3, <1>4 DEF Next, TaskStep

\* Initially nothing is queued, locked or numbered.
LEMMA InitLock == ASSUME Init PROVE LockInv
BY StartedFinite DEF Init, LockInv, TicketsOK, SessionFifo, ChainOK, MapOK,
                     Unsettled, Begun

\* startTask: the new task gets the greatest ticket and is the lock's holder.
LEMMA StartKeepsLock ==
    ASSUME LockTypeOK, LockInv, NEW t \in Tasks, StartTask(t)
    PROVE  LockInv'
<1> DEFINE n == Cardinality(Started)
           s == SessionOf[t]
<1>1. /\ phase[t] = "idle" /\ phase' = [phase EXCEPT ![t] = "queued"]
      /\ pred' = [pred EXCEPT ![t] = sessionLocks[s]]
      /\ sessionLocks' = [sessionLocks EXCEPT ![s] = t]
      /\ ticket' = [ticket EXCEPT ![t] = n + 1]
      /\ s \in Sessions /\ n \in Nat
  BY StartedFinite, EngineAssumption DEF StartTask, Started
<1>2. /\ phase'[t] = "queued" /\ ticket'[t] = n + 1 /\ pred'[t] = sessionLocks[s]
      /\ \A u \in Tasks \ {t} : /\ phase'[u] = phase[u]
                                /\ ticket'[u] = ticket[u]
                                /\ pred'[u] = pred[u]
  BY <1>1 DEF LockTypeOK
<1>3. \A u \in Tasks : ticket[u] \in Nat /\ ticket[u] <= n
  BY DEF LockInv, TicketsOK, LockTypeOK
<1>4. Cardinality(Started') = n + 1
  <2>1. Started' = Started \cup {t} /\ t \notin Started
    BY <1>1, <1>2 DEF Started
  <2>2. QED  BY <2>1, StartedFinite, FS_AddElement
<1>5. TicketsOK'
  BY <1>1, <1>2, <1>3, <1>4 DEF LockInv, TicketsOK
<1>6. SessionFifo'
  BY <1>1, <1>2, <1>3 DEF LockInv, TicketsOK, SessionFifo, SameSession, Begun
<1>7. ASSUME NEW u \in Tasks, Unsettled(u)', SessionOf[u] = s, u # t
      PROVE  /\ sessionLocks[s] \in Tasks \ {t}
             /\ Unsettled(sessionLocks[s])
             /\ SessionOf[sessionLocks[s]] = s
             /\ ticket[u] <= ticket[sessionLocks[s]]
  <2>1. Unsettled(u)
    BY <1>2, <1>7 DEF Unsettled
  <2>2. QED
    BY <1>1, <1>7, <2>1 DEF LockInv, MapOK, LockTypeOK, Unsettled
<1>8. ChainOK'
  <2> SUFFICES ASSUME NEW v \in Tasks, NEW u \in Tasks, SameSession(v, u),
                      phase'[v] = "queued", Unsettled(u)',
                      ticket'[u] < ticket'[v]
               PROVE  /\ pred'[v] # NoTask
                      /\ Unsettled(pred[v])'
                      /\ SameSession(v, pred'[v])
                      /\ ticket'[u] <= ticket'[pred'[v]]
                      /\ ticket'[pred'[v]] < ticket'[v]
    BY DEF ChainOK, Unsettled, SameSession
  <2>1. CASE v = t
    <3>1. u # t /\ SessionOf[u] = s
      BY <1>1, <1>2, <2>1 DEF SameSession
    <3>2. /\ sessionLocks[s] \in Tasks \ {t}
          /\ Unsettled(sessionLocks[s])
          /\ SessionOf[sessionLocks[s]] = s
          /\ ticket[u] <= ticket[sessionLocks[s]]
      BY <1>7, <3>1
    <3>3. ticket[sessionLocks[s]] < n + 1
      BY <1>1, <1>3, <3>2
    <3>4. /\ pred'[v] = sessionLocks[s] /\ ticket'[v] = n + 1
          /\ ticket'[u] = ticket[u]
          /\ phase'[sessionLocks[s]] = phase[sessionLocks[s]]
          /\ ticket'[sessionLocks[s]] = ticket[sessionLocks[s]]
      BY <1>2, <2>1, <3>1, <3>2
    <3>5. QED
      BY <2>1, <3>2, <3>3, <3>4, EngineAssumption DEF Unsettled, SameSession
  <2>2. CASE v # t
    <3>1. u # t
      BY <1>1, <1>2, <1>3, <2>2
    <3>2. phase[v] = "queued" /\ Unsettled(u) /\ ticket[u] < ticket[v]
      BY <1>2, <2>2, <3>1 DEF Unsettled
    <3>3. /\ pred[v] # NoTask /\ Unsettled(pred[v])
          /\ SameSession(v, pred[v])
          /\ ticket[u] <= ticket[pred[v]]
          /\ ticket[pred[v]] < ticket[v]
      BY <3>2 DEF LockInv, ChainOK
    <3>4. pred[v] \in Tasks \ {t}
      BY <1>1, <3>3 DEF LockTypeOK, Unsettled
    <3>5. QED  BY <1>2, <2>2, <3>1, <3>3, <3>4 DEF Unsettled
  <2>3. QED  BY <2>1, <2>2
<1>9. MapOK'
  <2>1. ASSUME NEW r \in Sessions, sessionLocks'[r] # NoTask
        PROVE  SessionOf[sessionLocks'[r]] = r /\ Unsettled(sessionLocks[r])'
    <3>1. CASE r = s
      BY <1>1, <1>2, <3>1 DEF LockTypeOK, Unsettled
    <3>2. CASE r # s
      <4>1. sessionLocks'[r] = sessionLocks[r]
        BY <1>1, <3>2 DEF LockTypeOK
      <4>2. /\ sessionLocks[r] \in Tasks /\ Unsettled(sessionLocks[r])
            /\ SessionOf[sessionLocks[r]] = r
        BY <2>1, <4>1 DEF LockInv, MapOK, LockTypeOK
      <4>3. sessionLocks[r] # t
        BY <1>1, <4>2 DEF Unsettled
      <4>4. QED  BY <1>2, <4>1, <4>2, <4>3 DEF Unsettled
    <3>3. QED  BY <3>1, <3>2
  <2>2. ASSUME NEW u \in Tasks, Unsettled(u)'
        PROVE  /\ sessionLocks'[SessionOf[u]] # NoTask
               /\ ticket'[u] <= ticket'[sessionLocks'[SessionOf[u]]]
    <3>1. CASE SessionOf[u] = s
      <4>1. sessionLocks'[SessionOf[u]] = t
        BY <1>1, <3>1 DEF LockTypeOK
      <4>2. ticket'[u] <= n + 1
        BY <1>1, <1>2, <1>3
      <4>3. QED  BY <1>2, <4>1, <4>2, EngineAssumption
    <3>2. CASE SessionOf[u] # s
      <4>1. u # t /\ Unsettled(u) /\ ticket'[u] = ticket[u]
        BY <1>2, <2>2, <3>2 DEF Unsettled
      <4>2. sessionLocks'[SessionOf[u]] = sessionLocks[SessionOf[u]]
        BY <1>1, <3>2, EngineAssumption DEF LockTypeOK
      <4>3. /\ sessionLocks[SessionOf[u]] # NoTask
            /\ ticket[u] <= ticket[sessionLocks[SessionOf[u]]]
            /\ sessionLocks[SessionOf[u]] \in Tasks
            /\ Unsettled(sessionLocks[SessionOf[u]])
        BY <4>1, EngineAssumption DEF LockInv, MapOK, LockTypeOK
      <4>4. sessionLocks[SessionOf[u]] # t
        BY <1>1, <4>3 DEF Unsettled
      <4>5. QED  BY <1>2, <4>1, <4>2, <4>3, <4>4
    <3>3. QED  BY <3>1, <3>2
  <2>3. QED  BY <2>1, <2>2 DEF MapOK, Unsettled
<1>10. QED  BY <1>5, <1>6, <1>8, <1>9 DEF LockInv

\* A task gets its turn only when nothing before it is unsettled.
LEMMA TurnKeepsLock ==
    ASSUME LockTypeOK, LockInv, NEW t \in Tasks,
           RunTask(t) \/ SkipTask(t) \/ Advance(t)
    PROVE  LockInv'
<1>1. /\ UNCHANGED <<pred, ticket, sessionLocks>>
      /\ phase[t] \in {"queued", "starting", "streaming", "draining"}
      /\ phase'[t] \in {"starting", "streaming", "draining", "settling"}
      /\ \A u \in Tasks \ {t} : phase'[u] = phase[u]
  BY DEF RunTask, SkipTask, Advance, LockTypeOK
<1>2. /\ Started' = Started
      /\ \A u \in Tasks : Unsettled(u)' <=> Unsettled(u)
      /\ \A u \in Tasks : (phase'[u] = "queued" => phase[u] = "queued")
      /\ \A u \in Tasks : phase[u] = "settled" => phase'[u] = "settled"
  BY <1>1 DEF Started, Unsettled
<1>3. TicketsOK'
  BY <1>1, <1>2 DEF LockInv, TicketsOK
<1>4. ChainOK'
  BY <1>1, <1>2 DEF LockInv, ChainOK, LockTypeOK, Unsettled
<1>5. MapOK'
  BY <1>1, <1>2 DEF LockInv, MapOK, LockTypeOK, Unsettled
<1>6. ASSUME NEW u \in Tasks, SameSession(t, u), ticket[u] # 0,
             ticket[u] < ticket[t]
      PROVE  phase[u] = "settled"
  <2>1. CASE phase[t] = "queued"
    <3>1. pred[t] = NoTask \/ phase[pred[t]] = "settled"
      BY <2>1 DEF RunTask, SkipTask, Advance, LockFree
    <3>2. ~Unsettled(u)
      BY <1>6, <2>1, <3>1 DEF LockInv, ChainOK, Unsettled
    <3>3. QED  BY <1>6, <3>2 DEF LockInv, TicketsOK, Unsettled
  <2>2. CASE phase[t] # "queued"
    BY <1>1, <1>6, <2>2 DEF LockInv, SessionFifo, Begun
  <2>3. QED  BY <2>1, <2>2
<1>7. SessionFifo'
  BY <1>1, <1>2, <1>6 DEF LockInv, SessionFifo, Begun, SameSession
<1>8. QED  BY <1>3, <1>4, <1>5, <1>7 DEF LockInv

\* .finally: the map entry is deleted only if nothing was chained behind it.
LEMMA SettleKeepsLock ==
    ASSUME LockTypeOK, LockInv, NEW t \in Tasks, Settle(t)
    PROVE  LockInv'
<1>1. /\ UNCHANGED <<pred, ticket>>
      /\ phase[t] = "settling" /\ phase'[t] = "settled"
      /\ \A u \in Tasks \ {t} : phase'[u] = phase[u]
      /\ Unlock(t) /\ SessionOf[t] \in Sessions
  BY EngineAssumption DEF Settle, LockTypeOK
<1>2. Started' = Started
  BY <1>1 DEF Started
<1>3. ASSUME NEW u \in Tasks \ {t}, SameSession(t, u), Unsettled(u)
      PROVE  ticket[t] < ticket[u]
  <2>1. ticket[u] # 0 /\ ticket[t] # 0 /\ ticket[u] # ticket[t]
    BY <1>1, <1>3 DEF LockInv, TicketsOK, Unsettled
  <2>2. ~(ticket[u] < ticket[t])
    BY <1>1, <1>3, <2>1 DEF LockInv, SessionFifo, Begun, Unsettled
  <2>3. QED  BY <2>1, <2>2 DEF LockTypeOK
<1>4. TicketsOK'
  BY <1>1, <1>2 DEF LockInv, TicketsOK
<1>5. SessionFifo'
  BY <1>1 DEF LockInv, SessionFifo, Begun
<1>6. ChainOK'
  <2> SUFFICES ASSUME NEW v \in Tasks, NEW u \in Tasks, SameSession(v, u),
                      phase'[v] = "queued", Unsettled(u)',
                      ticket[u] < ticket[v]
               PROVE  /\ pred[v] # NoTask
                      /\ phase'[pred[v]] \notin {"idle", "settled"}
                      /\ SameSession(v, pred[v])
                      /\ ticket[u] <= ticket[pred[v]]
                      /\ ticket[pred[v]] < ticket[v]
    BY <1>1 DEF ChainOK, Unsettled, SameSession
  <2>1. u # t /\ v # t /\ Unsettled(u) /\ phase[v] = "queued"
    BY <1>1 DEF Unsettled
  <2>2. /\ pred[v] # NoTask /\ Unsettled(pred[v]) /\ SameSession(v, pred[v])
        /\ ticket[u] <= ticket[pred[v]] /\ ticket[pred[v]] < ticket[v]
    BY <2>1 DEF LockInv, ChainOK
  <2>3. pred[v] # t
    <3>1. ASSUME pred[v] = t
          PROVE  FALSE
      <4>1. SameSession(t, u) /\ ticket[u] <= ticket[t]
        BY <2>2, <3>1 DEF SameSession
      <4>2. ticket[t] < ticket[u]
        BY <1>3, <2>1, <4>1
      <4>3. QED  BY <4>1, <4>2 DEF LockTypeOK
    <3>2. QED  BY <3>1
  <2>4. QED  BY <1>1, <2>2, <2>3 DEF Unsettled, LockTypeOK
<1>7. MapOK'
  <2>1. \A u \in Tasks : Unsettled(u)' => Unsettled(u) /\ u # t
    BY <1>1 DEF Unsettled
  <2>2. ASSUME NEW r \in Sessions, sessionLocks'[r] # NoTask
        PROVE  SessionOf[sessionLocks'[r]] = r /\ Unsettled(sessionLocks[r])'
    <3>1. sessionLocks'[r] = sessionLocks[r] /\ sessionLocks[r] \in Tasks
      BY <1>1, <2>2 DEF Unlock, LockTypeOK
    <3>2. SessionOf[sessionLocks[r]] = r /\ Unsettled(sessionLocks[r])
      BY <2>2, <3>1 DEF LockInv, MapOK
    <3>3. sessionLocks[r] # t
      BY <1>1, <2>2, <3>1, <3>2 DEF Unlock, LockTypeOK
    <3>4. QED  BY <1>1, <3>1, <3>2, <3>3 DEF Unsettled
  <2>3. ASSUME NEW u \in Tasks, Unsettled(u)'
        PROVE  /\ sessionLocks'[SessionOf[u]] # NoTask
               /\ ticket[u] <= ticket[sessionLocks'[SessionOf[u]]]
    <3>1. Unsettled(u) /\ u # t /\ SessionOf[u] \in Sessions
      BY <2>1, <2>3, EngineAssumption
    <3>2. /\ sessionLocks[SessionOf[u]] # NoTask
          /\ ticket[u] <= ticket[sessionLocks[SessionOf[u]]]
      BY <3>1 DEF LockInv, MapOK
    <3>3. sessionLocks[SessionOf[u]] # t
      <4>1. ASSUME sessionLocks[SessionOf[u]] = t
            PROVE  FALSE
        <5>1. SessionOf[u] = SessionOf[t] /\ t # NoTask
          BY <3>1, <4>1, EngineAssumption DEF LockInv, MapOK
        <5>2. ticket[t] < ticket[u] /\ ticket[u] <= ticket[t]
          BY <1>3, <3>1, <3>2, <4>1, <5>1 DEF SameSession
        <5>3. QED  BY <5>2 DEF LockTypeOK
      <4>2. QED  BY <4>1
    <3>4. sessionLocks'[SessionOf[u]] = sessionLocks[SessionOf[u]]
      BY <1>1, <3>1, <3>3 DEF Unlock, LockTypeOK
    <3>5. QED  BY <3>2, <3>4
  <2>4. QED  BY <1>1, <2>2, <2>3 DEF MapOK, Unsettled
<1>8. QED  BY <1>4, <1>5, <1>6, <1>7 DEF LockInv

\* Every step keeps the lock's invariant.
LEMMA NextLock ==
    ASSUME TypeOK, LockInv, [Next]_vars
    PROVE  LockInv'
<1>1. LockTypeOK
  BY DEF TypeOK
<1>2. CASE UNCHANGED <<phase, pred, ticket, sessionLocks>>
  BY <1>2 DEF LockInv, TicketsOK, SessionFifo, ChainOK, MapOK, Started,
              Unsettled, Begun
<1>3. QED
  BY <1>1, <1>2, LockSteps, StartKeepsLock, TurnKeepsLock, SettleKeepsLock

\* The lock's invariant holds in every reachable state.
THEOREM LockCorrect == Spec => [](TypeOK /\ LockInv)
<1>1. Init => TypeOK /\ LockInv
  BY InitType, InitLock
<1>2. TypeOK /\ LockInv /\ [Next]_vars => (TypeOK /\ LockInv)'
  BY NextType, NextLock
<1>3. QED  BY <1>1, <1>2, PTL DEF Spec

\* The tasks of a session run in the order of the startTask calls, each after
\* the one before it has settled, however that one ended.
THEOREM SessionsAreFifo == Spec => []SessionFifo
<1>1. LockInv => SessionFifo
  BY DEF LockInv
<1>2. QED  BY <1>1, LockCorrect, PTL

\* Two tasks of one session never run at the same time.
THEOREM SessionsAreExclusive == Spec => []SessionMutex
<1>1. TypeOK /\ LockInv => SessionMutex
  <2> SUFFICES ASSUME TypeOK, LockInv, NEW t \in Tasks, NEW u \in Tasks,
                      t # u, SameSession(t, u), Running(t), Running(u)
               PROVE  FALSE
    BY DEF SessionMutex
  <2>1. /\ ticket[t] # 0 /\ ticket[u] # 0 /\ ticket[t] # ticket[u]
        /\ ticket[t] \in Nat /\ ticket[u] \in Nat
    BY DEF LockInv, TicketsOK, Running, TypeOK, LockTypeOK
  <2>2. CASE ticket[u] < ticket[t]
    BY <2>1, <2>2 DEF LockInv, SessionFifo, Begun, Running
  <2>3. CASE ticket[t] < ticket[u]
    BY <2>1, <2>3 DEF LockInv, SessionFifo, SameSession, Begun, Running
  <2>4. QED  BY <2>1, <2>2, <2>3
<1>2. QED  BY <1>1, LockCorrect, PTL

-----------------------------------------------------------------------------
(* The approvals and the tool worker.                                      *)

\* A handler that asks, asks about a call; calls are queued only while the
\* task is in its loop, except behind a handler that has thrown.
AskingCall ==
    \A t \in Tasks : worker[t].pc = "asking" => worker[t].call \in Calls
QueuedInLoop ==
    \A t \in Tasks :
        toolQueue[t] # << >> =>
            phase[t] \in {"streaming", "draining"} \/ worker[t].pc = "broken"

ToolInv == PendingIffAsking /\ AskingCall /\ NoToolOutlivesTask /\ QueuedInLoop

\* PendingIffAsking, seen from an entry and seen from a handler.
EntryOK(s, id) ==
    LET p == pendingToolCalls[s][id]
    IN  p # NoPending => /\ SessionOf[p.task] = s
                         /\ p.call.id = id
                         /\ worker[p.task] = At("asking", p.call, "ask")
AskerOK(t) ==
    worker[t].pc = "asking" =>
        pendingToolCalls[SessionOf[t]][worker[t].call.id] =
            [task |-> t, call |-> worker[t].call]

\* PendingIffAsking, by entry and by handler.
LEMMA PendingParts ==
    PendingIffAsking <=> /\ \A s \in Sessions, id \in Ids : EntryOK(s, id)
                         /\ \A t \in Tasks : AskerOK(t)
BY DEF PendingIffAsking, EntryOK, AskerOK

\* Every entry belongs to a handler that asks.
LEMMA EntryOwner ==
    ASSUME ToolTypeOK, PendingIffAsking, NEW s \in Sessions, NEW id \in Ids,
           pendingToolCalls[s][id] # NoPending
    PROVE  /\ pendingToolCalls[s][id].task \in Tasks
           /\ SessionOf[pendingToolCalls[s][id].task] = s
           /\ worker[pendingToolCalls[s][id].task].pc = "asking"
<1> DEFINE p == pendingToolCalls[s][id]
<1>1. p.task \in Tasks
  BY DEF ToolTypeOK, PendingEntry
<1>2. SessionOf[p.task] = s /\ worker[p.task] = At("asking", p.call, "ask")
  BY DEF PendingIffAsking
<1>3. At("asking", p.call, "ask").pc = "asking"
  BY DEF At
<1>4. QED  BY <1>1, <1>2, <1>3

\* cancelPendingToolCallsForTask wakes at most the handler of its own task,
\* and only if that handler is waiting for the user.
LEMMA CancelWakes ==
    ASSUME TypeOK, ToolInv, NEW t \in Tasks, CancelPending(t)
    PROVE  /\ PendingIffAsking' /\ AskingCall'
           /\ \/ worker' = worker
              \/ /\ worker[t].pc = "asking"
                 /\ worker' = [worker EXCEPT ![t].pc = "decided",
                                             ![t].verdict = "deny"]
<1> DEFINE s == SessionOf[t]
           own == {id \in Ids : pendingToolCalls[s][id].task = t}
<1>1. /\ s \in Sessions /\ t # NoTask
      /\ worker \in [Tasks -> [pc : WorkerStates, call : Calls \cup {NoCall},
                               verdict : Verdicts]]
      /\ pendingToolCalls \in [Sessions -> [Ids -> PendingEntry]]
  BY EngineAssumption DEF TypeOK, ToolTypeOK
<1>2. /\ \A r \in Sessions, id \in Ids : EntryOK(r, id)
      /\ \A u \in Tasks : AskerOK(u)
  BY PendingParts DEF ToolInv
<1>3. \A u \in Tasks : worker[u].pc = "asking" =>
          worker[u].call \in Calls /\ worker[u].call.id \in Ids
  BY DEF ToolInv, AskingCall, Calls
<1>4. ASSUME NEW r \in Sessions, NEW id \in Ids
      PROVE  pendingToolCalls'[r][id] = IF r = s /\ id \in own THEN NoPending
                                        ELSE pendingToolCalls[r][id]
  BY <1>1, <1>4 DEF CancelPending
<1>5. ASSUME NEW id \in own
      PROVE  /\ worker[t] = At("asking", pendingToolCalls[s][id].call, "ask")
             /\ worker[t].pc = "asking"
  <2>1. EntryOK(s, id) /\ pendingToolCalls[s][id] # NoPending
    BY <1>1, <1>2 DEF NoPending
  <2>2. QED  BY <2>1 DEF EntryOK, At
<1>6. own = {} => worker' = worker
  BY DEF CancelPending
<1>7. own # {} => /\ worker[t].pc = "asking"
                  /\ worker' = [worker EXCEPT ![t].pc = "decided",
                                              ![t].verdict = "deny"]
  BY <1>5 DEF CancelPending
<1>8. \A u \in Tasks \ {t} : worker'[u] = worker[u]
  BY <1>1, <1>6, <1>7
<1>9. worker'[t].pc # "asking"
  <2>1. CASE own = {}
    <3>1. ASSUME worker[t].pc = "asking"
          PROVE  worker[t].call.id \in own
      <4>1. /\ worker[t].call.id \in Ids
            /\ pendingToolCalls[s][worker[t].call.id] =
                   [task |-> t, call |-> worker[t].call]
        BY <1>2, <1>3, <3>1 DEF AskerOK
      <4>2. pendingToolCalls[s][worker[t].call.id].task = t
        BY <4>1
      <4>3. QED  BY <4>1, <4>2
    <3>2. QED  BY <1>6, <2>1, <3>1
  <2>2. CASE own # {}
    BY <1>1, <1>7, <2>2
  <2>3. QED  BY <2>1, <2>2
<1>10. ASSUME NEW r \in Sessions, NEW id \in Ids
       PROVE  EntryOK(r, id)'
  <2> DEFINE p == pendingToolCalls[r][id]
  <2> SUFFICES ASSUME pendingToolCalls'[r][id] # NoPending
               PROVE  /\ SessionOf[p.task] = r /\ p.call.id = id
                      /\ worker'[p.task] = At("asking", p.call, "ask")
    BY <1>4 DEF EntryOK
  <2>1. ~(r = s /\ id \in own) /\ p # NoPending
    BY <1>4
  <2>2. /\ SessionOf[p.task] = r /\ p.call.id = id /\ p.task \in Tasks
        /\ worker[p.task] = At("asking", p.call, "ask")
    BY <1>1, <1>2, <2>1 DEF EntryOK, PendingEntry
  <2>3. p.task # t
    BY <2>1, <2>2
  <2>4. QED  BY <1>8, <2>2, <2>3
<1>11. ASSUME NEW u \in Tasks
       PROVE  AskerOK(u)'
  <2> SUFFICES ASSUME worker'[u].pc = "asking"
               PROVE  pendingToolCalls'[SessionOf[u]][worker'[u].call.id] =
                          [task |-> u, call |-> worker'[u].call]
    BY DEF AskerOK
  <2>1. u # t /\ worker'[u] = worker[u]
    BY <1>8, <1>9
  <2>2. /\ pendingToolCalls[SessionOf[u]][worker[u].call.id] =
             [task |-> u, call |-> worker[u].call]
        /\ worker[u].call.id \in Ids /\ SessionOf[u] \in Sessions
    BY <1>2, <1>3, <2>1, EngineAssumption DEF AskerOK
  <2>3. ~(SessionOf[u] = s /\ worker[u].call.id \in own)
    BY <2>1, <2>2
  <2>4. QED  BY <1>4, <2>1, <2>2, <2>3
<1>12. PendingIffAsking'
  <2>1. \A r \in Sessions, id \in Ids : EntryOK(r, id)'
    BY <1>10
  <2>2. \A u \in Tasks : AskerOK(u)'
    BY <1>11
  <2>3. QED  BY <2>1, <2>2 DEF PendingIffAsking, EntryOK, AskerOK
<1>13. AskingCall'
  BY <1>3, <1>8, <1>9 DEF AskingCall
<1>14. QED  BY <1>6, <1>7, <1>12, <1>13

\* The approvals only see the workers' pc, verdict and call, the entries, and
\* whether a task is in its loop.  A step that leaves them alone keeps the
\* invariant.
LEMMA ToolInvFrame ==
    ASSUME ToolInv, UNCHANGED <<toolQueue, worker, pendingToolCalls>>,
           \A t \in Tasks : phase[t] \in {"streaming", "draining"} =>
               \/ phase'[t] \in {"streaming", "draining"}
               \/ worker[t].pc \in {"idle", "broken"} /\ toolQueue[t] = << >>
               \/ worker[t].pc = "broken"
    PROVE  ToolInv'
BY DEF ToolInv, PendingIffAsking, AskingCall, NoToolOutlivesTask, QueuedInLoop

\* The steps of the tasks.
LEMMA TaskKeepsToolInv ==
    ASSUME TypeOK, ToolInv, NEW t \in Tasks, TaskStep(t)
    PROVE  ToolInv'
<1>1. CASE \/ StartTask(t) \/ RunTask(t) \/ SkipTask(t) \/ Settle(t)
           \/ RuntimeStarted(t) \/ RuntimeStartFailed(t)
  <2>1. UNCHANGED <<toolQueue, worker, pendingToolCalls>>
    BY <1>1 DEF StartTask, RunTask, SkipTask, Settle, RuntimeStarted,
                RuntimeStartFailed, toolVars
  <2>2. \A u \in Tasks : phase[u] \in {"streaming", "draining"} =>
            phase'[u] = phase[u]
    BY <1>1 DEF StartTask, RunTask, SkipTask, Settle, RuntimeStarted,
                RuntimeStartFailed, TypeOK, LockTypeOK
  <2>3. QED  BY <2>1, <2>2, ToolInvFrame
<1>2. CASE StreamOutput(t) \/ StreamTerminal(t)
  <2>1. UNCHANGED <<phase, toolQueue, worker, pendingToolCalls>>
    BY <1>2 DEF StreamOutput, StreamTerminal, lockVars, toolVars
  <2>2. QED  BY <2>1, ToolInvFrame
<1>3. ASSUME NEW c \in Calls, StreamToolRequest(t, c)
      PROVE  ToolInv'
  <2>1. /\ UNCHANGED <<phase, worker, pendingToolCalls>>
        /\ phase[t] = "streaming"
        /\ \A u \in Tasks \ {t} : toolQueue'[u] = toolQueue[u]
    BY <1>3 DEF StreamToolRequest, Opened, lockVars, TypeOK, ToolTypeOK
  <2>2. QueuedInLoop'
    BY <2>1 DEF ToolInv, QueuedInLoop
  <2>3. QED
    BY <2>1, <2>2 DEF ToolInv, PendingIffAsking, AskingCall, NoToolOutlivesTask
<1>4. CASE StreamEnded(t) \/ StreamFailed(t)
  <2>1. LeaveLoop(t) /\ phase[t] = "streaming"
    BY <1>4 DEF StreamEnded, StreamFailed
  <2>2. /\ PendingIffAsking' /\ AskingCall'
        /\ \/ worker' = worker
           \/ /\ worker[t].pc = "asking"
              /\ worker' = [worker EXCEPT ![t].pc = "decided",
                                          ![t].verdict = "deny"]
    BY <2>1, CancelWakes DEF LeaveLoop
  <2>3. /\ \A u \in Tasks : phase[u] \in {"streaming", "draining"} =>
               phase'[u] \in {"streaming", "draining"}
        /\ toolQueue' = toolQueue
    BY <2>1 DEF LeaveLoop, TypeOK, LockTypeOK
  <2>4. \A u \in Tasks : /\ worker[u].pc = "broken" => worker'[u].pc = "broken"
                         /\ worker[u].pc \in {"idle", "broken"} =>
                                worker'[u].pc = worker[u].pc
    BY <2>2 DEF TypeOK, ToolTypeOK
  <2>5. NoToolOutlivesTask' /\ QueuedInLoop'
    BY <2>3, <2>4 DEF ToolInv, NoToolOutlivesTask, QueuedInLoop
  <2>6. QED  BY <2>2, <2>5 DEF ToolInv
<1>5. CASE Drained(t) \/ DrainRejected(t)
  <2>1. /\ UNCHANGED <<toolQueue, worker, pendingToolCalls>>
        /\ \A u \in Tasks \ {t} : phase'[u] = phase[u]
        /\ \/ worker[t].pc = "idle" /\ toolQueue[t] = << >>
           \/ worker[t].pc = "broken"
    BY <1>5 DEF Drained, DrainRejected, ToolsDone, toolVars, TypeOK, LockTypeOK
  <2>2. QED  BY <2>1, ToolInvFrame
<1>6. QED  BY <1>1, <1>2, <1>3, <1>4, <1>5 DEF TaskStep

\* stop(): the pending approvals of its task are denied.
LEMMA StopKeepsToolInv ==
    ASSUME TypeOK, ToolInv, NEW t \in Tasks, StopStep(t)
    PROVE  ToolInv'
<1>1. CASE Stop(t)
  <2>1. CancelPending(t) /\ UNCHANGED <<phase, toolQueue>>
    BY <1>1 DEF Stop, lockVars
  <2>2. /\ PendingIffAsking' /\ AskingCall'
        /\ \/ worker' = worker
           \/ /\ worker[t].pc = "asking"
              /\ worker' = [worker EXCEPT ![t].pc = "decided",
                                          ![t].verdict = "deny"]
    BY <2>1, CancelWakes
  <2>3. \A u \in Tasks : worker[u].pc \in {"idle", "broken"} =>
                             worker'[u].pc = worker[u].pc
    BY <2>2 DEF TypeOK, ToolTypeOK
  <2>4. NoToolOutlivesTask' /\ QueuedInLoop'
    BY <2>1, <2>3 DEF ToolInv, NoToolOutlivesTask, QueuedInLoop
  <2>5. QED  BY <2>2, <2>4 DEF ToolInv
<1>2. CASE StopReturned(t) \/ StopFailed(t)
  <2>1. UNCHANGED <<phase, toolQueue, worker, pendingToolCalls>>
    BY <1>2 DEF StopReturned, StopFailed, lockVars, toolVars
  <2>2. QED  BY <2>1, ToolInvFrame
<1>3. QED  BY <1>1, <1>2 DEF StopStep

\* The user's answer takes the entry and wakes the handler that waits for it.
LEMMA UserKeepsToolInv ==
    ASSUME TypeOK, ToolInv, UserStep
    PROVE  ToolInv'
<1>1. PICK s \in Sessions, c \in Calls : Approve(s, c) \/ Deny(s, c)
  BY DEF UserStep
<1> DEFINE p == pendingToolCalls[s][c.id]
           t == p.task
<1>2. /\ worker \in [Tasks -> [pc : WorkerStates, call : Calls \cup {NoCall},
                               verdict : Verdicts]]
      /\ pendingToolCalls \in [Sessions -> [Ids -> PendingEntry]]
  BY DEF TypeOK, ToolTypeOK
<1>3. c.id \in Ids /\ p # NoPending /\ t \in Tasks
  BY <1>1, <1>2 DEF Approve, Deny, Matches, IsPending, Calls, PendingEntry
<1>4. /\ \A r \in Sessions, id \in Ids : EntryOK(r, id)
      /\ \A u \in Tasks : AskerOK(u)
  BY PendingParts DEF ToolInv
<1>5. /\ SessionOf[t] = s /\ p.call.id = c.id
      /\ worker[t] = At("asking", p.call, "ask") /\ worker[t].pc = "asking"
  BY <1>3, <1>4 DEF EntryOK, At
<1>6. PICK verdict \in Verdicts :
        /\ pendingToolCalls' = [pendingToolCalls EXCEPT ![s][c.id] = NoPending]
        /\ worker' = [worker EXCEPT ![t] = At("decided", p.call, verdict)]
  BY <1>1 DEF Approve, Deny, Resolve, Verdicts
<1>7. UNCHANGED <<phase, toolQueue>>
  BY <1>1 DEF Approve, Deny, lockVars
<1>8. /\ worker'[t].pc = "decided"
      /\ \A u \in Tasks \ {t} : worker'[u] = worker[u]
  BY <1>2, <1>3, <1>6 DEF At
<1>9. ASSUME NEW r \in Sessions, NEW id \in Ids
      PROVE  pendingToolCalls'[r][id] = IF r = s /\ id = c.id THEN NoPending
                                        ELSE pendingToolCalls[r][id]
  BY <1>2, <1>3, <1>6, <1>9
<1>10. ASSUME NEW r \in Sessions, NEW id \in Ids
       PROVE  EntryOK(r, id)'
  <2> DEFINE q == pendingToolCalls[r][id]
  <2> SUFFICES ASSUME pendingToolCalls'[r][id] # NoPending
               PROVE  /\ SessionOf[q.task] = r /\ q.call.id = id
                      /\ worker'[q.task] = At("asking", q.call, "ask")
    BY <1>9 DEF EntryOK
  <2>1. ~(r = s /\ id = c.id) /\ q # NoPending
    BY <1>9
  <2>2. /\ SessionOf[q.task] = r /\ q.call.id = id /\ q.task \in Tasks
        /\ worker[q.task] = At("asking", q.call, "ask")
    BY <1>2, <1>4, <2>1 DEF EntryOK, PendingEntry
  <2>3. q.task # t
    <3>1. ASSUME q.task = t
          PROVE  FALSE
      <4>1. q.call = p.call /\ r = s
        BY <1>5, <2>2, <3>1 DEF At
      <4>2. QED  BY <1>5, <2>1, <2>2, <4>1
    <3>2. QED  BY <3>1
  <2>4. QED  BY <1>8, <2>2, <2>3
<1>11. ASSUME NEW u \in Tasks
       PROVE  AskerOK(u)'
  <2> SUFFICES ASSUME worker'[u].pc = "asking"
               PROVE  pendingToolCalls'[SessionOf[u]][worker'[u].call.id] =
                          [task |-> u, call |-> worker'[u].call]
    BY DEF AskerOK
  <2>1. u # t /\ worker'[u] = worker[u]
    BY <1>8
  <2>2. /\ pendingToolCalls[SessionOf[u]][worker[u].call.id] =
             [task |-> u, call |-> worker[u].call]
        /\ worker[u].call.id \in Ids /\ SessionOf[u] \in Sessions
    BY <1>4, <2>1, EngineAssumption DEF AskerOK, ToolInv, AskingCall, Calls
  <2>3. ~(SessionOf[u] = s /\ worker[u].call.id = c.id)
    BY <2>1, <2>2
  <2>4. QED  BY <1>9, <2>1, <2>2, <2>3
<1>12. PendingIffAsking'
  <2>1. \A r \in Sessions, id \in Ids : EntryOK(r, id)'
    BY <1>10
  <2>2. \A u \in Tasks : AskerOK(u)'
    BY <1>11
  <2>3. QED  BY <2>1, <2>2 DEF PendingIffAsking, EntryOK, AskerOK
<1>13. AskingCall' /\ NoToolOutlivesTask' /\ QueuedInLoop'
  BY <1>5, <1>7, <1>8 DEF ToolInv, AskingCall, NoToolOutlivesTask, QueuedInLoop
<1>14. QED  BY <1>12, <1>13 DEF ToolInv

\* A handler that neither asks nor starts to ask has no entry.
LEMMA OtherStates ==
    ASSUME ToolTypeOK, PendingIffAsking, AskingCall, NEW t \in Tasks,
           worker[t].pc # "asking", worker'[t].pc # "asking",
           \A u \in Tasks \ {t} : worker'[u] = worker[u],
           UNCHANGED pendingToolCalls
    PROVE  PendingIffAsking' /\ AskingCall'
<1>1. ASSUME NEW s \in Sessions, NEW id \in Ids,
             pendingToolCalls[s][id] # NoPending
      PROVE  /\ pendingToolCalls[s][id].task # t
             /\ pendingToolCalls[s][id].task \in Tasks
  BY <1>1, EntryOwner
<1>2. QED  BY <1>1 DEF PendingIffAsking, AskingCall

\* The steps of the handlers.
LEMMA ToolKeepsToolInv ==
    ASSUME TypeOK, ToolInv, NEW t \in Tasks, ToolStep(t)
    PROVE  ToolInv'
<1>1. /\ worker \in [Tasks -> [pc : WorkerStates, call : Calls \cup {NoCall},
                               verdict : Verdicts]]
      /\ pendingToolCalls \in [Sessions -> [Ids -> PendingEntry]]
      /\ toolQueue \in [Tasks -> Seq(Calls)]
  BY DEF TypeOK, ToolTypeOK
<1>2. phase' = phase
  BY DEF ToolStep, BeginToolCall, AfterDecision, ToolOutput, ToolReturned,
         ToolCallThrows, ToolCallDone, lockVars
<1>3. CASE BeginToolCall(t)
  <2> DEFINE c == Head(toolQueue[t])
             s == SessionOf[t]
  <2>1. /\ worker[t].pc = "idle" /\ toolQueue[t] # << >>
        /\ phase[t] \in {"streaming", "draining"}
        /\ c \in Calls /\ c.id \in Ids /\ s \in Sessions
    <3>1. worker[t].pc = "idle" /\ toolQueue[t] # << >>
      BY <1>3 DEF BeginToolCall
    <3>2. phase[t] \in {"streaming", "draining"}
      BY <3>1 DEF ToolInv, QueuedInLoop
    <3>3. toolQueue[t] \in Seq(Calls)
      BY <1>1
    <3>4. Head(toolQueue[t]) \in Calls
      BY <3>1, <3>3
    <3>5. QED  BY <3>1, <3>2, <3>4, EngineAssumption DEF Calls
  <2>2. \A u \in Tasks \ {t} : worker'[u] = worker[u] /\ toolQueue'[u] = toolQueue[u]
    BY <1>1, <1>3 DEF BeginToolCall, Execute
  <2>3. NoToolOutlivesTask' /\ QueuedInLoop'
    BY <1>2, <2>1, <2>2 DEF ToolInv, NoToolOutlivesTask, QueuedInLoop
  <2>4. CASE /\ ~IsPending(s, c.id)
             /\ worker' = [worker EXCEPT ![t] = At("asking", c, "ask")]
             /\ pendingToolCalls' = [pendingToolCalls EXCEPT
                    ![s][c.id] = [task |-> t, call |-> c]]
    <3>1. worker'[t] = At("asking", c, "ask")
      BY <1>1, <2>4
    <3>2. ASSUME NEW r \in Sessions, NEW id \in Ids
          PROVE  pendingToolCalls'[r][id] =
                     IF r = s /\ id = c.id THEN [task |-> t, call |-> c]
                     ELSE pendingToolCalls[r][id]
      BY <1>1, <2>1, <2>4, <3>2
    <3>3. /\ \A r \in Sessions, id \in Ids : EntryOK(r, id)
          /\ \A u \in Tasks : AskerOK(u)
      BY PendingParts DEF ToolInv
    <3>4. ASSUME NEW r \in Sessions, NEW id \in Ids
          PROVE  EntryOK(r, id)'
      <4>1. CASE r = s /\ id = c.id
        BY <3>1, <3>2, <4>1 DEF EntryOK
      <4>2. CASE ~(r = s /\ id = c.id)
        <5>1. pendingToolCalls'[r][id] = pendingToolCalls[r][id]
          BY <3>2, <4>2
        <5>2. pendingToolCalls[r][id] # NoPending =>
                /\ pendingToolCalls[r][id].task \in Tasks
                /\ pendingToolCalls[r][id].task # t
          BY <2>1, EntryOwner DEF ToolInv, TypeOK
        <5>3. QED  BY <2>2, <3>3, <5>1, <5>2 DEF EntryOK
      <4>3. QED  BY <4>1, <4>2
    <3>5. ASSUME NEW u \in Tasks
          PROVE  AskerOK(u)'
      <4>1. CASE u = t
        BY <2>1, <3>1, <3>2, <4>1 DEF AskerOK, At
      <4>2. CASE u # t
        <5> SUFFICES ASSUME worker[u].pc = "asking"
                     PROVE  pendingToolCalls'[SessionOf[u]][worker[u].call.id] =
                                [task |-> u, call |-> worker[u].call]
          BY <2>2, <4>2 DEF AskerOK
        <5>1. /\ pendingToolCalls[SessionOf[u]][worker[u].call.id] =
                   [task |-> u, call |-> worker[u].call]
              /\ worker[u].call.id \in Ids /\ SessionOf[u] \in Sessions
          BY <3>3, EngineAssumption DEF AskerOK, ToolInv, AskingCall, Calls
        <5>2. [task |-> u, call |-> worker[u].call] # NoPending
          BY EngineAssumption DEF NoPending
        <5>3. ~(SessionOf[u] = s /\ worker[u].call.id = c.id)
          BY <2>4, <5>1, <5>2 DEF IsPending
        <5>4. QED  BY <3>2, <5>1, <5>3
      <4>3. QED  BY <4>1, <4>2
    <3>6. PendingIffAsking'
      <4>1. \A r \in Sessions, id \in Ids : EntryOK(r, id)'
        BY <3>4
      <4>2. \A u \in Tasks : AskerOK(u)'
        BY <3>5
      <4>3. QED  BY <4>1, <4>2 DEF PendingIffAsking, EntryOK, AskerOK
    <3>7. AskingCall'
      BY <2>1, <2>2, <3>1 DEF ToolInv, AskingCall, At
    <3>8. QED  BY <2>3, <3>6, <3>7 DEF ToolInv
  <2>5. CASE /\ UNCHANGED pendingToolCalls
             /\ \/ UNCHANGED worker
                \/ worker' = [worker EXCEPT ![t] = At("denying", c, "deny")]
                \/ worker' = [worker EXCEPT ![t] = At("broken", c, "ask")]
                \/ worker' = [worker EXCEPT ![t] = At("executing", c, "allow")]
    <3>1. worker'[t].pc # "asking"
      BY <1>1, <2>1, <2>5 DEF At
    <3>2. PendingIffAsking' /\ AskingCall'
      BY <2>1, <2>2, <2>5, <3>1, OtherStates DEF ToolInv, TypeOK
    <3>3. QED  BY <2>3, <3>2 DEF ToolInv
  <2>6. QED  BY <1>3, <2>4, <2>5 DEF BeginToolCall, Execute
<1>4. CASE /\ AfterDecision(t) \/ ToolOutput(t) \/ ToolReturned(t)
              \/ ToolCallThrows(t) \/ ToolCallDone(t)
  <2>1. /\ UNCHANGED <<toolQueue, pendingToolCalls>>
        /\ \A u \in Tasks \ {t} : worker'[u] = worker[u]
        /\ worker[t].pc \in {"decided", "executing", "reporting", "denying"}
        /\ worker'[t].pc # "asking"
    BY <1>1, <1>4 DEF AfterDecision, Execute, ToolOutput, ToolReturned,
       ToolCallThrows, ToolCallDone, toolVars, At, Idle
  <2>2. PendingIffAsking' /\ AskingCall'
    BY <2>1, OtherStates DEF ToolInv, TypeOK
  <2>3. NoToolOutlivesTask' /\ QueuedInLoop'
    BY <1>2, <2>1 DEF ToolInv, NoToolOutlivesTask, QueuedInLoop
  <2>4. QED  BY <2>2, <2>3 DEF ToolInv
<1>5. QED  BY <1>3, <1>4 DEF ToolStep

\* Initially nobody asks, nothing is queued and nothing is pending.
LEMMA InitToolInv == ASSUME Init PROVE ToolInv
BY DEF Init, ToolInv, PendingIffAsking, AskingCall, NoToolOutlivesTask,
       QueuedInLoop, Idle

\* Every step keeps the invariant of the approvals.
LEMMA NextToolInv ==
    ASSUME TypeOK, ToolInv, [Next]_vars
    PROVE  ToolInv'
<1>1. CASE UNCHANGED vars
  BY <1>1, ToolInvFrame DEF vars, lockVars, toolVars
<1>2. QED
  BY <1>1, TaskKeepsToolInv, StopKeepsToolInv, UserKeepsToolInv,
     ToolKeepsToolInv DEF Next

\* The invariant of the approvals holds in every reachable state.
THEOREM ToolsCorrect == Spec => [](TypeOK /\ ToolInv)
<1>1. Init => TypeOK /\ ToolInv
  BY InitType, InitToolInv
<1>2. TypeOK /\ ToolInv /\ [Next]_vars => (TypeOK /\ ToolInv)'
  BY NextType, NextToolInv
<1>3. QED  BY <1>1, <1>2, PTL DEF Spec

\* A pending approval always has a handler that waits for it, and a handler
\* that waits always has its entry: no answer is lost, no wait is for nothing.
THEOREM ApprovalsMatchWaiters == Spec => []PendingIffAsking
<1>1. ToolInv => PendingIffAsking
  BY DEF ToolInv
<1>2. QED  BY <1>1, ToolsCorrect, PTL

\* No tool call is in progress for a task that has left runTask.
THEOREM ToolsEndWithTask == Spec => []NoToolOutlivesTask
<1>1. ToolInv => NoToolOutlivesTask
  BY DEF ToolInv
<1>2. QED  BY <1>1, ToolsCorrect, PTL

\* Together with the session lock: a handler that is about to ask finds no
\* entry of anyone under its session, whatever ids the runtimes choose.
THEOREM AsksNeverCollide == Spec => []AskNeverCollides
<1>1. TypeOK /\ ToolInv /\ SessionMutex => AskNeverCollides
  <2> SUFFICES ASSUME TypeOK, ToolInv, SessionMutex, NEW t \in Tasks,
                      Running(t), worker[t].pc = "idle", NEW id \in Ids,
                      pendingToolCalls[SessionOf[t]][id] # NoPending
               PROVE  FALSE
    BY DEF AskNeverCollides, IsPending
  <2> DEFINE p == pendingToolCalls[SessionOf[t]][id]
  <2>1. SessionOf[t] \in Sessions
    BY EngineAssumption
  <2>2. /\ p.task \in Tasks /\ SessionOf[p.task] = SessionOf[t]
        /\ worker[p.task].pc = "asking"
    BY <2>1, EntryOwner DEF ToolInv, TypeOK
  <2>3. Running(p.task)
    BY <2>2 DEF ToolInv, NoToolOutlivesTask, Running
  <2>4. QED  BY <2>2, <2>3 DEF SessionMutex, SameSession
<1>2. QED  BY <1>1, ToolsCorrect, SessionsAreExclusive, PTL

\* A tool execution of a task that is being stopped does not begin.
NoneBegins ==
    \A t \in Tasks : stopRequested[t] /\ worker'[t].pc = "executing"
                         => worker[t].pc = "executing"

\* Wherever stop() comes in between, a request, an approval or a queued call
\* of the task is not executed after it.
THEOREM NothingRunsAfterStop == Spec => NoExecutionAfterStop
<1>1. ASSUME TypeOK, Next
      PROVE  NoneBegins
  <2> SUFFICES ASSUME NEW t \in Tasks, stopRequested[t],
                      worker'[t].pc = "executing", worker[t].pc # "executing"
               PROVE  FALSE
    BY DEF NoneBegins
  <2>1. worker \in [Tasks -> [pc : WorkerStates, call : Calls \cup {NoCall},
                              verdict : Verdicts]]
    BY <1>1 DEF TypeOK, ToolTypeOK
  <2>2. ~UserStep
    <3>1. ASSUME NEW s \in Sessions, NEW c \in Calls, Approve(s, c) \/ Deny(s, c)
          PROVE  FALSE
      <4> DEFINE p == pendingToolCalls[s][c.id]
      <4>1. PICK v \in Verdicts :
              worker' = [worker EXCEPT ![p.task] = At("decided", p.call, v)]
        BY <3>1 DEF Approve, Deny, Resolve, Verdicts
      <4>2. worker'[t] = worker[t] \/ worker'[t] = At("decided", p.call, v)
        BY <2>1, <4>1
      <4>3. At("decided", p.call, v).pc # "executing"
        BY DEF At
      <4>4. QED  BY <4>2, <4>3
    <3>2. QED  BY <3>1 DEF UserStep
  <2>3. ASSUME NEW u \in Tasks, CancelPending(u)
        PROVE  FALSE
    BY <2>1, <2>3 DEF CancelPending
  <2>4. ASSUME NEW u \in Tasks, TaskStep(u) \/ StopStep(u)
        PROVE  FALSE
    BY <2>3, <2>4 DEF TaskStep, StartTask, RunTask, SkipTask, Settle,
       RuntimeStarted, RuntimeStartFailed, StreamOutput, StreamTerminal,
       StreamEnded, StreamFailed, LeaveLoop, StreamToolRequest, Drained,
       DrainRejected, StopStep, Stop, StopReturned, StopFailed, toolVars
  <2>5. ASSUME NEW u \in Tasks, ToolStep(u)
        PROVE  FALSE
    <3>1. CASE BeginToolCall(u)
      BY <2>1, <3>1 DEF BeginToolCall, Execute, At
    <3>2. CASE AfterDecision(u)
      BY <2>1, <3>2 DEF AfterDecision, Execute, MayExecute, At, Idle
    <3>3. CASE \/ ToolOutput(u) \/ ToolReturned(u) \/ ToolCallThrows(u)
               \/ ToolCallDone(u)
      BY <2>1, <3>3 DEF ToolOutput, ToolReturned, ToolCallThrows,
         ToolCallDone, toolVars, Idle
    <3>4. QED  BY <2>5, <3>1, <3>2, <3>3 DEF ToolStep
  <2>6. QED  BY <1>1, <2>2, <2>4, <2>5 DEF Next
<1>2. TypeOK /\ [Next]_vars => [NoneBegins]_vars
  BY <1>1
<1>3. QED  BY <1>2, TypeCorrect, PTL DEF Spec, NoExecutionAfterStop, NoneBegins
=============================================================================
