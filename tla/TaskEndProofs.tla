---------------------------- MODULE TaskEndProofs ----------------------------
(***************************************************************************)
(* The end of a task: the gauges say what is going on (GaugesExact), and a *)
(* task that nobody stopped has one terminal event at most, which the      *)
(* metrics agree with (TerminalOnceUnlessStopped), and exactly one if      *)
(* nothing disturbed it, for any number of sessions and tasks.             *)
(***************************************************************************)
EXTENDS ToolCallProofs

-----------------------------------------------------------------------------
(* The gauges.                                                             *)

Open == {t \in Tasks : Unsettled(t)}
InLoop(t) == phase[t] \in {"streaming", "draining"}
Broken(t) == worker[t].pc = "broken"

\* A task has a start time while it is in its loop, and for ever if it left
\* the loop because a handler had thrown.
StartTimesOK ==
    \A t \in Tasks :
        /\ InLoop(t) => t \in taskStartTimes
        /\ t \in taskStartTimes =>
               InLoop(t) \/ (Broken(t) /\ phase[t] \in {"settling", "settled"})

ActiveSessionsOK ==
    (\A t \in Tasks : ~Broken(t)) =>
        activeSessions = {SessionOf[t] : t \in taskStartTimes}

GaugeInv ==
    /\ pendingTasks = Cardinality(Open)
    /\ activeTasks = Cardinality(taskStartTimes)
    /\ StartTimesOK
    /\ ActiveSessionsOK

\* A handler that has thrown stays thrown.
LEMMA BrokenStays ==
    ASSUME TypeOK, ToolInv, [Next]_vars, NEW t \in Tasks, Broken(t)
    PROVE  Broken(t)'
<1>1. worker \in [Tasks -> Workers]
  BY DEF TypeOK, ToolTypeOK, Workers
<1>2. CASE UNCHANGED worker
  BY <1>2 DEF Broken
<1>3. CASE UserStep
  <2>1. PICK s \in Sessions, c \in Calls : Approve(s, c) \/ Deny(s, c)
    BY <1>3 DEF UserStep
  <2> DEFINE p == pendingToolCalls[s][c.id]
  <2>2. c.id \in Ids /\ p # NoPending
    BY <2>1 DEF Approve, Deny, Matches, IsPending, Calls
  <2>3. p.task \in Tasks /\ worker[p.task].pc = "asking"
    BY <2>2, EntryOwner DEF TypeOK, ToolInv
  <2>4. \E v \in Verdicts : worker' = [worker EXCEPT ![p.task] = At("decided", p.call, v)]
    BY <2>1 DEF Approve, Deny, Resolve, Verdicts
  <2>5. p.task # t
    BY <2>3 DEF Broken
  <2>6. QED  BY <1>1, <2>4, <2>5 DEF Broken
<1>4. ASSUME NEW u \in Tasks, ToolStep(u)
      PROVE  Broken(t)'
  <2>1. CASE BeginToolCall(u)
    BY <1>1, <2>1 DEF BeginToolCall, Execute, Broken
  <2>2. CASE AfterDecision(u)
    BY <1>1, <2>2 DEF AfterDecision, Execute, Broken
  <2>3. CASE ToolOutput(u)
    BY <1>2, <2>3 DEF ToolOutput, toolVars
  <2>4. CASE ToolReturned(u) \/ ToolCallThrows(u) \/ ToolCallDone(u)
    BY <1>1, <2>4 DEF ToolReturned, ToolCallThrows, ToolCallDone, Workers, Broken
  <2>5. QED  BY <1>4, <2>1, <2>2, <2>3, <2>4 DEF ToolStep
<1>5. ASSUME NEW u \in Tasks, CancelPending(u)
      PROVE  Broken(t)'
  BY <1>1, <1>2, <1>5, CancelWakes DEF Workers, Broken
<1>6. ASSUME NEW u \in Tasks, TaskStep(u) \/ StopStep(u)
      PROVE  Broken(t)'
  <2>1. CASE StreamEnded(u) \/ StreamFailed(u) \/ Stop(u)
    BY <1>5, <2>1 DEF StreamEnded, StreamFailed, LeaveLoop, Stop
  <2>2. CASE ~(StreamEnded(u) \/ StreamFailed(u) \/ Stop(u))
    <3>1. UNCHANGED worker
      BY <1>6, <2>2 DEF TaskStep, StopStep, StartTask, RunTask, SkipTask, Settle,
         RuntimeStarted, RuntimeStartFailed, StreamOutput, StreamTerminal,
         StreamToolRequest, Drained, DrainRejected, StopReturned, StopFailed, toolVars
    <3>2. QED  BY <1>2, <3>1
  <2>3. QED  BY <2>1, <2>2
<1>7. QED  BY <1>2, <1>3, <1>4, <1>6 DEF Next, vars, toolVars

\* The steps that change a gauge, and what the others do to the phases.
GaugeStep(t) ==
    \/ StartTask(t) \/ Settle(t) \/ RuntimeStarted(t) \/ RuntimeStartFailed(t)
    \/ Drained(t) \/ DrainRejected(t)

SamePlace(t) ==
    /\ Unsettled(t)' <=> Unsettled(t)
    /\ InLoop(t)' <=> InLoop(t)
    /\ phase[t] \in {"settling", "settled"} => phase'[t] \in {"settling", "settled"}

Gauges == <<pendingTasks, activeTasks, activeSessions, taskStartTimes>>

\* Every step is a gauge step of one task, or leaves the gauges and all tasks' places.
LEMMA GaugeSteps ==
    ASSUME TypeOK, [Next]_vars
    PROVE  \/ \E t \in Tasks : GaugeStep(t)
           \/ UNCHANGED Gauges /\ \A t \in Tasks : SamePlace(t)
<1>1. phase \in [Tasks -> Phases]
  BY DEF TypeOK, LockTypeOK
<1>2. CASE UNCHANGED <<phase, gaugeVars>>
  BY <1>2 DEF SamePlace, Unsettled, InLoop, Gauges, gaugeVars
<1>3. CASE UserStep \/ UNCHANGED vars
  BY <1>2, <1>3 DEF UserStep, Approve, Deny, vars, lockVars
<1>4. ASSUME NEW t \in Tasks, ToolStep(t) \/ Stop(t) \/ StopFailed(t)
      PROVE  UNCHANGED <<phase, gaugeVars>>
  BY <1>4 DEF ToolStep, BeginToolCall, AfterDecision, ToolOutput, ToolReturned,
              ToolCallThrows, ToolCallDone, Stop, StopFailed, lockVars
<1>5. ASSUME NEW t \in Tasks, StopReturned(t) \/ StreamOutput(t) \/ StreamTerminal(t)
                              \/ \E c \in Calls : StreamToolRequest(t, c)
      PROVE  UNCHANGED <<phase, Gauges>>
  BY <1>5 DEF StopReturned, StreamOutput, StreamTerminal, StreamToolRequest,
              lockVars, gaugeVars, Gauges
<1>6. CASE UNCHANGED <<phase, Gauges>>
  BY <1>6 DEF SamePlace, Unsettled, InLoop, Gauges
<1>7. ASSUME NEW t \in Tasks, RunTask(t) \/ SkipTask(t) \/ StreamEnded(t) \/ StreamFailed(t)
      PROVE  UNCHANGED Gauges /\ \A u \in Tasks : SamePlace(u)
  <2>1. UNCHANGED Gauges
    BY <1>7 DEF RunTask, SkipTask, StreamEnded, StreamFailed, LeaveLoop, Gauges, gaugeVars
  <2>2. /\ \/ phase[t] = "queued" /\ phase'[t] \in {"starting", "settling"}
           \/ phase[t] = "streaming" /\ phase'[t] = "draining"
        /\ \A u \in Tasks \ {t} : phase'[u] = phase[u]
    BY <1>1, <1>7 DEF RunTask, SkipTask, StreamEnded, StreamFailed, LeaveLoop
  <2>3. QED  BY <2>1, <2>2 DEF SamePlace, Unsettled, InLoop
<1>8. QED
  BY <1>2, <1>3, <1>4, <1>5, <1>6, <1>7
     DEF Next, TaskStep, StopStep, GaugeStep

\* The tasks that are not settled can be counted.
LEMMA OpenFinite == IsFiniteSet(Open) /\ Cardinality(Open) \in Nat
<1>1. Open \subseteq Tasks
  BY DEF Open
<1>2. QED  BY <1>1, EngineAssumption, FS_Subset, FS_CardinalityType

\* And so can the start times.
LEMMA StartTimesFinite ==
    ASSUME GaugeTypeOK
    PROVE  IsFiniteSet(taskStartTimes) /\ Cardinality(taskStartTimes) \in Nat
<1>1. taskStartTimes \subseteq Tasks
  BY DEF GaugeTypeOK
<1>2. QED  BY <1>1, EngineAssumption, FS_Subset, FS_CardinalityType

\* Two tasks of a session are not in their loops together.
LEMMA LoopMutex ==
    ASSUME TypeOK, LockInv, NEW t \in Tasks, NEW u \in Tasks, t # u,
           SameSession(t, u), Running(t), Running(u)
    PROVE  FALSE
<1>1. /\ ticket[t] # 0 /\ ticket[u] # 0 /\ ticket[t] # ticket[u]
      /\ ticket[t] \in Nat /\ ticket[u] \in Nat
  BY DEF LockInv, TicketsOK, Running, TypeOK, LockTypeOK
<1>2. CASE ticket[u] < ticket[t]
  BY <1>1, <1>2 DEF LockInv, SessionFifo, Begun, Running
<1>3. CASE ticket[t] < ticket[u]
  BY <1>1, <1>3 DEF LockInv, SessionFifo, SameSession, Begun, Running
<1>4. QED  BY <1>1, <1>2, <1>3

\* How a step of t that counts moves it.
LEMMA GaugeMoves ==
    ASSUME TypeOK, NEW t \in Tasks, GaugeStep(t)
    PROVE  /\ worker' = worker
           /\ \A u \in Tasks \ {t} : phase'[u] = phase[u]
           /\ StartTask(t) => phase[t] = "idle" /\ phase'[t] = "queued"
           /\ Settle(t) => phase[t] = "settling" /\ phase'[t] = "settled"
           /\ RuntimeStarted(t) => phase[t] = "starting" /\ phase'[t] = "streaming"
           /\ RuntimeStartFailed(t) => phase[t] = "starting" /\ phase'[t] = "settling"
           /\ Drained(t) => phase[t] = "draining" /\ phase'[t] = "settling"
           /\ DrainRejected(t) => /\ phase[t] = "draining" /\ phase'[t] = "settling"
                                  /\ Broken(t)
BY DEF TypeOK, LockTypeOK, GaugeStep, StartTask, Settle, RuntimeStarted,
       RuntimeStartFailed, Drained, DrainRejected, Broken, toolVars

\* pendingTasks counts the tasks from startTask to .finally.
LEMMA PendingKept ==
    ASSUME TypeOK, pendingTasks = Cardinality(Open), NEW t \in Tasks, GaugeStep(t)
    PROVE  pendingTasks' = Cardinality(Open')
<1>1. \A u \in Tasks \ {t} : phase'[u] = phase[u]
  BY GaugeMoves
<1>2. CASE StartTask(t)
  <2>1. Open' = Open \cup {t} /\ t \notin Open
    BY <1>1, <1>2, GaugeMoves DEF Open, Unsettled
  <2>2. Cardinality(Open') = Cardinality(Open) + 1
    BY <2>1, OpenFinite, FS_AddElement
  <2>3. QED  BY <1>2, <2>2 DEF StartTask
<1>3. CASE Settle(t)
  <2>1. Open' = Open \ {t} /\ t \in Open
    BY <1>1, <1>3, GaugeMoves DEF Open, Unsettled
  <2>2. Cardinality(Open') = Cardinality(Open) - 1
    BY <2>1, OpenFinite, FS_RemoveElement
  <2>3. Cardinality(Open) # 0
    BY <2>1, OpenFinite, FS_EmptySet
  <2>4. pendingTasks' = pendingTasks - 1
    BY <1>3, <2>3, OpenFinite DEF Settle
  <2>5. QED  BY <2>2, <2>4
<1>4. CASE ~StartTask(t) /\ ~Settle(t)
  <2>1. Open' = Open
    BY <1>1, <1>4, GaugeMoves DEF GaugeStep, Open, Unsettled
  <2>2. pendingTasks' = pendingTasks
    BY <1>4 DEF GaugeStep, RuntimeStarted, RuntimeStartFailed, Drained,
                DrainRejected, Finalize, gaugeVars
  <2>3. QED  BY <2>1, <2>2
<1>5. QED  BY <1>2, <1>3, <1>4

\* activeTasks and activeSessions count the tasks with a start time.
LEMMA ActiveKept ==
    ASSUME TypeOK, LockInv, GaugeInv, NEW t \in Tasks, GaugeStep(t)
    PROVE  /\ activeTasks' = Cardinality(taskStartTimes')
           /\ StartTimesOK' /\ ActiveSessionsOK'
<1>1. /\ worker' = worker
      /\ \A u \in Tasks \ {t} : phase'[u] = phase[u]
  BY GaugeMoves
<1>2. /\ taskStartTimes \subseteq Tasks /\ activeTasks \in Nat
      /\ IsFiniteSet(taskStartTimes)
  BY StartTimesFinite DEF TypeOK, GaugeTypeOK
<1>3. CASE UNCHANGED <<activeTasks, activeSessions, taskStartTimes>>
  <2>1. \/ StartTask(t) \/ Settle(t) \/ RuntimeStartFailed(t) \/ DrainRejected(t)
        \/ RuntimeStarted(t) \/ Drained(t)
    BY DEF GaugeStep
  <2>2. ~RuntimeStarted(t)
    BY <1>2, <1>3 DEF RuntimeStarted
  <2>3. ASSUME Drained(t)
        PROVE  FALSE
    <3>1. t \in taskStartTimes
      BY <2>3, GaugeMoves DEF GaugeInv, StartTimesOK, InLoop
    <3>2. taskStartTimes' = taskStartTimes \ {t}
      BY <2>3 DEF Drained, Finalize
    <3>3. QED  BY <1>3, <3>1, <3>2
  <2>4. StartTimesOK'
    BY <1>1, <1>3, <2>1, <2>2, <2>3, GaugeMoves
       DEF GaugeInv, StartTimesOK, InLoop, Broken
  <2>5. ActiveSessionsOK'
    BY <1>1, <1>3 DEF GaugeInv, ActiveSessionsOK, Broken
  <2>6. QED  BY <1>3, <2>4, <2>5 DEF GaugeInv
<1>4. CASE RuntimeStarted(t)
  <2>1. /\ activeTasks' = activeTasks + 1
        /\ taskStartTimes' = taskStartTimes \cup {t}
        /\ activeSessions' = activeSessions \cup {SessionOf[t]}
    BY <1>4 DEF RuntimeStarted
  <2>2. phase[t] = "starting" /\ phase'[t] = "streaming"
    BY <1>4, GaugeMoves
  <2>3. t \notin taskStartTimes
    BY <2>2 DEF GaugeInv, StartTimesOK, InLoop
  <2>4. activeTasks' = Cardinality(taskStartTimes')
    BY <1>2, <2>1, <2>3, FS_AddElement DEF GaugeInv
  <2>5. StartTimesOK'
    BY <1>1, <2>1, <2>2 DEF GaugeInv, StartTimesOK, InLoop, Broken
  <2>6. ActiveSessionsOK'
    BY <1>1, <2>1 DEF GaugeInv, ActiveSessionsOK, Broken
  <2>7. QED  BY <2>4, <2>5, <2>6
<1>5. CASE Drained(t)
  <2>1. phase[t] = "draining" /\ phase'[t] = "settling"
    BY <1>5, GaugeMoves
  <2>2. t \in taskStartTimes
    BY <2>1 DEF GaugeInv, StartTimesOK, InLoop
  <2>3. Cardinality(taskStartTimes) # 0
    BY <1>2, <2>2, FS_EmptySet
  <2>4. /\ activeTasks' = activeTasks - 1
        /\ taskStartTimes' = taskStartTimes \ {t}
        /\ activeSessions' = activeSessions \ {SessionOf[t]}
    BY <1>2, <1>5, <2>2, <2>3 DEF Drained, Finalize, GaugeInv
  <2>5. activeTasks' = Cardinality(taskStartTimes')
    BY <1>2, <2>2, <2>4, FS_RemoveElement DEF GaugeInv
  <2>6. StartTimesOK'
    BY <1>1, <2>1, <2>4 DEF GaugeInv, StartTimesOK, InLoop, Broken
  <2>7. ASSUME \A u \in Tasks : ~Broken(u)'
        PROVE  activeSessions' = {SessionOf[u] : u \in taskStartTimes'}
    <3>1. \A u \in Tasks : ~Broken(u)
      BY <1>1, <2>7 DEF Broken
    <3>2. activeSessions = {SessionOf[u] : u \in taskStartTimes}
      BY <3>1 DEF GaugeInv, ActiveSessionsOK
    <3>3. ASSUME NEW u \in taskStartTimes \ {t}
          PROVE  SessionOf[u] # SessionOf[t]
      <4>1. u \in Tasks /\ InLoop(u) /\ Running(u) /\ Running(t)
        BY <1>2, <2>1, <3>1 DEF GaugeInv, StartTimesOK, InLoop, Running
      <4>2. QED  BY <4>1, LoopMutex DEF SameSession
    <3>4. QED  BY <2>4, <3>2, <3>3
  <2>8. QED  BY <2>5, <2>6, <2>7 DEF ActiveSessionsOK, Broken
<1>6. CASE StartTask(t) \/ Settle(t) \/ DrainRejected(t)
  BY <1>3, <1>6 DEF StartTask, Settle, DrainRejected, gaugeVars
<1>7. CASE RuntimeStartFailed(t)
  <2>1. t \notin taskStartTimes
    BY <1>7, GaugeMoves DEF GaugeInv, StartTimesOK, InLoop
  <2>2. UNCHANGED <<activeTasks, activeSessions, taskStartTimes>>
    BY <1>7, <2>1 DEF RuntimeStartFailed, Finalize
  <2>3. QED  BY <1>3, <2>2
<1>8. QED  BY <1>4, <1>5, <1>6, <1>7 DEF GaugeStep

\* Every step keeps the gauges.
LEMMA NextGauges ==
    ASSUME TypeOK, LockInv, ToolInv, GaugeInv, [Next]_vars
    PROVE  GaugeInv'
<1>1. CASE \E t \in Tasks : GaugeStep(t)
  BY <1>1, PendingKept, ActiveKept DEF GaugeInv
<1>2. CASE UNCHANGED Gauges /\ \A t \in Tasks : SamePlace(t)
  <2>1. \A t \in Tasks : Broken(t) => Broken(t)'
    BY BrokenStays
  <2>2. Open' = Open /\ pendingTasks' = Cardinality(Open')
    BY <1>2 DEF SamePlace, Open, Gauges, GaugeInv
  <2>3. StartTimesOK'
    BY <1>2, <2>1 DEF SamePlace, Gauges, GaugeInv, StartTimesOK, Broken, InLoop
  <2>4. ActiveSessionsOK'
    BY <1>2, <2>1 DEF Gauges, GaugeInv, ActiveSessionsOK, Broken
  <2>5. QED  BY <1>2, <2>2, <2>3, <2>4 DEF Gauges, GaugeInv
<1>3. QED  BY <1>1, <1>2, GaugeSteps

\* The gauges are 0 at first, and so are the counts.
LEMMA InitGauges == ASSUME Init PROVE GaugeInv
<1>1. Open = {} /\ taskStartTimes = {}
  BY DEF Init, Open, Unsettled
<1>2. pendingTasks = Cardinality(Open) /\ activeTasks = Cardinality(taskStartTimes)
  BY <1>1, FS_EmptySet DEF Init
<1>3. StartTimesOK /\ ActiveSessionsOK
  BY DEF Init, StartTimesOK, ActiveSessionsOK, InLoop
<1>4. QED  BY <1>2, <1>3 DEF GaugeInv

\* The gauges of src/src/executor/engine.ts are exact: startTask's count and
\* the start times always are, the active tasks and sessions as long as no
\* handler has thrown, which takes runTask past finalizeTask.
THEOREM GaugesAreExact == Spec => []GaugesExact
<1>1. Init => GaugeInv
  BY InitGauges
<1>2. TypeOK /\ LockInv /\ ToolInv /\ GaugeInv /\ [Next]_vars => GaugeInv'
  BY NextGauges
<1>3. Spec => []GaugeInv
  BY <1>1, <1>2, LockCorrect, ToolsCorrect, PTL DEF Spec
<1>4. TypeOK /\ GaugeInv => GaugesExact
  <2> SUFFICES ASSUME TypeOK, GaugeInv PROVE GaugesExact
    OBVIOUS
  <2>1. ASSUME \A t \in Tasks : ~Broken(t)
        PROVE  /\ taskStartTimes = {t \in Tasks : InLoop(t)}
               /\ activeSessions = {SessionOf[t] : t \in taskStartTimes}
    BY <2>1 DEF GaugeInv, StartTimesOK, ActiveSessionsOK, TypeOK, GaugeTypeOK
  <2>2. QED  BY <2>1 DEF GaugesExact, GaugeInv, Open, Broken, InLoop
<1>5. QED  BY <1>3, <1>4, TypeCorrect, PTL

-----------------------------------------------------------------------------
(* The terminal event.                                                     *)

\* What a task has logged and recorded of its end.  stop() is what may bring
\* a second terminal event: see the runs Engine_two_terminals.
Silent(t) == TerminalsOf(t) = {} /\ taskTerminalStatus[t] = "none"

EndOK(t) ==
    /\ stopCall[t] # "none" => stopRequested[t]
    /\ finished[t] # "none" => phase[t] \in {"settling", "settled"}
    /\ terminalEmitted[t] => phase[t] \notin {"idle", "queued", "starting"}
    /\ ~stopRequested[t] =>
          /\ \A i, j \in TerminalsOf(t) : i = j
          /\ finished[t] = "none" /\ ~terminalEmitted[t] => Silent(t)
          /\ finished[t] = "none" /\ terminalEmitted[t] =>
                /\ taskTerminalStatus[t] \in Terminal
                /\ \A i \in TerminalsOf(t) : TaskLog(t)[i].type = taskTerminalStatus[t]
          /\ finished[t] # "none" =>
                \A i \in TerminalsOf(t) : TaskLog(t)[i].type = finished[t]

EndInv == \A t \in Tasks : EndOK(t)

\* A step that logs no terminal event of task t.
SameTerminals(t) ==
    /\ TerminalsOf(t)' = TerminalsOf(t)
    /\ \A i \in TerminalsOf(t) : TaskLog(t)'[i].type = TaskLog(t)[i].type

\* Events of other tasks, and of tool calls, are no terminal events of t.
LEMMA NoTerminal ==
    ASSUME StreamTypeOK, NEW u \in Tasks, NEW es \in Seq(Event), Emit(u, es),
           NEW t \in Tasks,
           \A k \in 1 .. Len(es) : es[k].task # t \/ es[k].type \notin Terminal
    PROVE  SameTerminals(t)
<1>1. SessionOf[t] \in Sessions
  BY EngineAssumption
<1>2. CASE SessionOf[t] # SessionOf[u]
  <2>1. log'[SessionOf[t]] = log[SessionOf[t]]
    BY <1>1, <1>2, Appended
  <2>2. QED  BY <2>1 DEF SameTerminals, TerminalsOf, TaskLog
<1>3. CASE SessionOf[t] = SessionOf[u]
  <2> DEFINE old == log[SessionOf[u]]
             new == log'[SessionOf[u]]
  <2>1. /\ \A j \in 1 .. Len(old) : j \in 1 .. Len(new) /\ new[j] = old[j]
        /\ \A k \in 1 .. Len(es) : new[Len(old) + k] = es[k]
        /\ \A j \in 1 .. Len(new) :
              j \in 1 .. Len(old) \/ \E k \in 1 .. Len(es) : j = Len(old) + k
    BY AppendedAt
  <2>2. /\ TerminalsOf(t) = {i \in 1 .. Len(old) : old[i].task = t /\ old[i].type \in Terminal}
        /\ TerminalsOf(t)' = {i \in 1 .. Len(new) : new[i].task = t /\ new[i].type \in Terminal}
        /\ TaskLog(t) = old /\ TaskLog(t)' = new
    BY <1>3 DEF TerminalsOf, TaskLog
  <2> HIDE DEF old, new
  <2>3. TerminalsOf(t)' = TerminalsOf(t)
    BY <2>1, <2>2
  <2>4. \A i \in TerminalsOf(t) : TaskLog(t)'[i].type = TaskLog(t)[i].type
    BY <2>1, <2>2
  <2>5. QED  BY <2>3, <2>4 DEF SameTerminals
<1>4. QED  BY <1>2, <1>3

\* The first terminal event of a task is its only one.
LEMMA FirstTerminal ==
    ASSUME StreamTypeOK, NEW t \in Tasks, NEW type \in Terminal,
           Emit(t, <<TaskEvent(t, type)>>), TerminalsOf(t) = {}
    PROVE  /\ \A i, j \in TerminalsOf(t)' : i = j
           /\ \A i \in TerminalsOf(t)' : TaskLog(t)'[i].type = type
<1> DEFINE old == log[SessionOf[t]]
           new == log'[SessionOf[t]]
           es == <<TaskEvent(t, type)>>
<1>1. es \in Seq(Event) /\ Len(es) = 1 /\ es[1].type = type
  BY DEF TaskEvent, Event, EventTypes
<1>2. /\ \A j \in 1 .. Len(old) : j \in 1 .. Len(new) /\ new[j] = old[j]
      /\ \A k \in 1 .. Len(es) : new[Len(old) + k] = es[k]
      /\ \A j \in 1 .. Len(new) :
            j \in 1 .. Len(old) \/ \E k \in 1 .. Len(es) : j = Len(old) + k
  BY <1>1, AppendedAt
<1>3. /\ TerminalsOf(t) = {i \in 1 .. Len(old) : old[i].task = t /\ old[i].type \in Terminal}
      /\ TerminalsOf(t)' = {i \in 1 .. Len(new) : new[i].task = t /\ new[i].type \in Terminal}
      /\ TaskLog(t)' = new
  BY DEF TerminalsOf, TaskLog
<1> HIDE DEF old, new, es
<1>4. \A i \in TerminalsOf(t)' : i = Len(old) + 1 /\ new[i].type = type
  <2> TAKE i \in TerminalsOf(t)'
  <2>1. i \notin 1 .. Len(old)
    BY <1>2, <1>3
  <2>2. PICK k \in 1 .. Len(es) : i = Len(old) + k
    BY <1>2, <1>3, <2>1
  <2>3. k = 1
    BY <1>1
  <2>4. new[Len(old) + k] = es[k]
    BY <1>2
  <2>5. new[i] = es[1]
    BY <2>2, <2>3, <2>4
  <2>6. QED  BY <1>1, <2>2, <2>3, <2>5
<1>5. QED  BY <1>3, <1>4

\* What a step of a task may log.
LEMMA WhatIsLogged ==
    ASSUME TypeOK, NEW t \in Tasks, TaskStep(t) \/ ToolStep(t) \/ StopStep(t)
    PROVE  \/ log' = log
           \/ \E es \in Seq(Event) :
                 /\ Emit(t, es)
                 /\ \A k \in 1 .. Len(es) : es[k].task = t
                 /\ \/ StreamTerminal(t) \/ Drained(t) \/ StopReturned(t)
                    \/ \A k \in 1 .. Len(es) : es[k].type \notin Terminal
<1> DEFINE Tool(es) == /\ es \in Seq(Event) /\ Emit(t, es)
                       /\ \A k \in 1 .. Len(es) : /\ es[k].task = t
                                                  /\ es[k].type \notin Terminal
<1>1. \A type \in EventTypes : TaskEvent(t, type) \in Event
  BY DEF TaskEvent, Event
<1>2. ASSUME NEW type \in EventTypes, Emit(t, <<TaskEvent(t, type)>>)
      PROVE  \E es \in Seq(Event) :
                /\ Emit(t, es)
                /\ \A k \in 1 .. Len(es) : es[k].task = t /\ es[k].type = type
  <2> DEFINE es == <<TaskEvent(t, type)>>
  <2>1. /\ es \in Seq(Event) /\ Len(es) = 1
        /\ es[1].task = t /\ es[1].type = type
    BY <1>1 DEF TaskEvent
  <2>2. Emit(t, es)
    BY <1>2
  <2> HIDE DEF es
  <2>3. \A k \in 1 .. Len(es) : k = 1
    BY <2>1
  <2>4. QED  BY <2>1, <2>2, <2>3
<1>3. Terminal \subseteq EventTypes /\ "output" \in EventTypes \ Terminal
  BY DEF EventTypes, Terminal
<1>4. ASSUME NEW c \in Calls \cup {NoCall}, NEW a \in ToolEvents,
             Emit(t, <<ToolEvent(t, c, a)>>)
      PROVE  \E es : Tool(es)
  <2> DEFINE es == <<ToolEvent(t, c, a)>>
  <2>1. ToolEvent(t, c, a) \in Event /\ ToolEvent(t, c, a).task = t
        /\ ToolEvent(t, c, a).type \notin Terminal
    BY DEF ToolEvent, Event, EventTypes, ToolEvents, Terminal
  <2>2. es \in Seq(Event) /\ Emit(t, es) /\ Len(es) = 1 /\ es[1] = ToolEvent(t, c, a)
    BY <1>4, <2>1
  <2> HIDE DEF es
  <2>3. \A k \in 1 .. Len(es) : k = 1
    BY <2>2
  <2>4. Tool(es)
    BY <2>1, <2>2, <2>3
  <2>5. QED  BY <2>4
<1>5. ASSUME NEW c \in Calls \cup {NoCall}, NEW a \in ToolEvents, NEW b \in ToolEvents,
             Emit(t, <<ToolEvent(t, c, a), ToolEvent(t, c, b)>>)
      PROVE  \E es : Tool(es)
  <2> DEFINE es == <<ToolEvent(t, c, a), ToolEvent(t, c, b)>>
  <2>1. \A x \in {a, b} : /\ ToolEvent(t, c, x) \in Event /\ ToolEvent(t, c, x).task = t
                          /\ ToolEvent(t, c, x).type \notin Terminal
    BY DEF ToolEvent, Event, EventTypes, ToolEvents, Terminal
  <2>2. /\ es \in Seq(Event) /\ Emit(t, es) /\ Len(es) = 2
        /\ es[1] = ToolEvent(t, c, a) /\ es[2] = ToolEvent(t, c, b)
    BY <1>5, <2>1
  <2> HIDE DEF es
  <2>3. \A k \in 1 .. Len(es) : k = 1 \/ k = 2
    BY <2>2
  <2>4. Tool(es)
    BY <2>1, <2>2, <2>3
  <2>5. QED  BY <2>4
<1>6. ASSUME NEW c \in Calls \cup {NoCall}, NEW a \in ToolEvents, NEW v,
             Execute(t, c, v, <<ToolEvent(t, c, a)>>)
      PROVE  \E es : Tool(es)
  <2> DEFINE es == <<ToolEvent(t, c, a)>> \o <<ToolEvent(t, c, "approved"),
                                               ToolEvent(t, c, "started")>>
  <2>1. \A x \in {a, "approved", "started"} :
           /\ ToolEvent(t, c, x) \in Event /\ ToolEvent(t, c, x).task = t
           /\ ToolEvent(t, c, x).type \notin Terminal
    BY DEF ToolEvent, Event, EventTypes, ToolEvents, Terminal
  <2>2. /\ es \in Seq(Event) /\ Len(es) = 3 /\ es[1] = ToolEvent(t, c, a)
        /\ es[2] = ToolEvent(t, c, "approved") /\ es[3] = ToolEvent(t, c, "started")
    BY <2>1
  <2>3. Emit(t, es)
    BY <1>6 DEF Execute
  <2> HIDE DEF es
  <2>4. \A k \in 1 .. Len(es) : k = 1 \/ k = 2 \/ k = 3
    BY <2>2
  <2>5. Tool(es)
    BY <2>1, <2>2, <2>3, <2>4
  <2>6. QED  BY <2>5
<1>7. (\E es : Tool(es)) => \E es \in Seq(Event) :
                 /\ Emit(t, es)
                 /\ \A k \in 1 .. Len(es) : es[k].task = t
                 /\ \A k \in 1 .. Len(es) : es[k].type \notin Terminal
  OBVIOUS
<1>8. /\ worker[t].call \in Calls \cup {NoCall}
      /\ toolQueue[t] # << >> => Head(toolQueue[t]) \in Calls
  <2>1. PICK q \in Seq(Calls) : q = toolQueue[t]
    BY DEF TypeOK, ToolTypeOK
  <2>2. q # << >> => Head(q) \in Calls
    OBVIOUS
  <2>3. QED  BY <2>1, <2>2 DEF TypeOK, ToolTypeOK
<1> HIDE DEF Tool
<1>9. ASSUME NEW type \in Terminal, EmitTerminal(t, type)
      PROVE  log' = log \/ \E es \in Seq(Event) :
                 Emit(t, es) /\ \A k \in 1 .. Len(es) : es[k].task = t
  BY <1>2, <1>3, <1>9 DEF EmitTerminal
<1>10. CASE ToolStep(t)
  <2>0. /\ {"policy_deny", "denied", "policy_ask", "policy_allow", "user_deny",
            "user_allow", "output.delta", "completed"} \subseteq ToolEvents
    BY DEF ToolEvents
  <2>1. CASE BeginToolCall(t)
    BY <1>4, <1>5, <1>6, <1>7, <1>8, <2>0, <2>1 DEF BeginToolCall
  <2>2. CASE AfterDecision(t)
    BY <1>4, <1>5, <1>6, <1>7, <1>8, <2>0, <2>2 DEF AfterDecision
  <2>3. CASE ToolOutput(t) \/ ToolReturned(t)
    BY <1>4, <1>7, <1>8, <2>0, <2>3 DEF ToolOutput, ToolReturned
  <2>4. CASE ToolCallThrows(t) \/ ToolCallDone(t)
    BY <2>4 DEF ToolCallThrows, ToolCallDone
  <2>5. QED  BY <1>10, <2>1, <2>2, <2>3, <2>4 DEF ToolStep
<1>11. CASE StreamOutput(t)
  BY <1>2, <1>3, <1>11 DEF StreamOutput
<1>12. ASSUME NEW c \in Calls, StreamToolRequest(t, c)
       PROVE  \E es : Tool(es)
  BY <1>4, <1>12 DEF StreamToolRequest, ToolEvents
<1>13. CASE StreamTerminal(t)
  <2>1. PICK type \in Terminal : Emit(t, <<TaskEvent(t, type)>>)
    BY <1>13, EngineAssumption DEF StreamTerminal, Terminal
  <2>2. QED  BY <1>2, <1>3, <1>13, <2>1
<1>14. CASE Drained(t) \/ StopReturned(t)
  <2>1. log' = log \/ \E type \in Terminal : EmitTerminal(t, type)
    BY <1>14 DEF Drained, StopReturned, Terminal
  <2>2. QED  BY <1>9, <1>14, <2>1
<1>15. CASE \/ StartTask(t) \/ RunTask(t) \/ SkipTask(t) \/ Settle(t)
            \/ RuntimeStarted(t) \/ RuntimeStartFailed(t) \/ StreamEnded(t)
            \/ StreamFailed(t) \/ DrainRejected(t) \/ Stop(t) \/ StopFailed(t)
  BY <1>15 DEF StartTask, RunTask, SkipTask, Settle, RuntimeStarted,
     RuntimeStartFailed, StreamEnded, StreamFailed, LeaveLoop, DrainRejected,
     Stop, StopFailed
<1>16. QED
  BY <1>7, <1>10, <1>11, <1>12, <1>13, <1>14, <1>15 DEF TaskStep, StopStep

\* Each step leaves what it does not name of the other tasks alone.
LEMMA OtherEnds ==
    ASSUME TypeOK, EndInv, NEW t \in Tasks, TaskStep(t) \/ ToolStep(t) \/ StopStep(t),
           NEW u \in Tasks \ {t}
    PROVE  EndOK(u)'
<1>1. SameTerminals(u)
  <2>1. CASE log' = log
    BY <2>1 DEF SameTerminals, TerminalsOf, TaskLog
  <2>2. CASE \E es \in Seq(Event) :
                Emit(t, es) /\ \A k \in 1 .. Len(es) : es[k].task = t
    BY <2>2, NoTerminal DEF TypeOK
  <2>3. QED  BY <2>1, <2>2, WhatIsLogged
<1>2. /\ phase'[u] = phase[u]
      /\ stopRequested'[u] = stopRequested[u]
      /\ stopCall'[u] = stopCall[u]
  <2>1. CASE ToolStep(t)
    BY <2>1 DEF ToolStep, BeginToolCall, AfterDecision, ToolOutput, ToolReturned,
       ToolCallThrows, ToolCallDone, lockVars, stopVars
  <2>2. CASE StopStep(t)
    BY <2>2 DEF TypeOK, StreamTypeOK, StopStep, Stop, StopReturned, StopFailed,
       lockVars, stopVars
  <2>3. CASE TaskStep(t)
    BY <2>3 DEF TypeOK, LockTypeOK, TaskStep, StartTask, RunTask, SkipTask, Settle,
       RuntimeStarted, RuntimeStartFailed, StreamOutput, StreamTerminal, StreamEnded,
       StreamFailed, LeaveLoop, StreamToolRequest, Drained, DrainRejected,
       lockVars, stopVars
  <2>4. QED  BY <2>1, <2>2, <2>3
<1>3. /\ terminalEmitted'[u] = terminalEmitted[u]
      /\ finished'[u] = finished[u]
      /\ taskTerminalStatus'[u] = taskTerminalStatus[u]
  <2>1. CASE ToolStep(t)
    BY <2>1 DEF ToolStep, BeginToolCall, AfterDecision, ToolOutput, ToolReturned,
       ToolCallThrows, ToolCallDone, streamVars, gaugeVars
  <2>2. CASE StopStep(t)
    BY <2>2 DEF TypeOK, GaugeTypeOK, StopStep, Stop, StopReturned, StopFailed, Record,
       streamVars, gaugeVars
  <2>3. CASE RuntimeStartFailed(t) \/ Drained(t)
    BY <2>3 DEF TypeOK, GaugeTypeOK, RuntimeStartFailed, Drained, Finalize, streamVars
  <2>4. CASE StreamTerminal(t)
    BY <2>4 DEF TypeOK, GaugeTypeOK, StreamTypeOK, StreamTerminal, Record, streamVars
  <2>5. CASE TaskStep(t) /\ ~(RuntimeStartFailed(t) \/ Drained(t) \/ StreamTerminal(t))
    BY <2>5 DEF TaskStep, StartTask, RunTask, SkipTask, Settle,
       RuntimeStarted, StreamOutput, StreamEnded, StreamFailed, LeaveLoop,
       StreamToolRequest, DrainRejected, streamVars, gaugeVars
  <2>6. QED  BY <2>1, <2>2, <2>3, <2>4, <2>5
<1>4. EndOK(u)
  BY DEF EndInv
<1>5. QED  BY <1>1, <1>2, <1>3, <1>4 DEF EndOK, Silent, SameTerminals

\* A step of the task itself that neither logs nor records an end.
LEMMA EndFrame ==
    ASSUME NEW t \in Tasks, EndOK(t), SameTerminals(t),
           stopCall'[t] # "none" => stopCall[t] # "none" \/ stopRequested'[t],
           stopRequested[t] => stopRequested'[t],
           terminalEmitted'[t] = terminalEmitted[t],
           finished'[t] = finished[t],
           taskTerminalStatus'[t] = taskTerminalStatus[t],
           finished[t] # "none" => phase'[t] \in {"settling", "settled"},
           terminalEmitted[t] => phase'[t] \notin {"idle", "queued", "starting"}
    PROVE  EndOK(t)'
BY DEF EndOK, Silent, SameTerminals

\* Logging nothing, or no terminal event of one's own, changes nothing.
LEMMA QuietLog ==
    ASSUME TypeOK, NEW t \in Tasks, TaskStep(t) \/ ToolStep(t) \/ StopStep(t),
           UNCHANGED <<stopCall, terminalEmitted>>,
           phase[t] = "draining" => phase'[t] = "draining"
    PROVE  SameTerminals(t)
<1>1. ~Drained(t)
  BY DEF Drained, TypeOK, LockTypeOK
<1>2. ~StopReturned(t)
  <2>1. StopReturned(t) => stopCall'[t] = "done" /\ stopCall[t] = "waiting"
    BY DEF StopReturned, TypeOK, StreamTypeOK
  <2>2. QED  BY <2>1
<1>3. ~StreamTerminal(t)
  <2>1. StreamTerminal(t) => terminalEmitted'[t] /\ ~terminalEmitted[t]
    BY DEF StreamTerminal, Opened, TypeOK, StreamTypeOK
  <2>2. QED  BY <2>1
<1>4. CASE log' = log
  BY <1>4 DEF SameTerminals, TerminalsOf, TaskLog
<1>5. CASE \E es \in Seq(Event) :
              Emit(t, es) /\ \A k \in 1 .. Len(es) : es[k].type \notin Terminal
  BY <1>5, NoTerminal DEF TypeOK
<1>6. QED  BY <1>1, <1>2, <1>3, <1>4, <1>5, WhatIsLogged

\* The steps of a task and what they do to its own end.
LEMMA OwnEnd ==
    ASSUME TypeOK, NEW t \in Tasks, EndOK(t), TaskStep(t) \/ ToolStep(t) \/ StopStep(t)
    PROVE  EndOK(t)'
<1>1. /\ phase \in [Tasks -> Phases]
      /\ stopRequested \in [Tasks -> BOOLEAN]
      /\ stopCall \in [Tasks -> {"none", "waiting", "done", "failed"}]
      /\ terminalEmitted \in [Tasks -> BOOLEAN]
      /\ taskTerminalStatus \in [Tasks -> Statuses]
      /\ finished \in [Tasks -> Statuses]
      /\ "none" \notin Terminal
  BY DEF TypeOK, LockTypeOK, StreamTypeOK, GaugeTypeOK, Terminal
<1>2. CASE ToolStep(t)
  <2>1. UNCHANGED <<lockVars, stopVars, streamVars, gaugeVars>>
    BY <1>2 DEF ToolStep, BeginToolCall, AfterDecision, ToolOutput,
       ToolReturned, ToolCallThrows, ToolCallDone
  <2>2. UNCHANGED <<phase, stopRequested, stopCall, terminalEmitted, finished,
                    taskTerminalStatus>>
    BY <2>1 DEF lockVars, stopVars, streamVars, gaugeVars
  <2>3. SameTerminals(t)
    BY <1>2, <2>2, QuietLog
  <2>4. QED  BY <2>2, <2>3, EndFrame DEF EndOK
<1>3. CASE Stop(t) \/ StopFailed(t)
  <2>1. /\ UNCHANGED <<phase, terminalEmitted, finished, taskTerminalStatus, log>>
        /\ stopRequested[t] => stopRequested'[t]
        /\ stopCall'[t] # "none" => stopCall[t] # "none" \/ stopRequested'[t]
    BY <1>1, <1>3 DEF Stop, StopFailed, lockVars, streamVars, gaugeVars
  <2>2. SameTerminals(t)
    BY <2>1 DEF SameTerminals, TerminalsOf, TaskLog
  <2>3. QED  BY <2>1, <2>2, EndFrame DEF EndOK
<1>4. CASE StopReturned(t)
  <2>1. stopRequested[t]
    BY <1>4 DEF StopReturned, EndOK
  <2>2. UNCHANGED <<phase, stopRequested, terminalEmitted, finished>>
    BY <1>4 DEF StopReturned, lockVars, streamVars
  <2>3. QED  BY <2>1, <2>2 DEF EndOK
<1>5. CASE \/ StartTask(t) \/ RunTask(t) \/ SkipTask(t) \/ Settle(t)
           \/ RuntimeStarted(t) \/ DrainRejected(t)
  <2>1. /\ UNCHANGED <<stopRequested, stopCall, terminalEmitted, finished,
                       taskTerminalStatus, log>>
        /\ phase[t] \in {"settling", "settled"} => phase'[t] \in {"settling", "settled"}
        /\ phase[t] \notin {"idle", "queued", "starting"} =>
               phase'[t] \notin {"idle", "queued", "starting"}
    BY <1>1, <1>5 DEF StartTask, RunTask, SkipTask, Settle, RuntimeStarted,
       DrainRejected, stopVars, streamVars, gaugeVars
  <2>2. SameTerminals(t)
    BY <2>1 DEF SameTerminals, TerminalsOf, TaskLog
  <2>3. QED  BY <2>1, <2>2, EndFrame DEF EndOK
<1>6. CASE \/ StreamOutput(t) \/ StreamEnded(t) \/ StreamFailed(t)
           \/ \E c \in Calls : StreamToolRequest(t, c)
  <2>1. /\ UNCHANGED <<stopRequested, stopCall, terminalEmitted, finished,
                       taskTerminalStatus>>
        /\ phase[t] = "streaming" /\ phase'[t] \in {"streaming", "draining"}
    BY <1>1, <1>6 DEF StreamOutput, StreamEnded, StreamFailed, StreamToolRequest,
       LeaveLoop, Opened, lockVars, stopVars, streamVars, gaugeVars
  <2>2. SameTerminals(t)
    BY <1>6, <2>1, QuietLog DEF TaskStep
  <2>3. QED  BY <2>1, <2>2, EndFrame DEF EndOK
<1>7. CASE RuntimeStartFailed(t)
  <2>1. /\ phase[t] = "starting" /\ phase'[t] = "settling"
        /\ UNCHANGED <<stopRequested, stopCall, terminalEmitted, log>>
        /\ finished'[t] # "none"
    BY <1>1, <1>7 DEF RuntimeStartFailed, Finalize, stopVars, streamVars
  <2>2. SameTerminals(t)
    BY <2>1 DEF SameTerminals, TerminalsOf, TaskLog
  <2>3. ~stopRequested[t] => TerminalsOf(t) = {}
    BY <2>1 DEF EndOK, Silent
  <2>4. QED  BY <2>1, <2>2, <2>3 DEF EndOK, SameTerminals
<1>8. CASE StreamTerminal(t)
  <2>1. PICK type \in Terminal :
           Emit(t, <<TaskEvent(t, type)>>) /\ Record(t, type)
    BY <1>8, EngineAssumption DEF StreamTerminal, Terminal
  <2>2. /\ phase[t] = "streaming" /\ ~terminalEmitted[t] /\ terminalEmitted'[t]
        /\ UNCHANGED <<phase, stopRequested, stopCall, finished>>
    BY <1>1, <1>8 DEF StreamTerminal, Opened, lockVars, stopVars
  <2>3. finished[t] = "none"
    BY <2>2 DEF EndOK
  <2>4. ASSUME ~stopRequested[t]
        PROVE  /\ \A i, j \in TerminalsOf(t)' : i = j
               /\ \A i \in TerminalsOf(t)' : TaskLog(t)'[i].type = type
               /\ taskTerminalStatus'[t] = type
    <3>1. TerminalsOf(t) = {} /\ taskTerminalStatus[t] = "none"
      BY <2>2, <2>3, <2>4 DEF EndOK, Silent
    <3>2. taskTerminalStatus'[t] = type
      BY <1>1, <2>1, <3>1 DEF Record
    <3>3. QED  BY <2>1, <3>1, <3>2, FirstTerminal DEF TypeOK
  <2>5. QED  BY <2>1, <2>2, <2>3, <2>4 DEF EndOK
<1>9. CASE Drained(t)
  <2> DEFINE type == IF streamError[t] THEN "task.failed" ELSE "task.completed"
             adopted == IF NeedsTerminal(t) THEN TerminalAdopted(t, type) ELSE "none"
             status == IF taskTerminalStatus[t] = "none" THEN adopted
                       ELSE taskTerminalStatus[t]
  <2>1. /\ phase[t] = "draining" /\ phase'[t] = "settling"
        /\ UNCHANGED <<stopRequested, stopCall, terminalEmitted>>
        /\ finished[t] = "none"
    BY <1>1, <1>9 DEF Drained, stopVars, streamVars, EndOK
  <2>2. finished'[t] = IF status = "none" THEN "task.completed" ELSE status
    BY <1>1, <1>9 DEF Drained, Finalize
  <2>3. type \in Terminal
    BY DEF Terminal
  <2>4. IF terminalEmitted[t] THEN log' = log ELSE EmitTerminal(t, type)
    BY <1>9 DEF Drained, NeedsTerminal
  <2>5. finished'[t] # "none"
    BY <2>2
  <2>6. ASSUME ~stopRequested[t]
        PROVE  /\ \A i, j \in TerminalsOf(t)' : i = j
               /\ \A i \in TerminalsOf(t)' : TaskLog(t)'[i].type = finished'[t]
    <3>1. CASE terminalEmitted[t]
      <4>1. /\ taskTerminalStatus[t] \in Terminal
            /\ \A i \in TerminalsOf(t) : TaskLog(t)[i].type = taskTerminalStatus[t]
            /\ \A i, j \in TerminalsOf(t) : i = j
        BY <2>1, <2>6, <3>1 DEF EndOK
      <4>2. finished'[t] = taskTerminalStatus[t]
        BY <1>1, <2>2, <4>1
      <4>3. TerminalsOf(t)' = TerminalsOf(t) /\ TaskLog(t)' = TaskLog(t)
        BY <2>4, <3>1 DEF TerminalsOf, TaskLog
      <4>4. QED  BY <4>1, <4>2, <4>3
    <3>2. CASE ~terminalEmitted[t]
      <4>1. TerminalsOf(t) = {} /\ taskTerminalStatus[t] = "none"
        BY <2>1, <2>6, <3>2 DEF EndOK, Silent
      <4>2. finished'[t] = IF TerminalAdopted(t, type) = "none" THEN "task.completed"
                           ELSE TerminalAdopted(t, type)
        BY <2>2, <3>2, <4>1 DEF NeedsTerminal
      <4>3. CASE log' = log
        <5>1. TerminalsOf(t)' = {}
          BY <4>1, <4>3 DEF TerminalsOf, TaskLog
        <5>2. QED  BY <5>1
      <4>4. CASE Emit(t, <<TaskEvent(t, type)>>) /\ ~LastIsTerminal(SessionOf[t])
        <5>1. finished'[t] = type
          BY <1>1, <2>3, <4>2, <4>4 DEF TerminalAdopted
        <5> HIDE DEF type
        <5>2. QED  BY <2>3, <4>1, <4>4, <5>1, FirstTerminal DEF TypeOK
      <4>5. QED  BY <2>4, <3>2, <4>3, <4>4 DEF EmitTerminal
    <3>3. QED  BY <3>1, <3>2
  <2>7. QED  BY <2>1, <2>5, <2>6 DEF EndOK
<1>10. QED
  BY <1>2, <1>3, <1>4, <1>5, <1>6, <1>7, <1>8, <1>9 DEF TaskStep, StopStep

\* Every step keeps what is known of the terminal events.
LEMMA NextEnds ==
    ASSUME TypeOK, EndInv, [Next]_vars
    PROVE  EndInv'
<1>1. CASE UserStep \/ UNCHANGED vars
  <2>1. UNCHANGED <<phase, stopRequested, stopCall, terminalEmitted, finished,
                    taskTerminalStatus, log>>
    BY <1>1 DEF UserStep, Approve, Deny, vars, lockVars, stopVars, streamVars, gaugeVars
  <2>2. ASSUME NEW t \in Tasks
        PROVE  EndOK(t)'
    <3>1. EndOK(t)
      BY DEF EndInv
    <3>2. QED  BY <2>1, <3>1 DEF EndOK, Silent, TerminalsOf, TaskLog
  <2>3. QED  BY <2>2 DEF EndInv
<1>2. ASSUME NEW t \in Tasks, TaskStep(t) \/ ToolStep(t) \/ StopStep(t)
      PROVE  EndInv'
  <2>1. EndOK(t)
    BY DEF EndInv
  <2>2. EndOK(t)'
    BY <1>2, <2>1, OwnEnd
  <2>3. \A u \in Tasks \ {t} : EndOK(u)'
    BY <1>2, OtherEnds
  <2>4. QED  BY <2>2, <2>3 DEF EndInv
<1>3. QED  BY <1>1, <1>2 DEF Next

\* No task has a terminal event at first.
LEMMA InitEnds == ASSUME Init PROVE EndInv
<1>1. \A s \in Sessions : Len(log[s]) = 0
  BY DEF Init
<1>2. \A t \in Tasks : TerminalsOf(t) = {}
  BY <1>1, EngineAssumption DEF TerminalsOf, TaskLog
<1>3. QED  BY <1>2 DEF Init, EndInv, EndOK, Silent

\* A task that nobody asked to stop has at most one terminal event, and the
\* status that finalizeTask counts is that event's: src/src/executor/engine.ts,
\* emitTerminal and recordTerminalStatus.
THEOREM EndsOnceUnlessStopped == Spec => []TerminalOnceUnlessStopped
<1>1. Init => EndInv
  BY InitEnds
<1>2. TypeOK /\ EndInv /\ [Next]_vars => EndInv'
  BY NextEnds
<1>3. Spec => []EndInv
  BY <1>1, <1>2, TypeCorrect, PTL DEF Spec
<1>4. EndInv => TerminalOnceUnlessStopped
  <2> SUFFICES ASSUME EndInv, NEW t \in Tasks, ~stopRequested[t]
               PROVE  /\ Cardinality(TerminalsOf(t)) <= 1
                      /\ finished[t] # "none" =>
                           \A i \in TerminalsOf(t) : TaskLog(t)[i].type = finished[t]
    BY DEF TerminalOnceUnlessStopped
  <2>1. EndOK(t)
    BY DEF EndInv
  <2>2. TerminalsOf(t) = {} \/ \E i : TerminalsOf(t) = {i}
    BY <2>1 DEF EndOK
  <2>3. Cardinality(TerminalsOf(t)) \in {0, 1}
    BY <2>2, FS_EmptySet, FS_Singleton
  <2>4. QED  BY <2>1, <2>3 DEF EndOK
<1>5. QED  BY <1>3, <1>4, PTL

-----------------------------------------------------------------------------
(* One terminal event, not less.                                           *)

\* Nobody has stopped a task of t's session.
Uninterrupted(t) == \A u \in Tasks : SameSession(t, u) => ~stopRequested[u]

\* Something of t is in the log.
Spoke(t) == \E i \in 1 .. Len(TaskLog(t)) : TaskLog(t)[i].task = t

\* A settled task has exactly one terminal event ("exactly one terminal event
\* per task", plan.md) if its stream did not fail before its first event, no
\* handler of it threw, and no task of its session was stopped.  Without one of
\* these there may be none: emitTerminal takes the session's last event for the
\* task's own if it is a terminal one, be it of the task before or of one that
\* stop() was called for; and a handler that throws takes runTask past it.
ExactlyOneTerminal ==
    \A t \in Tasks :
        (/\ phase[t] = "settled" /\ handleReady[t]
         /\ ~streamError[t] \/ Spoke(t)
         /\ ~Broken(t) /\ Uninterrupted(t))
        => Cardinality(TerminalsOf(t)) = 1

\* Where a task is, whether it has said anything, and how the log ends.
SpeaksOK(t) ==
    /\ phase[t] \in {"idle", "queued", "starting"} => ~handleReady[t] /\ ~Spoke(t)
    /\ terminalEmitted[t] => TerminalsOf(t) # {}
    /\ InLoop(t) /\ ~terminalEmitted[t] /\ Spoke(t) /\ Uninterrupted(t)
          => ~LastIsTerminal(SessionOf[t])
    /\ phase[t] = "draining" => Spoke(t) \/ streamError[t]
    /\ phase[t] \in {"settling", "settled"} /\ handleReady[t] /\ ~Broken(t)
          => Spoke(t) \/ streamError[t]
    /\ phase[t] \in {"settling", "settled"} /\ Spoke(t) /\ ~Broken(t) /\ Uninterrupted(t)
          => TerminalsOf(t) # {}

SpeakInv == \A t \in Tasks : SpeaksOK(t)

\* Nothing of t is taken out of the log, and only events of t make it speak.
LEMMA LogGrows ==
    ASSUME StreamTypeOK, NEW u \in Tasks, NEW es \in Seq(Event), Emit(u, es),
           NEW t \in Tasks
    PROVE  /\ TerminalsOf(t) # {} => TerminalsOf(t)' # {}
           /\ Spoke(t) => Spoke(t)'
           /\ (\A k \in 1 .. Len(es) : es[k].task # t) => (Spoke(t)' => Spoke(t))
           /\ SessionOf[t] # SessionOf[u] => log'[SessionOf[t]] = log[SessionOf[t]]
<1>1. SessionOf[t] \in Sessions
  BY EngineAssumption
<1>2. CASE SessionOf[t] # SessionOf[u]
  <2>1. log'[SessionOf[t]] = log[SessionOf[t]]
    BY <1>1, <1>2, Appended
  <2>2. QED  BY <2>1 DEF TerminalsOf, TaskLog, Spoke
<1>3. CASE SessionOf[t] = SessionOf[u]
  <2> DEFINE old == log[SessionOf[u]]
             new == log'[SessionOf[u]]
  <2>1. /\ \A j \in 1 .. Len(old) : j \in 1 .. Len(new) /\ new[j] = old[j]
        /\ \A k \in 1 .. Len(es) : new[Len(old) + k] = es[k]
        /\ \A j \in 1 .. Len(new) :
              j \in 1 .. Len(old) \/ \E k \in 1 .. Len(es) : j = Len(old) + k
    BY AppendedAt
  <2>2. /\ TerminalsOf(t) = {i \in 1 .. Len(old) : old[i].task = t /\ old[i].type \in Terminal}
        /\ TerminalsOf(t)' = {i \in 1 .. Len(new) : new[i].task = t /\ new[i].type \in Terminal}
        /\ Spoke(t) <=> \E i \in 1 .. Len(old) : old[i].task = t
        /\ Spoke(t)' <=> \E i \in 1 .. Len(new) : new[i].task = t
    BY <1>3 DEF TerminalsOf, TaskLog, Spoke
  <2> HIDE DEF old, new
  <2>3. TerminalsOf(t) \subseteq TerminalsOf(t)'
    BY <2>1, <2>2
  <2>4. Spoke(t) => Spoke(t)'
    BY <2>1, <2>2
  <2>5. ASSUME \A k \in 1 .. Len(es) : es[k].task # t, Spoke(t)'
        PROVE  Spoke(t)
    <3>1. PICK j \in 1 .. Len(new) : new[j].task = t
      BY <2>2, <2>5
    <3>2. j \in 1 .. Len(old)
      <4>1. ASSUME NEW k \in 1 .. Len(es), j = Len(old) + k
            PROVE  FALSE
        <5>1. new[j] = es[k]
          BY <2>1, <4>1
        <5>2. QED  BY <2>5, <3>1, <5>1
      <4>2. QED  BY <2>1, <4>1
    <3>3. QED  BY <2>1, <2>2, <3>1, <3>2
  <2>6. QED  BY <1>3, <2>3, <2>4, <2>5
<1>4. QED  BY <1>2, <1>3

\* Other events hide the terminal one before them from emitTerminal.
LEMMA LastLogged ==
    ASSUME StreamTypeOK, NEW t \in Tasks, NEW es \in Seq(Event), Emit(t, es),
           \A k \in 1 .. Len(es) : es[k].type \notin Terminal,
           LastIsTerminal(SessionOf[t])'
    PROVE  log'[SessionOf[t]] = log[SessionOf[t]]
<1> DEFINE old == log[SessionOf[t]]
           new == log'[SessionOf[t]]
<1>1. SessionOf[t] \in Sessions /\ old \in Seq(Event) /\ new = old \o es
  BY EngineAssumption DEF StreamTypeOK, Emit
<1>2. /\ Len(old) \in Nat /\ Len(es) \in Nat /\ Len(new) = Len(old) + Len(es)
      /\ \A k \in 1 .. Len(es) : new[Len(old) + k] = es[k]
  BY AppendedAt
<1>3. new[Len(new)].type \in Terminal
  BY DEF LastIsTerminal, Last
<1> HIDE DEF old, new
<1>4. ~(Len(es) > 0)
  BY <1>2, <1>3
<1>5. es = << >>
  BY <1>2, <1>4
<1>6. new = old
  BY <1>1, <1>5
<1>7. QED  BY <1>6 DEF new, old

\* A terminal event of the task is one.
LEMMA EndLogged ==
    ASSUME StreamTypeOK, NEW t \in Tasks, NEW type \in Terminal,
           Emit(t, <<TaskEvent(t, type)>>)
    PROVE  TerminalsOf(t)' # {}
<1> DEFINE old == log[SessionOf[t]]
           new == log'[SessionOf[t]]
           es == <<TaskEvent(t, type)>>
<1>1. es \in Seq(Event) /\ Len(es) = 1 /\ es[1].type = type /\ es[1].task = t
  BY DEF TaskEvent, Event, EventTypes
<1>2. /\ Len(old) \in Nat /\ Len(new) = Len(old) + Len(es)
      /\ \A k \in 1 .. Len(es) : new[Len(old) + k] = es[k]
  BY <1>1, AppendedAt
<1>3. TerminalsOf(t)' = {i \in 1 .. Len(new) : new[i].task = t /\ new[i].type \in Terminal}
  BY DEF TerminalsOf, TaskLog
<1> HIDE DEF old, new, es
<1>4. Len(old) + 1 \in TerminalsOf(t)'
  BY <1>1, <1>2, <1>3
<1>5. QED  BY <1>4

\* While a task is in its loop, and nobody stops a task of its session, no
\* other one logs anything there: the lock keeps them out.
LEMMA AloneInSession ==
    ASSUME TypeOK, LockInv, ToolInv, EndInv, NEW t \in Tasks, InLoop(t), Uninterrupted(t),
           NEW u \in Tasks, u # t, SameSession(t, u),
           TaskStep(u) \/ ToolStep(u) \/ StopStep(u)
    PROVE  log' = log
<1>1. ~Running(u)
  BY LoopMutex DEF InLoop, Running
<1>2. /\ worker[u].pc \in {"idle", "broken"}
      /\ toolQueue[u] # << >> => worker[u].pc = "broken"
  BY <1>1 DEF ToolInv, NoToolOutlivesTask, QueuedInLoop, Running
<1>3. stopCall[u] = "none"
  BY DEF EndInv, EndOK, Uninterrupted
<1>4. CASE TaskStep(u)
  BY <1>1, <1>4 DEF TaskStep, StartTask, RunTask, SkipTask, Settle, RuntimeStarted,
     RuntimeStartFailed, StreamOutput, StreamTerminal, StreamEnded, StreamFailed,
     StreamToolRequest, Opened, Drained, DrainRejected, Running
<1>5. CASE ToolStep(u)
  BY <1>2, <1>5 DEF ToolStep, BeginToolCall, AfterDecision, ToolOutput, ToolReturned,
     ToolCallThrows, ToolCallDone
<1>6. CASE StopStep(u)
  BY <1>3, <1>6 DEF StopStep, Stop, StopReturned, StopFailed
<1>7. QED  BY <1>4, <1>5, <1>6

\* A step of one task leaves the streams of the others alone.
LEMMA OtherStreams ==
    ASSUME TypeOK, NEW u \in Tasks, TaskStep(u) \/ ToolStep(u) \/ StopStep(u),
           NEW t \in Tasks, t # u
    PROVE  /\ phase'[t] = phase[t] /\ handleReady'[t] = handleReady[t]
           /\ terminalEmitted'[t] = terminalEmitted[t] /\ streamError'[t] = streamError[t]
<1>1. /\ phase \in [Tasks -> Phases] /\ handleReady \in [Tasks -> BOOLEAN]
      /\ terminalEmitted \in [Tasks -> BOOLEAN] /\ streamError \in [Tasks -> BOOLEAN]
  BY DEF TypeOK, LockTypeOK, StreamTypeOK
<1>2. CASE TaskStep(u)
  BY <1>1, <1>2 DEF TaskStep, StartTask, RunTask, SkipTask, Settle, RuntimeStarted,
     RuntimeStartFailed, StreamOutput, StreamTerminal, StreamEnded, StreamFailed, LeaveLoop,
     StreamToolRequest, Drained, DrainRejected, lockVars, streamVars
<1>3. CASE ToolStep(u) \/ StopStep(u)
  BY <1>3 DEF ToolStep, BeginToolCall, AfterDecision, ToolOutput, ToolReturned,
     ToolCallThrows, ToolCallDone, StopStep, Stop, StopReturned, StopFailed,
     lockVars, streamVars
<1>4. QED  BY <1>2, <1>3

\* Nobody takes a stop() back.
LEMMA StopStays ==
    ASSUME TypeOK, [Next]_vars, NEW t \in Tasks, Uninterrupted(t)'
    PROVE  Uninterrupted(t)
<1>1. stopRequested \in [Tasks -> BOOLEAN]
  BY DEF TypeOK, StreamTypeOK
<1>2. stopRequested' = stopRequested \/ \E u \in Tasks : Stop(u)
  BY DEF Next, UserStep, Approve, Deny, TaskStep, StartTask, RunTask, SkipTask, Settle,
     RuntimeStarted, RuntimeStartFailed, StreamOutput, StreamTerminal, StreamEnded,
     StreamFailed, LeaveLoop, StreamToolRequest, Drained, DrainRejected, ToolStep,
     BeginToolCall, AfterDecision, ToolOutput, ToolReturned, ToolCallThrows, ToolCallDone,
     StopStep, StopReturned, StopFailed, stopVars, vars
<1>3. \A u \in Tasks : stopRequested[u] => stopRequested'[u]
  BY <1>1, <1>2 DEF Stop
<1>4. QED  BY <1>3 DEF Uninterrupted, SameSession

\* What is known of a task outlasts the steps of the others.
LEMMA OtherSpeaks ==
    ASSUME TypeOK, LockInv, ToolInv, EndInv, SpeakInv, [Next]_vars,
           NEW u \in Tasks, TaskStep(u) \/ ToolStep(u) \/ StopStep(u),
           NEW t \in Tasks, t # u
    PROVE  SpeaksOK(t)'
<1>1. SpeaksOK(t)
  BY DEF SpeakInv
<1>2. /\ phase'[t] = phase[t] /\ handleReady'[t] = handleReady[t]
      /\ terminalEmitted'[t] = terminalEmitted[t] /\ streamError'[t] = streamError[t]
  BY OtherStreams
<1>3. /\ Broken(t) => Broken(t)'
      /\ Uninterrupted(t)' => Uninterrupted(t)
  BY BrokenStays, StopStays
<1>4. CASE log' = log
  <2>1. /\ TerminalsOf(t)' = TerminalsOf(t) /\ (Spoke(t)' <=> Spoke(t))
        /\ LastIsTerminal(SessionOf[t])' <=> LastIsTerminal(SessionOf[t])
    BY <1>4 DEF TerminalsOf, Spoke, TaskLog, LastIsTerminal
  <2>2. QED  BY <1>1, <1>2, <1>3, <2>1 DEF SpeaksOK, InLoop
<1>5. ASSUME NEW es \in Seq(Event), Emit(u, es), \A k \in 1 .. Len(es) : es[k].task = u,
             log' # log
      PROVE  SpeaksOK(t)'
  <2>1. /\ TerminalsOf(t) # {} => TerminalsOf(t)' # {}
        /\ Spoke(t)' <=> Spoke(t)
        /\ SessionOf[t] # SessionOf[u] => log'[SessionOf[t]] = log[SessionOf[t]]
    BY <1>5, LogGrows DEF TypeOK
  <2>2. ASSUME InLoop(t), Uninterrupted(t)
        PROVE  LastIsTerminal(SessionOf[t])' <=> LastIsTerminal(SessionOf[t])
    <3>1. SessionOf[t] # SessionOf[u]
      BY <1>5, <2>2, AloneInSession DEF SameSession
    <3>2. QED  BY <2>1, <3>1 DEF LastIsTerminal
  <2>3. QED  BY <1>1, <1>2, <1>3, <2>1, <2>2 DEF SpeaksOK, InLoop
<1>6. QED  BY <1>4, <1>5, WhatIsLogged

\* What is known of a task outlasts its own steps.
LEMMA OwnSpeaks ==
    ASSUME TypeOK, ToolInv, EndInv, SpeakInv, [Next]_vars,
           NEW t \in Tasks, TaskStep(t) \/ ToolStep(t) \/ StopStep(t)
    PROVE  SpeaksOK(t)'
<1>1. /\ phase \in [Tasks -> Phases] /\ handleReady \in [Tasks -> BOOLEAN]
      /\ terminalEmitted \in [Tasks -> BOOLEAN] /\ streamError \in [Tasks -> BOOLEAN]
      /\ stopCall \in [Tasks -> {"none", "waiting", "done", "failed"}]
      /\ stopRequested \in [Tasks -> BOOLEAN] /\ StreamTypeOK
  BY DEF TypeOK, LockTypeOK, StreamTypeOK
<1>2. SpeaksOK(t)
  BY DEF SpeakInv
<1>3. /\ Broken(t) => Broken(t)'
      /\ Uninterrupted(t)' => Uninterrupted(t)
      /\ stopCall[t] # "none" => ~Uninterrupted(t)
  BY BrokenStays, StopStays DEF EndInv, EndOK, Uninterrupted, SameSession
<1>4. log' = log => /\ TerminalsOf(t)' = TerminalsOf(t) /\ (Spoke(t)' <=> Spoke(t))
                    /\ LastIsTerminal(SessionOf[t])' <=> LastIsTerminal(SessionOf[t])
  BY DEF TerminalsOf, Spoke, TaskLog, LastIsTerminal
<1>5. ASSUME NEW es \in Seq(Event), Emit(t, es)
      PROVE  /\ TerminalsOf(t) # {} => TerminalsOf(t)' # {}
             /\ Spoke(t) => Spoke(t)'
  BY <1>1, <1>5, LogGrows
<1>6. ASSUME InLoop(t), UNCHANGED <<phase, terminalEmitted, streamError, stopCall>>
      PROVE  SpeaksOK(t)'
  <2>1. CASE log' = log
    BY <1>2, <1>3, <1>4, <1>6, <2>1 DEF SpeaksOK, InLoop
  <2>2. ASSUME NEW es \in Seq(Event), Emit(t, es),
               \A k \in 1 .. Len(es) : es[k].type \notin Terminal
        PROVE  SpeaksOK(t)'
    <3>1. /\ TerminalsOf(t) # {} => TerminalsOf(t)' # {}
          /\ Spoke(t) => Spoke(t)'
      BY <1>5, <2>2
    <3>2. LastIsTerminal(SessionOf[t])' =>
             (Spoke(t)' <=> Spoke(t)) /\ LastIsTerminal(SessionOf[t])
      <4> SUFFICES ASSUME LastIsTerminal(SessionOf[t])'
                   PROVE  (Spoke(t)' <=> Spoke(t)) /\ LastIsTerminal(SessionOf[t])
        OBVIOUS
      <4>1. log'[SessionOf[t]] = log[SessionOf[t]]
        BY <1>1, <2>2, LastLogged
      <4>2. QED  BY <4>1 DEF Spoke, TaskLog, LastIsTerminal
    <3>3. QED  BY <1>2, <1>3, <1>6, <3>1, <3>2 DEF SpeaksOK, InLoop
  <2>3. ~StreamTerminal(t) /\ ~Drained(t) /\ ~StopReturned(t)
    BY <1>1, <1>6 DEF StreamTerminal, Opened, Drained, StopReturned
  <2>4. QED  BY <2>1, <2>2, <2>3, WhatIsLogged
<1>7. CASE \/ StartTask(t) \/ RunTask(t) \/ SkipTask(t) \/ Settle(t)
           \/ RuntimeStarted(t) \/ RuntimeStartFailed(t) \/ DrainRejected(t)
  <2>1. /\ log' = log /\ worker' = worker
        /\ UNCHANGED <<terminalEmitted, streamError>>
    BY <1>7 DEF StartTask, RunTask, SkipTask, Settle, RuntimeStarted,
       RuntimeStartFailed, DrainRejected, streamVars, toolVars
  <2>2. \/ /\ phase[t] \in {"idle", "queued", "starting"}
           /\ phase'[t] \in {"queued", "starting", "settling"}
           /\ handleReady' = handleReady
        \/ phase[t] = "starting" /\ phase'[t] = "streaming"
        \/ phase[t] = "settling" /\ phase'[t] = "settled" /\ handleReady' = handleReady
        \/ phase[t] = "draining" /\ phase'[t] = "settling" /\ Broken(t)
    BY <1>1, <1>7 DEF StartTask, RunTask, SkipTask, Settle, RuntimeStarted,
       RuntimeStartFailed, DrainRejected, streamVars, Broken
  <2>3. QED  BY <1>2, <1>3, <1>4, <2>1, <2>2 DEF SpeaksOK, InLoop, Broken
<1>8. CASE StreamOutput(t) \/ \E c \in Calls : StreamToolRequest(t, c)
  BY <1>6, <1>8 DEF StreamOutput, StreamToolRequest, Opened, InLoop, lockVars, stopVars,
     streamVars
<1>9. CASE StreamTerminal(t)
  <2>1. PICK type \in Terminal : Emit(t, <<TaskEvent(t, type)>>)
    BY <1>9, EngineAssumption DEF StreamTerminal, Terminal
  <2>2. TerminalsOf(t)' # {}
    BY <1>1, <2>1, EndLogged
  <2>3. phase'[t] = "streaming" /\ terminalEmitted'[t]
    BY <1>1, <1>9 DEF StreamTerminal, Opened, lockVars
  <2>4. QED  BY <2>2, <2>3 DEF SpeaksOK, InLoop
<1>10. CASE StreamEnded(t) \/ StreamFailed(t)
  <2>1. /\ log' = log /\ phase[t] = "streaming" /\ phase'[t] = "draining"
        /\ terminalEmitted' = terminalEmitted
    BY <1>1, <1>10 DEF StreamEnded, StreamFailed, LeaveLoop
  <2>2. Spoke(t) \/ streamError'[t]
    <3>1. CASE StreamEnded(t)
      <4>1. Outputs(t) > 0
        BY <3>1 DEF StreamEnded
      <4>2. {i \in 1 .. Len(TaskLog(t)) : TaskLog(t)[i] = TaskEvent(t, "output")} # {}
        <5>1. SUFFICES ASSUME {i \in 1 .. Len(TaskLog(t)) :
                                  TaskLog(t)[i] = TaskEvent(t, "output")} = {}
                       PROVE  FALSE
          OBVIOUS
        <5>2. Outputs(t) = 0
          BY <5>1, FS_EmptySet DEF Outputs
        <5>3. QED  BY <4>1, <5>2
      <4>3. TaskEvent(t, "output").task = t
        BY DEF TaskEvent
      <4>4. PICK i \in 1 .. Len(TaskLog(t)) : TaskLog(t)[i] = TaskEvent(t, "output")
        BY <4>2
      <4>5. TaskLog(t)[i].task = t
        BY <4>3, <4>4
      <4>6. QED  BY <4>4, <4>5 DEF Spoke
    <3>2. CASE StreamFailed(t)
      BY <1>1, <3>2 DEF StreamFailed
    <3>3. QED  BY <1>10, <3>1, <3>2
  <2>3. QED  BY <1>2, <1>3, <1>4, <2>1, <2>2 DEF SpeaksOK, InLoop
<1>11. CASE Drained(t)
  <2>1. /\ phase[t] = "draining" /\ phase'[t] = "settling"
        /\ UNCHANGED <<terminalEmitted, streamError, handleReady>>
    BY <1>1, <1>11 DEF Drained, streamVars
  <2>2. \/ terminalEmitted[t] /\ log' = log
        \/ ~terminalEmitted[t] /\ LastIsTerminal(SessionOf[t]) /\ log' = log
        \/ \E type \in Terminal : Emit(t, <<TaskEvent(t, type)>>)
    BY <1>11 DEF Drained, NeedsTerminal, EmitTerminal, Terminal
  <2>3. ASSUME NEW type \in Terminal, Emit(t, <<TaskEvent(t, type)>>)
        PROVE  TerminalsOf(t)' # {} /\ Spoke(t)'
    <3>1. TerminalsOf(t)' # {}
      BY <1>1, <2>3, EndLogged
    <3>2. QED  BY <3>1 DEF TerminalsOf, Spoke
  <2>4. CASE log' = log
    <3>1. terminalEmitted[t] => TerminalsOf(t) # {}
      BY <1>2 DEF SpeaksOK
    <3>2. Spoke(t) /\ Uninterrupted(t) =>
             \/ TerminalsOf(t) # {}
             \/ \E type \in Terminal : Emit(t, <<TaskEvent(t, type)>>)
      BY <1>2, <2>1, <2>2, <3>1 DEF SpeaksOK, InLoop
    <3>3. Spoke(t) \/ streamError[t]
      BY <1>2, <2>1 DEF SpeaksOK
    <3>4. QED  BY <1>3, <1>4, <2>1, <2>3, <2>4, <3>1, <3>2, <3>3 DEF SpeaksOK, InLoop
  <2>5. CASE \E type \in Terminal : Emit(t, <<TaskEvent(t, type)>>)
    BY <2>1, <2>3, <2>5 DEF SpeaksOK, InLoop
  <2>6. QED  BY <2>2, <2>4, <2>5
<1>12. CASE ToolStep(t)
  <2>1. InLoop(t)
    <3>1. CASE BeginToolCall(t)
      BY <3>1 DEF BeginToolCall, ToolInv, QueuedInLoop, InLoop
    <3>2. CASE ~BeginToolCall(t)
      <4>1. worker[t].pc \in {"decided", "executing", "reporting", "denying"}
        BY <1>12, <3>2 DEF ToolStep, AfterDecision, ToolOutput, ToolReturned,
           ToolCallThrows, ToolCallDone
      <4>2. QED  BY <4>1 DEF ToolInv, NoToolOutlivesTask, InLoop
    <3>3. QED  BY <3>1, <3>2
  <2>2. UNCHANGED <<phase, terminalEmitted, streamError, stopCall>>
    BY <1>12 DEF ToolStep, BeginToolCall, AfterDecision, ToolOutput, ToolReturned,
       ToolCallThrows, ToolCallDone, lockVars, stopVars, streamVars
  <2>3. QED  BY <1>6, <2>1, <2>2
<1>13. CASE StopStep(t)
  <2>1. /\ UNCHANGED <<phase, handleReady, terminalEmitted, streamError>>
        /\ ~Uninterrupted(t)'
    <3>1. CASE Stop(t)
      BY <1>1, <3>1 DEF Stop, lockVars, streamVars, Uninterrupted, SameSession
    <3>2. CASE StopReturned(t) \/ StopFailed(t)
      BY <1>3, <3>2 DEF StopReturned, StopFailed, lockVars, streamVars
    <3>3. QED  BY <1>13, <3>1, <3>2 DEF StopStep
  <2>2. CASE log' = log
    BY <1>2, <1>3, <1>4, <2>1, <2>2 DEF SpeaksOK, InLoop
  <2>3. CASE log' # log
    <3>1. StopReturned(t)
      BY <1>13, <2>3 DEF StopStep, Stop, StopFailed
    <3>2. handleReady[t]
      BY <3>1 DEF StopReturned
    <3>3. PICK es \in Seq(Event) : Emit(t, es)
      BY <2>3, WhatIsLogged
    <3>4. QED  BY <1>2, <1>3, <1>5, <2>1, <3>2, <3>3 DEF SpeaksOK, InLoop
  <2>4. QED  BY <2>2, <2>3
<1>14. QED
  BY <1>7, <1>8, <1>9, <1>10, <1>11, <1>12, <1>13 DEF TaskStep, StopStep

\* Every step keeps what is known of what the tasks have said.
LEMMA NextSpeaks ==
    ASSUME TypeOK, LockInv, ToolInv, EndInv, SpeakInv, [Next]_vars
    PROVE  SpeakInv'
<1>1. CASE UserStep \/ UNCHANGED vars
  <2>1. UNCHANGED <<phase, stopRequested, handleReady, terminalEmitted, streamError, log>>
    BY <1>1 DEF UserStep, Approve, Deny, vars, lockVars, stopVars, streamVars
  <2>2. ASSUME NEW t \in Tasks
        PROVE  SpeaksOK(t)'
    <3>1. SpeaksOK(t)
      BY DEF SpeakInv
    <3>2. Broken(t) => Broken(t)'
      BY BrokenStays
    <3>3. /\ TerminalsOf(t)' = TerminalsOf(t) /\ (Spoke(t)' <=> Spoke(t))
          /\ LastIsTerminal(SessionOf[t])' <=> LastIsTerminal(SessionOf[t])
          /\ Uninterrupted(t)' <=> Uninterrupted(t)
      BY <2>1 DEF TerminalsOf, Spoke, TaskLog, LastIsTerminal, Uninterrupted, SameSession
    <3>4. QED  BY <2>1, <3>1, <3>2, <3>3 DEF SpeaksOK, InLoop
  <2>3. QED  BY <2>2 DEF SpeakInv
<1>2. ASSUME NEW t \in Tasks, TaskStep(t) \/ ToolStep(t) \/ StopStep(t)
      PROVE  SpeakInv'
  <2>1. SpeaksOK(t)'
    BY <1>2, OwnSpeaks
  <2>2. \A u \in Tasks \ {t} : SpeaksOK(u)'
    BY <1>2, OtherSpeaks
  <2>3. QED  BY <2>1, <2>2 DEF SpeakInv
<1>3. QED  BY <1>1, <1>2 DEF Next

\* Nothing has been said at first.
LEMMA InitSpeaks == ASSUME Init PROVE SpeakInv
<1>1. \A s \in Sessions : Len(log[s]) = 0
  BY DEF Init
<1>2. \A t \in Tasks : ~Spoke(t)
  BY <1>1, EngineAssumption DEF Spoke, TaskLog
<1>3. QED  BY <1>2 DEF Init, SpeakInv, SpeaksOK, InLoop

\* What is known of the ends of the tasks holds in every reachable state.
LEMMA EndsCorrect == Spec => []EndInv
<1>1. Init => EndInv
  BY InitEnds
<1>2. TypeOK /\ EndInv /\ [Next]_vars => EndInv'
  BY NextEnds
<1>3. QED  BY <1>1, <1>2, TypeCorrect, PTL DEF Spec

\* The documented "exactly one terminal event per task" of runTask in
\* src/src/executor/engine.ts, for every task that nothing disturbed.
THEOREM UndisturbedEndOnce == Spec => []ExactlyOneTerminal
<1>1. Init => SpeakInv
  BY InitSpeaks
<1>2. TypeOK /\ LockInv /\ ToolInv /\ EndInv /\ SpeakInv /\ [Next]_vars => SpeakInv'
  BY NextSpeaks
<1>3. Spec => []SpeakInv
  BY <1>1, <1>2, LockCorrect, ToolsCorrect, EndsCorrect, PTL DEF Spec
<1>4. EndInv /\ SpeakInv => ExactlyOneTerminal
  <2> SUFFICES ASSUME EndInv, SpeakInv, NEW t \in Tasks,
                      phase[t] = "settled", handleReady[t],
                      ~streamError[t] \/ Spoke(t), ~Broken(t), Uninterrupted(t)
               PROVE  Cardinality(TerminalsOf(t)) = 1
    BY DEF ExactlyOneTerminal
  <2>1. TerminalsOf(t) # {}
    BY DEF SpeakInv, SpeaksOK
  <2>2. \A i, j \in TerminalsOf(t) : i = j
    BY DEF EndInv, EndOK, Uninterrupted, SameSession
  <2>3. \E i : TerminalsOf(t) = {i}
    BY <2>1, <2>2
  <2>4. QED  BY <2>3, FS_Singleton
<1>5. QED  BY <1>3, <1>4, EndsCorrect, PTL
=============================================================================
