-------------------------- MODULE SessionQueueProofs --------------------------
(***************************************************************************)
(* The engine's chain of promises implements SessionQueue, for any number  *)
(* of sessions and tasks: every step of the engine is a step of the queue  *)
(* or leaves turn and stage alone.  And no session comes to a halt.        *)
(***************************************************************************)
EXTENDS ExecutorEngineProofs

\* A locked session's lock is that of its latest task.
LatestLock ==
    \A s \in Sessions : sessionLocks[s] # NoTask =>
        \A u \in Tasks : SessionOf[u] = s /\ ticket[u] # 0
                             => ticket[u] <= ticket[sessionLocks[s]]

\* A task waits for the one right before it in its session.
PredIsPrevious ==
    \A t \in Tasks : phase[t] = "queued" /\ pred[t] # NoTask =>
        /\ SameSession(pred[t], t)
        /\ ticket[pred[t]] # 0
        /\ ticket[pred[t]] < ticket[t]
        /\ \A u \in Tasks : SameSession(u, t) /\ ticket[u] # 0 /\ ticket[u] < ticket[t]
                                => ticket[u] <= ticket[pred[t]]

\* A lock is fulfilled only when its task is over.
ResolvedWhenOver ==
    \A t \in Tasks : resolved[t] => phase[t] \in {"settling", "settled"}

QueueInv == LatestLock /\ PredIsPrevious /\ ResolvedWhenOver
EngineInv == TypeOK /\ LockInv /\ QueueInv

-----------------------------------------------------------------------------
\* resolved changes only where runTask returns.
LEMMA ResolvedFrame ==
    ASSUME TypeOK, [Next]_vars, NEW t \in Tasks, resolved'[t] # resolved[t]
    PROVE  phase[t] = "draining" /\ phase'[t] = "settling"
<1>1. CASE UserStep \/ UNCHANGED vars
  BY <1>1 DEF UserStep, Approve, Deny, vars, lockVars
<1>2. ASSUME NEW u \in Tasks, ToolStep(u) \/ StopStep(u)
      PROVE  FALSE
  BY <1>2 DEF ToolStep, StopStep, BeginToolCall, AfterDecision, ToolOutput,
              ToolReturned, ToolCallThrows, ToolCallDone, Stop, StopReturned,
              StopFailed, lockVars
<1>3. ASSUME NEW u \in Tasks, TaskStep(u), ~Drained(u)
      PROVE  FALSE
  BY <1>3 DEF TaskStep, StartTask, RunTask, SkipTask, Settle, RuntimeStarted,
              RuntimeStartFailed, StreamOutput, StreamTerminal, StreamEnded,
              StreamFailed, LeaveLoop, StreamToolRequest, DrainRejected, lockVars
<1>4. ASSUME NEW u \in Tasks, Drained(u)
      PROVE  phase[t] = "draining" /\ phase'[t] = "settling"
  <2>1. u = t
    BY <1>4 DEF Drained, TypeOK, LockTypeOK
  <2>2. QED  BY <1>4, <2>1 DEF Drained, TypeOK, LockTypeOK
<1>5. QED  BY <1>1, <1>2, <1>3, <1>4 DEF Next

\* A task that does not move keeps its stage, and so does one whose .finally runs.
LEMMA StageFrame ==
    ASSUME TypeOK, [Next]_vars, NEW t \in Tasks,
           \/ phase'[t] = phase[t]
           \/ phase[t] = "settling" /\ phase'[t] = "settled"
    PROVE  Stage(t)' = Stage(t)
<1>1. resolved'[t] = resolved[t]
  BY ResolvedFrame
<1>2. QED  BY <1>1 DEF Stage, Outcome, Running

\* The map of stages changes at t alone.
LEMMA StageUpdate ==
    ASSUME TypeOK, [Next]_vars, NEW t \in Tasks, NEW p,
           phase' = [phase EXCEPT ![t] = p]
    PROVE  [u \in Tasks |-> Stage(u)'] =
               [[u \in Tasks |-> Stage(u)] EXCEPT ![t] = Stage(t)']
<1>1. ASSUME NEW u \in Tasks, u # t
      PROVE  Stage(u)' = Stage(u)
  <2>1. phase'[u] = phase[u]
    BY <1>1 DEF TypeOK, LockTypeOK
  <2>2. QED  BY <2>1, StageFrame
<1>2. QED  BY <1>1

-----------------------------------------------------------------------------
(* The invariant is inductive.                                             *)

\* No task has called startTask at first.
LEMMA InitQueueInv == ASSUME Init PROVE QueueInv
BY DEF Init, QueueInv, LatestLock, PredIsPrevious, ResolvedWhenOver

\* Every step keeps locks fulfilled only for tasks that are over.
LEMMA NextResolved ==
    ASSUME TypeOK, ResolvedWhenOver, [Next]_vars
    PROVE  ResolvedWhenOver'
<1> SUFFICES ASSUME NEW t \in Tasks, resolved'[t]
             PROVE  phase'[t] \in {"settling", "settled"}
  BY DEF ResolvedWhenOver
<1>1. CASE resolved'[t] # resolved[t]
  BY <1>1, ResolvedFrame
<1>2. CASE resolved'[t] = resolved[t]
  <2>1. phase[t] \in {"settling", "settled"}
    BY <1>2 DEF ResolvedWhenOver
  <2>2. phase'[t] = phase[t] \/ phase'[t] = "settled"
    <3>1. ASSUME NEW u \in Tasks, StartTask(u) \/ RunTask(u) \/ SkipTask(u)
                                      \/ Settle(u) \/ Advance(u)
          PROVE  phase'[t] = phase[t] \/ phase'[t] = "settled"
      BY <2>1, <3>1 DEF StartTask, RunTask, SkipTask, Settle, Advance, TypeOK, LockTypeOK
    <3>2. QED  BY <3>1, LockSteps
  <2>3. QED  BY <2>1, <2>2
<1>3. QED  BY <1>1, <1>2

\* startTask chains the new task behind the latest one of its session.
LEMMA StartKeepsOrder ==
    ASSUME TypeOK, LockInv, LatestLock, PredIsPrevious,
           NEW t \in Tasks, StartTask(t)
    PROVE  LatestLock' /\ PredIsPrevious'
<1> DEFINE n == Cardinality(Started) + 1
<1>1. /\ n \in Nat
      /\ ticket' = [ticket EXCEPT ![t] = n]
      /\ \A u \in Tasks : ticket[u] \in Nat /\ ticket[u] < n
  <2>1. Cardinality(Started) \in Nat
    BY StartedFinite
  <2>2. ticket' = [ticket EXCEPT ![t] = n]
    BY DEF StartTask, Started
  <2>3. \A u \in Tasks : ticket[u] \in Nat /\ ticket[u] <= Cardinality(Started)
    BY DEF TypeOK, LockTypeOK, LockInv, TicketsOK
  <2>4. QED  BY <2>1, <2>2, <2>3
<1>2. /\ \A u \in Tasks : u # t => ticket'[u] = ticket[u]
      /\ ticket'[t] = n
  BY <1>1 DEF TypeOK, LockTypeOK
<1>3. SessionOf[t] \in Sessions /\ NoTask \notin Tasks
  BY EngineAssumption
<1>4. /\ sessionLocks' = [sessionLocks EXCEPT ![SessionOf[t]] = t]
      /\ pred' = [pred EXCEPT ![t] = sessionLocks[SessionOf[t]]]
      /\ phase' = [phase EXCEPT ![t] = "queued"]
      /\ phase[t] = "idle"
  BY DEF StartTask
<1>5. ticket[t] = 0
  BY <1>4 DEF LockInv, TicketsOK
<1> HIDE DEF n
<1>6. LatestLock'
  <2> SUFFICES ASSUME NEW s \in Sessions, sessionLocks'[s] # NoTask,
                      NEW u \in Tasks, SessionOf[u] = s, ticket'[u] # 0
               PROVE  ticket'[u] <= ticket'[sessionLocks'[s]]
    BY DEF LatestLock
  <2>1. CASE s = SessionOf[t]
    <3>1. sessionLocks'[s] = t
      BY <1>3, <1>4, <2>1 DEF TypeOK, LockTypeOK
    <3>2. QED  BY <3>1, <1>1, <1>2
  <2>2. CASE s # SessionOf[t]
    <3>1. sessionLocks'[s] = sessionLocks[s]
      BY <1>4, <2>2 DEF TypeOK, LockTypeOK
    <3>2. sessionLocks[s] \in Tasks /\ sessionLocks[s] # t
      BY <3>1, <2>2 DEF TypeOK, LockTypeOK, LockInv, MapOK
    <3>3. u # t
      BY <2>2
    <3>4. QED  BY <1>2, <3>1, <3>2, <3>3 DEF LatestLock
  <2>3. QED  BY <2>1, <2>2
<1>7. PredIsPrevious'
  <2> SUFFICES ASSUME NEW u \in Tasks, phase'[u] = "queued", pred'[u] # NoTask
               PROVE  /\ SameSession(pred'[u], u)
                      /\ ticket'[pred'[u]] # 0
                      /\ ticket'[pred'[u]] < ticket'[u]
                      /\ \A v \in Tasks : SameSession(v, u) /\ ticket'[v] # 0
                                            /\ ticket'[v] < ticket'[u]
                                => ticket'[v] <= ticket'[pred'[u]]
    BY DEF PredIsPrevious, SameSession
  <2>1. CASE u = t
    <3> DEFINE p == sessionLocks[SessionOf[t]]
    <3>1. pred'[u] = p
      BY <1>4, <2>1 DEF TypeOK, LockTypeOK
    <3>2. /\ p \in Tasks
          /\ SessionOf[p] = SessionOf[t]
          /\ Unsettled(p)
      BY <1>3, <3>1 DEF TypeOK, LockTypeOK, LockInv, MapOK
    <3>3. p # t /\ ticket[p] # 0
      BY <1>4, <1>5, <3>2 DEF LockInv, TicketsOK, Unsettled
    <3>4. \A v \in Tasks : SessionOf[v] = SessionOf[t] /\ ticket[v] # 0 => ticket[v] <= ticket[p]
      BY <1>3, <3>2 DEF LatestLock, EngineAssumption
    <3> HIDE DEF p
    <3>5. QED
      BY <1>1, <1>2, <2>1, <3>1, <3>2, <3>3, <3>4 DEF SameSession
  <2>2. CASE u # t
    <3>1. phase[u] = "queued" /\ pred'[u] = pred[u]
      BY <1>4, <2>2 DEF TypeOK, LockTypeOK
    <3>2. pred[u] \in Tasks
      BY <3>1 DEF TypeOK, LockTypeOK
    <3>3. /\ SameSession(pred[u], u)
          /\ ticket[pred[u]] # 0
          /\ ticket[pred[u]] < ticket[u]
          /\ \A v \in Tasks : SameSession(v, u) /\ ticket[v] # 0 /\ ticket[v] < ticket[u]
                                => ticket[v] <= ticket[pred[u]]
      BY <3>1 DEF PredIsPrevious
    <3>4. pred[u] # t
      BY <1>5, <3>3
    <3>5. ASSUME NEW v \in Tasks, SameSession(v, u), ticket'[v] # 0, ticket'[v] < ticket'[u]
          PROVE  ticket'[v] <= ticket'[pred[u]]
      <4>1. v # t
        BY <1>1, <1>2, <2>2, <3>5
      <4>2. QED  BY <1>2, <2>2, <3>2, <3>3, <3>4, <3>5, <4>1
    <3>6. QED  BY <1>2, <2>2, <3>1, <3>2, <3>3, <3>4, <3>5
  <2>3. QED  BY <2>1, <2>2
<1>8. QED  BY <1>6, <1>7

\* No other step changes the order of a session.
LEMMA NextOrder ==
    ASSUME TypeOK, LockInv, LatestLock, PredIsPrevious, [Next]_vars
    PROVE  LatestLock' /\ PredIsPrevious'
<1>1. CASE UNCHANGED <<phase, pred, ticket, sessionLocks>>
  BY <1>1 DEF LatestLock, PredIsPrevious, SameSession
<1>2. ASSUME NEW t \in Tasks, RunTask(t) \/ SkipTask(t) \/ Settle(t) \/ Advance(t)
      PROVE  LatestLock' /\ PredIsPrevious'
  <2>1. /\ UNCHANGED <<pred, ticket>>
        /\ \A u \in Tasks : phase'[u] = "queued" => phase[u] = "queued"
    BY <1>2 DEF RunTask, SkipTask, Settle, Advance, TypeOK, LockTypeOK
  <2>2. \A s \in Sessions : sessionLocks'[s] # NoTask => sessionLocks'[s] = sessionLocks[s]
    BY <1>2 DEF RunTask, SkipTask, Settle, Advance, Unlock, TypeOK, LockTypeOK
  <2>3. LatestLock'
    BY <2>1, <2>2 DEF LatestLock
  <2>4. QED  BY <2>1, <2>3 DEF PredIsPrevious, SameSession
<1>3. QED  BY <1>1, <1>2, LockSteps, StartKeepsOrder

\* The strengthened invariant holds in every reachable state.
LEMMA EngineInvHolds == Spec => []EngineInv
<1>1. Init => EngineInv
  BY InitType, InitLock, InitQueueInv DEF EngineInv
<1>2. EngineInv /\ [Next]_vars => EngineInv'
  BY NextType, NextLock, NextOrder, NextResolved DEF EngineInv, QueueInv
<1>3. QED  BY <1>1, <1>2, PTL DEF Spec

-----------------------------------------------------------------------------
(* Every step of the engine is a step of the queue.                        *)

StageMap == [t \in Tasks |-> Stage(t)]

\* Initially no task was started.
LEMMA InitMapsToInit == ASSUME Init PROVE Queue!QueueInit
BY DEF Init, Queue!QueueInit, Stage, Outcome, Running

\* The queue counts as the engine does.
LEMMA SameCardinality == \A S : Queue!Cardinality(S) = Cardinality(S)
BY DEF Queue!Cardinality, Cardinality

\* startTask is Enqueue.
LEMMA StartIsEnqueue ==
    ASSUME TypeOK, [Next]_vars, NEW t \in Tasks, StartTask(t)
    PROVE  Queue!Enqueue(t)
<1>1. /\ phase[t] = "idle"
      /\ phase' = [phase EXCEPT ![t] = "queued"]
      /\ ticket' = [ticket EXCEPT ![t] = Cardinality({u \in Tasks : phase[u] # "idle"}) + 1]
  BY DEF StartTask
<1>2. StageMap' = [StageMap EXCEPT ![t] = Stage(t)']
  BY <1>1, StageUpdate DEF StageMap
<1>3. Stage(t)' = "queued"
  BY <1>1 DEF Stage, Outcome, Running, TypeOK, LockTypeOK
<1>4. \A u \in Tasks : Stage(u) # "idle" <=> phase[u] # "idle"
  BY DEF Stage, Outcome, Running
<1>5. {u \in Tasks : StageMap[u] # "idle"} = {u \in Tasks : phase[u] # "idle"}
  BY <1>4 DEF StageMap
<1>6. StageMap[t] = "idle"
  BY <1>1, <1>4 DEF StageMap
<1>7. QED  BY <1>1, <1>2, <1>3, <1>5, <1>6, SameCardinality DEF Queue!Enqueue, StageMap

\* When a task has its turn, all that came before it are over.
LEMMA EarlierAreOver ==
    ASSUME EngineInv, EngineInv', NEW t \in Tasks,
           phase[t] = "queued", Begun(t)', ticket' = ticket,
           \A u \in Tasks : u # t => phase'[u] = phase[u]
    PROVE  \A u \in Tasks : Queue!Earlier(u, t) => Queue!Over(u)
<1> SUFFICES ASSUME NEW u \in Tasks, SessionOf[u] = SessionOf[t],
                    ticket[u] # 0, ticket[u] < ticket[t]
             PROVE  StageMap[u] \in {"fulfilled", "rejected"}
  BY DEF Queue!Earlier, Queue!Over, StageMap
<1>1. u # t
  BY DEF EngineInv, TypeOK, LockTypeOK
<1>2. phase'[u] = "settled"
  BY DEF EngineInv, LockInv, SessionFifo, SameSession
<1>3. phase[u] = "settled"
  BY <1>1, <1>2
<1>4. QED  BY <1>3 DEF StageMap, Stage, Outcome, Running

\* runTask's call of runtime.startTask is Begin.
LEMMA RunIsBegin ==
    ASSUME EngineInv, EngineInv', [Next]_vars, NEW t \in Tasks, RunTask(t)
    PROVE  Queue!Begin(t)
<1>1. /\ phase[t] = "queued"
      /\ phase' = [phase EXCEPT ![t] = "starting"]
      /\ ticket' = ticket
  BY DEF RunTask
<1>2. TypeOK
  BY DEF EngineInv
<1>3. StageMap' = [StageMap EXCEPT ![t] = Stage(t)']
  BY <1>1, <1>2, StageUpdate DEF StageMap
<1>4. phase'[t] = "starting" /\ \A u \in Tasks : u # t => phase'[u] = phase[u]
  BY <1>1, <1>2 DEF TypeOK, LockTypeOK
<1>5. Stage(t)' = "running"
  BY <1>4 DEF Stage, Outcome, Running
<1>6. StageMap[t] = "queued"
  BY <1>1 DEF StageMap, Stage, Outcome, Running
<1>7. \A u \in Tasks : Queue!Earlier(u, t) => Queue!Over(u)
  BY <1>1, <1>4, EarlierAreOver DEF Begun
<1>8. QED  BY <1>1, <1>3, <1>5, <1>6, <1>7 DEF Queue!Begin, StageMap

\* Inheriting a rejection is Skip.
LEMMA SkipIsSkip ==
    ASSUME EngineInv, EngineInv', [Next]_vars, NEW t \in Tasks, SkipTask(t)
    PROVE  Queue!Skip(t)
<1>1. /\ phase[t] = "queued"
      /\ phase' = [phase EXCEPT ![t] = "settling"]
      /\ ticket' = ticket
      /\ resolved' = resolved
      /\ pred[t] # NoTask
      /\ phase[pred[t]] = "settled"
      /\ ~resolved[pred[t]]
  BY DEF SkipTask
<1>2. TypeOK
  BY DEF EngineInv
<1>3. StageMap' = [StageMap EXCEPT ![t] = Stage(t)']
  BY <1>1, <1>2, StageUpdate DEF StageMap
<1>4. phase'[t] = "settling" /\ \A u \in Tasks : u # t => phase'[u] = phase[u]
  BY <1>1, <1>2 DEF TypeOK, LockTypeOK
<1>5. ~resolved[t]
  BY <1>1 DEF EngineInv, QueueInv, ResolvedWhenOver
<1>6. Stage(t)' = "rejected"
  BY <1>1, <1>4, <1>5 DEF Stage, Outcome, Running
<1>7. StageMap[t] = "queued"
  BY <1>1 DEF StageMap, Stage, Outcome, Running
<1>8. \A u \in Tasks : Queue!Earlier(u, t) => Queue!Over(u)
  BY <1>1, <1>4, EarlierAreOver DEF Begun
<1>9. pred[t] \in Tasks
  BY <1>1, <1>2 DEF TypeOK, LockTypeOK
<1>10. StageMap[pred[t]] = "rejected"
  BY <1>1, <1>9 DEF StageMap, Stage, Outcome, Running
<1>11. /\ Queue!Earlier(pred[t], t)
       /\ \A v \in Tasks : Queue!Earlier(v, t) => ticket[v] <= ticket[pred[t]]
  BY <1>1, <1>9 DEF Queue!Earlier, EngineInv, QueueInv, PredIsPrevious, SameSession
<1>12. QED
  BY <1>1, <1>3, <1>6, <1>7, <1>8, <1>9, <1>10, <1>11 DEF Queue!Skip, StageMap

\* A running task goes on running, or finishes with either outcome.
LEMMA AdvanceIsFinish ==
    ASSUME TypeOK, [Next]_vars, NEW t \in Tasks, Advance(t)
    PROVE  Queue!Finish(t) \/ UNCHANGED <<ticket, StageMap>>
<1>1. PICK p \in {"streaming", "draining", "settling"} :
          phase' = [phase EXCEPT ![t] = p]
  BY DEF Advance
<1>2. Running(t) /\ ticket' = ticket
  BY DEF Advance, Running
<1>3. StageMap' = [StageMap EXCEPT ![t] = Stage(t)']
  BY <1>1, StageUpdate DEF StageMap
<1>4. phase'[t] = p
  BY <1>1 DEF TypeOK, LockTypeOK
<1>5. StageMap[t] = "running"
  BY <1>2 DEF StageMap, Stage, Outcome, Running
<1>6. CASE p = "settling"
  <2>1. Stage(t)' \in {"fulfilled", "rejected"}
    BY <1>4, <1>6 DEF Stage, Outcome, Running
  <2>2. QED  BY <1>2, <1>3, <1>5, <2>1 DEF Queue!Finish, StageMap
<1>7. CASE p # "settling"
  <2>1. Stage(t)' = "running"
    BY <1>4, <1>7 DEF Stage, Outcome, Running
  <2>2. StageMap' = StageMap
    BY <1>3, <1>5, <2>1 DEF StageMap
  <2>3. QED  BY <1>2, <2>2
<1>8. QED  BY <1>6, <1>7

\* The .finally of a lock, and every other step, are invisible.
LEMMA SettleIsInvisible ==
    ASSUME TypeOK, [Next]_vars, NEW t \in Tasks, Settle(t)
    PROVE  UNCHANGED <<ticket, StageMap>>
<1>1. phase[t] = "settling" /\ phase'[t] = "settled" /\ ticket' = ticket
  BY DEF Settle, TypeOK, LockTypeOK
<1>2. phase' = [phase EXCEPT ![t] = "settled"]
  BY DEF Settle
<1>3. StageMap' = [StageMap EXCEPT ![t] = Stage(t)']
  BY <1>2, StageUpdate DEF StageMap
<1>4. Stage(t)' = Stage(t)
  BY <1>1, StageFrame
<1>5. QED  BY <1>1, <1>3, <1>4 DEF StageMap

\* Every step of the engine is a step of the queue, or invisible in it.
LEMMA StepMapsToStep ==
    ASSUME EngineInv, EngineInv', [Next]_vars
    PROVE  Queue!QueueNext \/ UNCHANGED <<ticket, StageMap>>
<1>1. TypeOK
  BY DEF EngineInv
<1>2. CASE UNCHANGED <<phase, pred, ticket, sessionLocks>>
  <2>1. \A t \in Tasks : Stage(t)' = Stage(t)
    BY <1>1, <1>2, StageFrame
  <2>2. QED  BY <1>2, <2>1 DEF StageMap
<1>3. QED
  BY <1>1, <1>2, LockSteps, StartIsEnqueue, RunIsBegin, SkipIsSkip,
     AdvanceIsFinish, SettleIsInvisible DEF Queue!QueueNext

\* The engine's promise chains implement the queue per session: turns in the
\* order of the startTask calls, one task at a time, rejections handed on.
THEOREM EngineImplementsQueue == Spec => ImplementsSessionQueue
<1>1. Init => Queue!QueueInit
  BY InitMapsToInit
<1>2. EngineInv /\ EngineInv' /\ [Next]_vars => [Queue!QueueNext]_(Queue!queueVars)
  BY StepMapsToStep DEF Queue!queueVars, StageMap
<1>3. QED  BY <1>1, <1>2, EngineInvHolds, PTL DEF Spec, ImplementsSessionQueue, Queue!QueueSpec

-----------------------------------------------------------------------------
(* A session never comes to a halt.                                        *)

\* A task goes on without another one: what its promise chain waits for is
\* settled, so that RunTask or SkipTask may follow; or it waits for the
\* runtime, the tools or the event loop; or for a user who has been asked,
\* can still answer, and whom stop() would relieve of it.
GoesOn(t) ==
    /\ (phase[t] = "queued" /\ pred[t] # NoTask) => phase[pred[t]] = "settled"
    /\ worker[t].pc = "asking" =>
          /\ ~stopRequested[t]
          /\ pendingToolCalls[SessionOf[t]][worker[t].call.id] =
                 [task |-> t, call |-> worker[t].call]

\* A session with tasks that are not settled has one, none of them before it,
\* that waits for no other: the tasks do not wait for each other in a circle,
\* and none waits for a lock that nobody holds.
SessionGoesOn ==
    \A t \in Tasks : Unsettled(t) =>
        \E u \in Tasks : /\ SameSession(t, u) /\ Unsettled(u)
                         /\ ticket[u] <= ticket[t]
                         /\ GoesOn(u)

\* stop() denies what a task asks the user, and it asks nothing any more.
StoppedNeverAsks == \A t \in Tasks : stopRequested[t] => worker[t].pc # "asking"

\* cancelPendingToolCallsForTask leaves no handler of its task waiting.
LEMMA CancelFrees ==
    ASSUME TypeOK, ToolInv, NEW t \in Tasks, CancelPending(t)
    PROVE  worker'[t].pc # "asking"
<1> DEFINE s == SessionOf[t]
           own == {id \in Ids : pendingToolCalls[s][id].task = t}
<1>1. worker \in [Tasks -> Workers]
  BY DEF TypeOK, ToolTypeOK, Workers
<1>2. worker' = IF own = {} THEN worker
                ELSE [worker EXCEPT ![t].pc = "decided", ![t].verdict = "deny"]
  BY DEF CancelPending
<1>3. CASE own = {}
  <2>1. SUFFICES ASSUME worker[t].pc = "asking" PROVE FALSE
    BY <1>2, <1>3
  <2>2. worker[t].call \in Calls
    BY <2>1 DEF ToolInv, AskingCall
  <2>3. pendingToolCalls[s][worker[t].call.id] = [task |-> t, call |-> worker[t].call]
    BY <2>1 DEF ToolInv, PendingIffAsking
  <2>4. worker[t].call.id \in own
    BY <2>2, <2>3 DEF Calls
  <2>5. QED  BY <1>3, <2>4
<1>4. CASE own # {}
  <2> HIDE DEF own
  <2>1. QED  BY <1>1, <1>2, <1>4 DEF Workers
<1>5. QED  BY <1>3, <1>4

\* Every step leaves the tasks that are being stopped without a question.
LEMMA NextNeverAsks ==
    ASSUME TypeOK, ToolInv, StoppedNeverAsks, [Next]_vars
    PROVE  StoppedNeverAsks'
<1> SUFFICES ASSUME NEW t \in Tasks, stopRequested'[t]
             PROVE  worker'[t].pc # "asking"
  BY DEF StoppedNeverAsks
<1>1. /\ worker \in [Tasks -> Workers]
      /\ stopRequested \in [Tasks -> BOOLEAN]
      /\ stopRequested[t] => worker[t].pc # "asking"
  BY DEF TypeOK, ToolTypeOK, StreamTypeOK, Workers, StoppedNeverAsks
<1>2. CASE UNCHANGED <<worker, stopRequested>>
  BY <1>1, <1>2
<1>3. CASE UserStep
  <2>1. PICK s \in Sessions, c \in Calls : Approve(s, c) \/ Deny(s, c)
    BY <1>3 DEF UserStep
  <2> DEFINE p == pendingToolCalls[s][c.id]
  <2>2. PICK v \in Verdicts : worker' = [worker EXCEPT ![p.task] = At("decided", p.call, v)]
    BY <2>1 DEF Approve, Deny, Resolve, Verdicts
  <2>3. stopRequested' = stopRequested
    BY <2>1 DEF Approve, Deny, stopVars
  <2>4. worker'[t] = worker[t] \/ worker'[t] = At("decided", p.call, v)
    BY <1>1, <2>2
  <2>5. At("decided", p.call, v).pc = "decided"
    BY DEF At
  <2>6. QED  BY <1>1, <2>3, <2>4, <2>5
<1>4. ASSUME NEW u \in Tasks, CancelPending(u),
             stopRequested' = stopRequested \/ stopRequested' = [stopRequested EXCEPT ![u] = TRUE]
      PROVE  worker'[t].pc # "asking"
  <2>1. CASE u = t
    BY <1>4, <2>1, CancelFrees
  <2>2. CASE u # t
    <3>1. worker'[t] = worker[t]
      BY <1>1, <1>4, <2>2 DEF CancelPending
    <3>2. stopRequested[t]
      BY <1>1, <1>4, <2>2
    <3>3. QED  BY <1>1, <3>1, <3>2
  <2>3. QED  BY <2>1, <2>2
<1>5. ASSUME NEW u \in Tasks, TaskStep(u)
      PROVE  worker'[t].pc # "asking"
  <2>1. stopRequested' = stopRequested /\ (worker' = worker \/ CancelPending(u))
    BY <1>5 DEF TaskStep, StartTask, RunTask, SkipTask, Settle, RuntimeStarted,
       RuntimeStartFailed, StreamOutput, StreamTerminal, StreamEnded, StreamFailed,
       LeaveLoop, StreamToolRequest, Drained, DrainRejected, toolVars, stopVars
  <2>2. QED  BY <1>2, <1>4, <2>1
<1>6. ASSUME NEW u \in Tasks, StopStep(u)
      PROVE  worker'[t].pc # "asking"
  <2>1. CASE Stop(u)
    BY <1>4, <2>1 DEF Stop
  <2>2. CASE StopReturned(u) \/ StopFailed(u)
    BY <1>2, <2>2 DEF StopReturned, StopFailed, toolVars
  <2>3. QED  BY <1>6, <2>1, <2>2 DEF StopStep
<1>7. ASSUME NEW u \in Tasks, ToolStep(u)
      PROVE  worker'[t].pc # "asking"
  <2>1. stopRequested' = stopRequested
    BY <1>7 DEF ToolStep, BeginToolCall, AfterDecision, ToolOutput, ToolReturned,
       ToolCallThrows, ToolCallDone, stopVars
  <2>2. worker'[u].pc # "asking" \/ ~stopRequested[u]
    <3>1. CASE BeginToolCall(u)
      BY <1>1, <3>1 DEF BeginToolCall, Execute, At
    <3>2. CASE AfterDecision(u)
      BY <1>1, <3>2 DEF AfterDecision, Execute, At, Idle
    <3>3. CASE ToolOutput(u) \/ ToolReturned(u) \/ ToolCallThrows(u) \/ ToolCallDone(u)
      BY <1>1, <3>3 DEF ToolOutput, ToolReturned, ToolCallThrows, ToolCallDone, toolVars,
         Idle, Workers
    <3>4. QED  BY <1>7, <3>1, <3>2, <3>3 DEF ToolStep
  <2>3. t # u => worker'[t] = worker[t]
    BY <1>1, <1>7 DEF ToolStep, BeginToolCall, AfterDecision, ToolOutput, ToolReturned,
       ToolCallThrows, ToolCallDone, Execute, toolVars
  <2>4. QED  BY <1>1, <2>1, <2>2, <2>3
<1>8. UNCHANGED vars => UNCHANGED <<worker, stopRequested>>
  BY DEF vars, toolVars, stopVars
<1>9. QED  BY <1>2, <1>3, <1>5, <1>6, <1>7, <1>8 DEF Next

\* A task that stop() was called for waits for no user: neither for one who was
\* asked before, nor for one whom a queued call would ask (src/src/executor/
\* engine.ts, stop, cancelPendingToolCallsForTask and handleToolCall).
THEOREM StopFreesFromUser == Spec => []StoppedNeverAsks
<1>1. Init => StoppedNeverAsks
  BY DEF Init, StoppedNeverAsks
<1>2. TypeOK /\ ToolInv /\ StoppedNeverAsks /\ [Next]_vars => StoppedNeverAsks'
  BY NextNeverAsks
<1>3. QED  BY <1>1, <1>2, ToolsCorrect, PTL DEF Spec

\* Of some tasks, one has the least ticket.
LEMMA FirstTicket ==
    ASSUME LockTypeOK, NEW U \in SUBSET Tasks, U # {}
    PROVE  \E u \in U : \A v \in U : ticket[u] <= ticket[v]
<1> DEFINE Less == {p \in Nat \X Nat : p[1] < p[2]}
           turns == {ticket[u] : u \in U}
<1>1. IsWellFoundedOn(Less, Nat)
  BY NatLessThanWellFounded DEF OpToRel
<1>2. turns \subseteq Nat /\ turns # {}
  BY DEF LockTypeOK
<1> HIDE DEF Less, turns
<1>3. PICK n \in turns : \A m \in turns : ~(<<m, n>> \in Less)
  BY <1>1, <1>2, WFMin
<1>4. ASSUME NEW m \in turns
      PROVE  n <= m
  <2>1. <<m, n>> \in Nat \X Nat /\ <<m, n>>[1] = m /\ <<m, n>>[2] = n
    BY <1>2
  <2>2. ~(m < n)
    BY <1>3, <2>1 DEF Less
  <2>3. QED  BY <1>2, <2>2
<1>5. PICK u \in U : ticket[u] = n
  BY DEF turns
<1>6. QED  BY <1>4, <1>5 DEF turns

\* Whatever fails, is stopped or waits for the user, no session is left with
\* tasks that wait for each other, or for a lock that was never released
\* (sessionLocks of src/src/executor/engine.ts).
THEOREM SessionsGoOn == Spec => []SessionGoesOn
<1>1. EngineInv /\ ToolInv /\ StoppedNeverAsks => SessionGoesOn
  <2> SUFFICES ASSUME EngineInv, ToolInv, StoppedNeverAsks, NEW t \in Tasks, Unsettled(t)
               PROVE  \E u \in Tasks : /\ SameSession(t, u) /\ Unsettled(u)
                                       /\ ticket[u] <= ticket[t]
                                       /\ GoesOn(u)
    BY DEF SessionGoesOn
  <2> DEFINE open == {u \in Tasks : SameSession(t, u) /\ Unsettled(u)}
  <2>1. LockTypeOK /\ t \in open
    BY DEF EngineInv, TypeOK, SameSession
  <2>2. PICK u \in open : \A v \in open : ticket[u] <= ticket[v]
    BY <2>1, FirstTicket
  <2>3. ASSUME phase[u] = "queued", pred[u] # NoTask
        PROVE  phase[pred[u]] = "settled"
    <3>1. pred[u] \in Tasks
      BY <2>1, <2>3 DEF LockTypeOK
    <3>2. SameSession(pred[u], u) /\ ticket[pred[u]] # 0 /\ ticket[pred[u]] < ticket[u]
      BY <2>3 DEF EngineInv, QueueInv, PredIsPrevious
    <3>3. phase[pred[u]] # "idle"
      BY <3>1, <3>2 DEF EngineInv, LockInv, TicketsOK
    <3>4. pred[u] \notin open
      BY <2>1, <2>2, <3>1, <3>2 DEF LockTypeOK
    <3>5. QED  BY <3>1, <3>2, <3>3, <3>4 DEF Unsettled, SameSession
  <2>4. GoesOn(u)
    BY <2>3 DEF GoesOn, ToolInv, PendingIffAsking, StoppedNeverAsks
  <2>5. QED  BY <2>1, <2>2, <2>4
<1>2. QED  BY <1>1, EngineInvHolds, ToolsCorrect, StopFreesFromUser, PTL
=============================================================================
