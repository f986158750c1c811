---------------------------- MODULE GeminiAdapter ----------------------------
(***************************************************************************)
(* src/src/adapters/gemini-cli-core.ts.  The adapter runs the model turn   *)
(* by turn: it streams a turn, waits until every tool call of the turn is  *)
(* answered, and sends the answers as the next turn's request.  Gemini's   *)
(* library reads process.env, which the adapter replaces for the duration  *)
(* of a task and of a session's initialization.                            *)
(***************************************************************************)
EXTENDS AdapterStream

CONSTANT Base   \* the environment the daemon was started with

VARIABLES
    procEnv,   \* process.env: Base, or the session it was replaced for
    saved,     \* what each call of applyProcessEnv will restore
    frames,    \* the calls that are not restored yet, in their order
    tangled,   \* one was restored that was not the last of them
    crossed,   \* the tasks in whose time somebody else replaced or restored it
    clients,   \* the keys of the map `sessions`: initialized, or to be, or not
    creating,  \* creating[s]: where createSession(s) is: "no", "auth", "init"
    toolIds,   \* the tool calls of the current turn, in the stream's order
    pending,   \* the resolved promises of pendingToolCalls
    buffered,  \* the turn has text in its buffer
    halted,    \* the loop's flag `stopped`
    fed        \* every answer that was sent to the model, over all turns

procVars == <<procEnv, saved, frames, tangled, crossed>>
envVars == <<procVars, clients, creating>>
turnVars == <<toolIds, pending, buffered, halted, fed>>
geminiVars == <<envVars, turnVars>>

\* Who calls applyProcessEnv: a task in startTask, and in the ensureSession
\* that it calls; and createSession.
Holders == ({"task", "init"} \X Tasks) \cup ({"create"} \X Sessions)

GeminiInit ==
    /\ procEnv = Base
    /\ saved = [h \in Holders |-> Base]
    /\ frames = << >>
    /\ tangled = FALSE
    /\ crossed = {}
    /\ clients = {}
    /\ creating = [s \in Sessions |-> "no"]
    /\ toolIds = [t \in Tasks |-> << >>]
    /\ pending = [t \in Tasks |-> {}]
    /\ buffered = [t \in Tasks |-> FALSE]
    /\ halted = [t \in Tasks |-> FALSE]
    /\ fed = [t \in Tasks |-> << >>]

\* The tasks between applyProcessEnv and restoreEnv of startTask.
InEnv == {t \in Tasks : loop[t] \in {"joining", "auth", "init", "streaming", "tools"}}

\* Those of them that another holder steps in upon.
Disturbed(holder) == {t \in InEnv : holder # <<"task", t>> /\ holder # <<"init", t>>}

\* applyProcessEnv.
Apply(holder, env) ==
    /\ saved' = [saved EXCEPT ![holder] = procEnv]
    /\ procEnv' = env
    /\ frames' = Append(frames, holder)
    /\ crossed' = crossed \cup Disturbed(holder)
    /\ UNCHANGED tangled

\* The function that applyProcessEnv returned.
Restore(holder) ==
    /\ procEnv' = saved[holder]
    /\ saved' = [saved EXCEPT ![holder] = Base]
    /\ frames' = RemoveAt(frames, CHOOSE i \in 1 .. Len(frames) : frames[i] = holder)
    /\ tangled' = (tangled \/ Last(frames) # holder)
    /\ crossed' = crossed \cup Disturbed(holder)

-----------------------------------------------------------------------------
(* createSession, and resumeSession of a session that is not in the map; the *)
(* daemon starts tasks of a session when its createSession has returned, a  *)
(* program that uses the adapter by itself may start one without.           *)

\* ensureSession up to its await: the session is in the map before it is
\* initialized.
GeminiCreate(s) ==
    /\ s \notin clients
    /\ \E t \in Tasks : sessionOf[t] = s /\ loop[t] = "new"
    /\ \A t \in Tasks : sessionOf[t] = s => loop[t] = "new"
    /\ clients' = clients \cup {s}
    /\ creating' = [creating EXCEPT ![s] = "auth"]
    /\ UNCHANGED <<callerVars, queueVars, loop, attempts, procVars, turnVars>>

GeminiCreateInit(s) ==
    /\ creating[s] = "auth"
    /\ creating' = [creating EXCEPT ![s] = "init"]
    /\ Apply(<<"create", s>>, s)
    /\ UNCHANGED <<callerVars, queueVars, loop, attempts, clients, turnVars>>

\* refreshAuth and initialize succeed or fail.
GeminiCreateDone(s) ==
    /\ creating[s] = "init"
    /\ creating' = [creating EXCEPT ![s] = "no"]
    /\ Restore(<<"create", s>>)
    /\ UNCHANGED <<callerVars, queueVars, loop, attempts, clients, turnVars>>

-----------------------------------------------------------------------------
(* startTask *)

\* startTask up to its await of the implicit sources.
GeminiStart(t) ==
    /\ MayStart(t) /\ creating[sessionOf[t]] = "no"
    /\ Goto(t, "starting")
    /\ UNCHANGED <<callerVars, queueVars, attempts, geminiVars>>

\* model.input, the environment, and ensureSession: a session in the map is
\* returned as it is, a new one is put there before it is initialized.
GeminiEnter(t) ==
    /\ loop[t] = "starting"
    /\ Push(t, <<Plain("model.input")>>)
    /\ Apply(<<"task", t>>, sessionOf[t])
    /\ clients' = clients \cup {sessionOf[t]}
    /\ Goto(t, IF sessionOf[t] \in clients THEN "joining" ELSE "auth")
    /\ UNCHANGED <<callerVars, attempts, creating, turnVars>>

\* After selectGeminiAuthType: the environment again, around the init.
GeminiInitBegin(t) ==
    /\ loop[t] = "auth"
    /\ Apply(<<"init", t>>, sessionOf[t])
    /\ Goto(t, "init")
    /\ UNCHANGED <<callerVars, queueVars, attempts, clients, creating, turnVars>>

\* refreshAuth and initialize succeed; startTask goes on to its handle.
GeminiInitDone(t) ==
    /\ loop[t] = "init"
    /\ Restore(<<"init", t>>)
    /\ Goto(t, "joining")
    /\ UNCHANGED <<callerVars, queueVars, attempts, clients, creating, turnVars>>

\* refreshAuth or initialize rejects, and so does startTask: its own
\* environment is never restored, and the session stays in the map.
GeminiInitFail(t) ==
    /\ loop[t] = "init"
    /\ Restore(<<"init", t>>)
    /\ Goto(t, "rejected")
    /\ UNCHANGED <<callerVars, queueVars, attempts, clients, creating, turnVars>>

\* Anything else in startTask throws, and startTask rejects: before the
\* environment is replaced, or after, when it is never restored either.
GeminiReject(t) ==
    /\ loop[t] \in {"starting", "auth", "joining"}
    /\ Goto(t, "rejected")
    /\ UNCHANGED <<callerVars, queueVars, attempts, geminiVars>>

\* The history and the tools are set, the loop is started, the handle returned.
GeminiOpen(t) ==
    /\ loop[t] = "joining"
    /\ Goto(t, "streaming")
    /\ UNCHANGED <<callerVars, queueVars, attempts, geminiVars>>

\* A Content, Citation or Finished event of the turn.
GeminiText(t) ==
    /\ MayProduce(t, 1)
    /\ \/ /\ Push(t, <<Plain("model.output.delta")>>)
          /\ buffered' = [buffered EXCEPT ![t] = TRUE]
       \/ /\ Push(t, (IF buffered[t] THEN <<Plain("model.output.completed")>> ELSE << >>)
                       \o <<Plain("usage.reported")>>)
          /\ UNCHANGED buffered
    /\ UNCHANGED <<callerVars, loop, attempts, envVars, toolIds, pending, halted, fed>>

\* Fault: the attempts are counted per task, not per adapter.
NextAttempt_PerTask(t, c) ==
    1 + Cardinality({i \in 1 .. Len(Sent(t)) :
                       Sent(t)[i].type = "tool.call.requested" /\ Sent(t)[i].id = c})

\* runtimeCallAttempts, which lives as long as the adapter.
NextAttempt(t, c) == attempts[c] + 1

\* A ToolCallRequest event.
GeminiToolCall(t) ==
    /\ MayProduce(t, 1)
    /\ \E c \in Calls :
         /\ attempts[c] < MaxAttempts
         /\ attempts' = [attempts EXCEPT ![c] = NextAttempt(t, c)]
         /\ toolIds' = [toolIds EXCEPT
                          ![t] = Append(@, [id |-> c, n |-> NextAttempt(t, c)])]
         /\ Push(t, <<Event("tool.call.requested", c, NextAttempt(t, c))>>)
    /\ UNCHANGED <<callerVars, loop, envVars, pending, buffered, halted, fed>>

\* Fault: the loop ends without restoreEnv.
Leave_NoRestore(t, events) ==
    /\ Goto(t, "ended")
    /\ Finish(t, events)
    /\ UNCHANGED envVars

\* The end of runLoop: what it emitted last, restoreEnv, close.
Leave(t, events) ==
    /\ Goto(t, "ended")
    /\ Finish(t, events)
    /\ Restore(<<"task", t>>)
    /\ UNCHANGED <<clients, creating>>

\* Fault: an Error event leaves the turn but not the loop.
GeminiError_TurnOnly(t) ==
    /\ loop[t] = "streaming"
    /\ IF halted[t] \/ toolIds[t] = << >>
       THEN Leave(t, <<Plain("task.failed")>>)
       ELSE /\ Push(t, <<Plain("task.failed")>>)
            /\ Goto(t, "tools")
            /\ UNCHANGED envVars
    /\ UNCHANGED <<callerVars, attempts, turnVars>>

\* An Error or a UserCancelled event: terminal, and the loop is left.
GeminiError(t) ==
    /\ loop[t] = "streaming"
    /\ \E type \in {"task.failed", "task.stopped"} : Leave(t, <<Plain(type)>>)
    /\ halted' = [halted EXCEPT ![t] = TRUE]
    /\ UNCHANGED <<callerVars, attempts, toolIds, pending, buffered, fed>>

\* The turn's stream is done: the loop ends, or waits for its tool calls.
GeminiTurnDone(t) ==
    /\ loop[t] = "streaming"
    /\ IF halted[t] \/ toolIds[t] = << >>
       THEN Leave(t, << >>)
       ELSE /\ Goto(t, "tools")
            /\ UNCHANGED <<envVars, queueVars>>
    /\ UNCHANGED <<callerVars, attempts, turnVars>>

\* The promise of call e of the turn is resolved.
Resolved(t, e) == \E p \in pending[t] : p.id = e.id /\ p.n = e.n

VerdictOf(t, e) == (CHOOSE p \in pending[t] : p.id = e.id /\ p.n = e.n).verdict

\* Fault: a denied call has no part in the next request.
Responses_NoDenied(t) ==
    SelectSeq([i \in 1 .. Len(toolIds[t]) |->
                 [id |-> toolIds[t][i].id, n |-> toolIds[t][i].n,
                  verdict |-> VerdictOf(t, toolIds[t][i])]],
              LAMBDA r : r.verdict # "denied")

\* The next request: one response per call, in the stream's order.
Responses(t) ==
    [i \in 1 .. Len(toolIds[t]) |->
       [id |-> toolIds[t][i].id, n |-> toolIds[t][i].n,
        verdict |-> VerdictOf(t, toolIds[t][i])]]

\* Promise.all over the turn's calls is through: the next turn, or the end.
GeminiNextTurn(t) ==
    /\ loop[t] = "tools"
    /\ \A e \in ToSet(toolIds[t]) : Resolved(t, e)
    /\ IF halted[t]
       THEN Leave(t, << >>) /\ UNCHANGED turnVars
       ELSE /\ Goto(t, "streaming")
            /\ fed' = [fed EXCEPT ![t] = @ \o Responses(t)]
            /\ toolIds' = [toolIds EXCEPT ![t] = << >>]
            /\ pending' = [pending EXCEPT
                             ![t] = {p \in @ : \A e \in ToSet(toolIds[t]) :
                                                 p.id # e.id \/ p.n # e.n}]
            /\ buffered' = [buffered EXCEPT ![t] = FALSE]
            /\ UNCHANGED <<envVars, queueVars, halted>>
    /\ UNCHANGED <<callerVars, attempts>>

\* The stream, or building the request, throws.
GeminiThrow(t) ==
    /\ loop[t] = "streaming"
    /\ Leave(t, <<Plain("task.failed")>>)
    /\ UNCHANGED <<callerVars, attempts, turnVars>>

\* sendToolResult, sendToolDenied: only the first answer resolves the promise.
GeminiAnswer(t) ==
    /\ \E e \in Unanswered(t), verdict \in {"result", "denied"} :
         /\ Answer(t, e, verdict)
         /\ pending' = IF [id |-> e.id, n |-> e.n] \in ToSet(toolIds[t]) /\ ~Resolved(t, e)
                       THEN [pending EXCEPT
                               ![t] = @ \cup {[id |-> e.id, n |-> e.n, verdict |-> verdict]}]
                       ELSE pending
    /\ UNCHANGED <<adapter, sessionOf, stopped, loop, queueVars, attempts, envVars, toolIds,
                   buffered, halted, fed>>

\* Fault: stop() leaves the calls that wait for an answer.
CancelCalls_Keep(t) == pending[t]

\* stop() resolves every unresolved call of the turn as denied.
CancelCalls(t) ==
    pending[t] \cup {[id |-> e.id, n |-> e.n, verdict |-> "denied"] :
                       e \in {i \in ToSet(toolIds[t]) : ~Resolved(t, i)}}

\* stop(): the flag, abort, the pending calls, close.
GeminiStop(t) ==
    /\ MayStop(t)
    /\ stopped' = [stopped EXCEPT ![t] = TRUE]
    /\ halted' = [halted EXCEPT ![t] = TRUE]
    /\ pending' = [pending EXCEPT ![t] = CancelCalls(t)]
    /\ Close(t)
    /\ UNCHANGED <<adapter, sessionOf, answered, loop, attempts, envVars, toolIds, buffered, fed>>

\* What the loop does on its own, and what an aborted stream must do.
GeminiProceeds(t) ==
    \/ GeminiNextTurn(t)
    \/ stopped[t] /\ (GeminiTurnDone(t) \/ GeminiThrow(t))

GeminiNext ==
    \/ \E s \in Sessions : GeminiCreate(s) \/ GeminiCreateInit(s) \/ GeminiCreateDone(s)
    \/ \E t \in Tasks :
        \/ GeminiStart(t) \/ GeminiEnter(t) \/ GeminiInitBegin(t)
        \/ GeminiInitDone(t) \/ GeminiInitFail(t) \/ GeminiReject(t) \/ GeminiOpen(t)
        \/ GeminiText(t) \/ GeminiToolCall(t) \/ GeminiError(t)
        \/ GeminiTurnDone(t) \/ GeminiNextTurn(t) \/ GeminiThrow(t)
        \/ GeminiAnswer(t) \/ GeminiStop(t)

-----------------------------------------------------------------------------

Identity(e) == [id |-> e.id, n |-> e.n]

\* The calls that were answered to the model, in the order of the answers.
FedIds(t) == [i \in 1 .. Len(fed[t]) |-> Identity(fed[t][i])]

\* How many of the first n events of stream s are requests.
Asked(s, n) == Cardinality({i \in 1 .. n : s[i].type = "tool.call.requested"})

\* The model is answered every tool call it made in the turns before, in the
\* order it made them, each with the engine's first answer, denied calls
\* included; and no turn is started with an answer missing.
GeminiTurns ==
    adapter = "gemini" => \A t \in Tasks :
        LET told == FedIds(t) \o toolIds[t]
        IN  /\ ~stopped[t] =>
                 /\ Len(told) = Asked(Sent(t), Len(Sent(t)))
                 /\ \A i \in 1 .. Len(Sent(t)) :
                      Sent(t)[i].type = "tool.call.requested" =>
                        told[Asked(Sent(t), i)] = Identity(Sent(t)[i])
            /\ ToSet(fed[t]) \subseteq answered[t]

\* The environment the holder has put in place.
EnvFor(holder) == IF holder[1] = "create" THEN holder[2] ELSE sessionOf[holder[2]]

\* What the adapter does give of process.env.  A task in whose time nobody
\* else replaces or restores it runs in its own session's, its own
\* initialization included.  As long as it is restored in the opposite order,
\* it is that of the last who replaced it: an outer task runs in the inner
\* one's until that one is done, and in its own again then.  And when nobody
\* is left to restore it, it is the daemon's own, unless a start has failed.
EnvScoped ==
    adapter = "gemini" =>
        /\ \A t \in InEnv \ crossed : procEnv = sessionOf[t]
        /\ ~tangled =>
             /\ frames # << >> => procEnv = EnvFor(Last(frames))
             /\ (/\ InEnv = {}
                 /\ \A s \in Sessions : creating[s] # "init"
                 /\ \A t \in Tasks : loop[t] # "rejected") => procEnv = Base

\* docs/auth-runtime-env.md:49 of the mode the adapter recommends: the
\* runtime runs in a process "with its own environment".  It does not: the
\* adapter runs it in the daemon's, whatever RuntimeEnv.isolation.mode says.
OwnEnvironment ==
    adapter = "gemini" => \A t \in InEnv : procEnv = sessionOf[t]
=============================================================================
