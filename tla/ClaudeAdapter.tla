---------------------------- MODULE ClaudeAdapter ----------------------------
(***************************************************************************)
(* src/src/adapters/claude-agent-sdk.ts.  The SDK runs the model in a      *)
(* subprocess; tools are offered to it by an in-process MCP server, whose  *)
(* handlers emit tool.call.requested and wait for the engine's answer.     *)
(***************************************************************************)
EXTENDS AdapterStream

VARIABLES
    handler,  \* handler[t][c]: the MCP handler of request c of task t
    output    \* outputAccumulator: what model output task t has seen

claudeVars == <<handler, output>>

NoCall == [task |-> 0, verdict |-> "none"]
Waiting == [task |-> 0, verdict |-> "waiting"]

ClaudeInit ==
    /\ handler = [t \in Tasks |-> [c \in Calls |-> NoCall]]
    /\ output = [t \in Tasks |-> {}]

\* startTask up to its await of the implicit sources.
ClaudeStart(t) ==
    /\ MayStart(t)
    /\ Goto(t, "starting")
    /\ UNCHANGED <<callerVars, queueVars, attempts, claudeVars>>

\* The rest of startTask: model.input, the MCP server, the query, the handle.
ClaudeOpen(t) ==
    /\ loop[t] = "starting"
    /\ Goto(t, "streaming")
    /\ Push(t, <<Plain("model.input")>>)
    /\ UNCHANGED <<callerVars, attempts, claudeVars>>

\* The implicit sources, the artifact store or the query throws, and startTask
\* rejects; what its queue has taken is read by nobody.
ClaudeReject(t) ==
    /\ loop[t] = "starting"
    /\ Goto(t, "rejected")
    /\ UNCHANGED <<callerVars, queueVars, attempts, claudeVars>>

\* Fault: a message without text counts as completed output.
ClaudeMessage_AnyCompletes(t) ==
    /\ MayProduce(t, 1)
    /\ \/ /\ Push(t, <<Plain("model.output.delta")>>)
          /\ output' = [output EXCEPT ![t] = @ \cup {"delta"}]
       \/ /\ \E text \in BOOLEAN :
                Push(t, IF text THEN <<Plain("model.output.completed")>> ELSE << >>)
          /\ output' = [output EXCEPT ![t] = @ \cup {"completed"}]
       \/ /\ Push(t, <<Plain("usage.reported")>>)
          /\ UNCHANGED output
    /\ UNCHANGED <<callerVars, loop, attempts, handler>>

\* handleMessage: a delta, an assistant message with text (one without text
\* changes nothing), or the result with its usage.
ClaudeMessage(t) ==
    /\ MayProduce(t, 1)
    /\ \/ /\ Push(t, <<Plain("model.output.delta")>>)
          /\ output' = [output EXCEPT ![t] = @ \cup {"delta"}]
       \/ /\ Push(t, <<Plain("model.output.completed")>>)
          /\ output' = [output EXCEPT ![t] = @ \cup {"completed"}]
       \/ /\ Push(t, <<Plain("usage.reported")>>)
          /\ UNCHANGED output
    /\ UNCHANGED <<callerVars, loop, attempts, handler>>

\* An MCP tool handler is called.  Its emit and the pendingToolCalls.set are
\* in one turn of the event loop, so no answer can come between them.
ClaudeToolCall(t) ==
    /\ MayProduce(t, 1)
    /\ \E c \in Calls :
         /\ handler[t][c] = NoCall
         /\ \A d \in Calls : d < c => handler[t][d] # NoCall
         /\ handler' = [handler EXCEPT ![t][c] = Waiting]
         /\ Push(t, <<Event("tool.call.requested", c, 1)>>)
    /\ UNCHANGED <<callerVars, loop, attempts, output>>

\* Fault: one pendingToolCalls for all tasks of the adapter.
PendingFor_Shared(t, c) ==
    {u \in Tasks : /\ handler[u][c] = Waiting
                   /\ \A v \in Tasks : v > u => handler[v][c] # Waiting}

\* The handler that an answer to call c of task t resolves: pendingToolCalls
\* belongs to the task; an answered or unknown id is not in it.
PendingFor(t, c) == {u \in {t} : handler[u][c] = Waiting}

\* sendToolResult, sendToolDenied.
ClaudeAnswer(t) ==
    /\ \E e \in Unanswered(t), verdict \in {"result", "denied"} :
         /\ Answer(t, e, verdict)
         /\ handler' = [u \in Tasks |->
                          IF u \in PendingFor(t, e.id)
                          THEN [handler[u] EXCEPT
                                  ![e.id] = [task |-> t, verdict |-> verdict]]
                          ELSE handler[u]]
    /\ UNCHANGED <<adapter, sessionOf, stopped, loop, queueVars, attempts, output>>

\* The SDK's stream ends: deltas that no assistant message completed become
\* the output.
ClaudeEnd(t) ==
    /\ loop[t] = "streaming"
    /\ Goto(t, "ended")
    /\ Finish(t, IF output[t] = {"delta"}
                 THEN <<Plain("model.output.completed")>> ELSE << >>)
    /\ UNCHANGED <<callerVars, attempts, claudeVars>>

\* The SDK's stream throws.
ClaudeThrow(t) ==
    /\ loop[t] = "streaming"
    /\ Goto(t, "ended")
    /\ Finish(t, <<Plain("task.failed")>>)
    /\ UNCHANGED <<callerVars, attempts, claudeVars>>

\* stop(): abort and close.  Handlers that wait are left waiting.  A task that
\* runs in a session of the SDK closes that session too, which stays in the
\* adapter's map: what a later task finds there is the SDK's, and left out.
ClaudeStop(t) ==
    /\ MayStop(t)
    /\ stopped' = [stopped EXCEPT ![t] = TRUE]
    /\ Close(t)
    /\ UNCHANGED <<adapter, sessionOf, answered, loop, attempts, claudeVars>>

\* What the loop still does on its own, and what an aborted stream must do.
ClaudeProceeds(t) == stopped[t] /\ (ClaudeEnd(t) \/ ClaudeThrow(t))

ClaudeNext ==
    \E t \in Tasks :
        \/ ClaudeStart(t) \/ ClaudeOpen(t) \/ ClaudeReject(t)
        \/ ClaudeMessage(t) \/ ClaudeToolCall(t) \/ ClaudeAnswer(t)
        \/ ClaudeEnd(t) \/ ClaudeThrow(t) \/ ClaudeStop(t)

-----------------------------------------------------------------------------

\* An MCP request gets the engine's answer to that very request of that very
\* task, although the ids of two tasks are the same (mcp:1, mcp:2, ...); and
\* an answer the engine has sent is never lost.
ClaudeAnswers ==
    \A t \in Tasks, c \in Calls :
        /\ handler[t][c] \notin {NoCall, Waiting} =>
             /\ handler[t][c].task = t
             /\ [id |-> c, n |-> 1, verdict |-> handler[t][c].verdict] \in answered[t]
        /\ handler[t][c] = Waiting => \A a \in answered[t] : a.id # c

\* A stream that ends by itself leaves no output behind that was only
\* streamed: if there were deltas, there is a model.output.completed.
ClaudeOutput ==
    adapter = "claude" => \A t \in Tasks :
        LET Sends(type) == \E i \in 1 .. Len(Sent(t)) : Sent(t)[i].type = type
        IN  (loop[t] = "ended" /\ ~stopped[t] /\ Sends("model.output.delta"))
                => Sends("model.output.completed") \/ Sends("task.failed")
=============================================================================
