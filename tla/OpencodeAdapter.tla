--------------------------- MODULE OpencodeAdapter ---------------------------
(***************************************************************************)
(* src/src/adapters/opencode-server.ts.  An OpenCode server runs the tools *)
(* itself and reports what it does as events on one subscription; the      *)
(* adapter turns them into the task's events.  The adapter first makes     *)
(* sure that the server knows the codesdk MCP server.                      *)
(***************************************************************************)
EXTENDS AdapterStream

CONSTANT Messages   \* the assistant messages of a task, in the order they complete

VARIABLES
    mcp,        \* the server's entry for codesdk: "absent", "added", "connected",
                \* or "refused" once the server has refused to add or connect it
    toolState,  \* toolState[t][c]: toolCalls and toolStatuses of a call id
    attemptOf,  \* attemptOf[t][c]: the attempt of its ToolIdentity
    counted,    \* completedMessages
    usage,      \* usageTotals, in messages
    spoken,     \* textParts of the message under way is not empty
    aborting    \* stop() waits for session.abort

opencodeVars == <<mcp, toolState, attemptOf, counted, usage, spoken, aborting>>
partVars == <<toolState, attemptOf, counted, usage, spoken>>

OpencodeInit ==
    /\ mcp = "absent"
    /\ toolState = [t \in Tasks |-> [c \in Calls |-> "none"]]
    /\ attemptOf = [t \in Tasks |-> [c \in Calls |-> 0]]
    /\ counted = [t \in Tasks |-> {}]
    /\ usage = [t \in Tasks |-> 0]
    /\ spoken = [t \in Tasks |-> FALSE]
    /\ aborting = [t \in Tasks |-> FALSE]

-----------------------------------------------------------------------------
(* startTask *)

\* Up to the first await.
OpencodeStart(t) ==
    /\ MayStart(t)
    /\ Goto(t, "starting")
    /\ UNCHANGED <<callerVars, queueVars, attempts, opencodeVars>>

\* session.create or event.subscribe rejects, and so does startTask.
OpencodeReject(t) ==
    /\ loop[t] \in {"starting", "subscribing"}
    /\ Goto(t, "rejected")
    /\ UNCHANGED <<callerVars, queueVars, attempts, opencodeVars>>

\* Fault: an entry that is there is taken to be connected.
AfterStatus_Trust == IF mcp = "absent" THEN "adding" ELSE "capturing"

\* What follows a first mcp.status that is answered.
AfterStatus == IF mcp = "absent" THEN "adding" ELSE "connecting"

\* A task with tools: the first mcp.status, which may fail.
OpencodeMcpStatus(t) ==
    /\ loop[t] = "starting"
    /\ \E next \in {"adding", AfterStatus} : Goto(t, next)
    /\ UNCHANGED <<callerVars, queueVars, attempts, opencodeVars>>

\* mcp.add: done, refused, or ignored because another task was faster.
OpencodeMcpAdd(t) ==
    /\ loop[t] = "adding"
    /\ mcp' \in IF mcp = "absent" THEN {"added", "refused"} ELSE {mcp}
    /\ Goto(t, "connecting")
    /\ UNCHANGED <<callerVars, queueVars, attempts, partVars, aborting>>

\* The second mcp.status, and mcp.connect unless it is connected; that the
\* server refuses is ignored.
OpencodeMcpConnect(t) ==
    /\ loop[t] = "connecting"
    /\ mcp' \in IF mcp = "added" THEN {"connected", "refused"} ELSE {mcp}
    /\ Goto(t, "capturing")
    /\ UNCHANGED <<callerVars, queueVars, attempts, partVars, aborting>>

\* A task without tools configures nothing.
OpencodeNoTools(t) ==
    /\ loop[t] = "starting"
    /\ Push(t, <<Plain("model.input")>>)
    /\ Goto(t, "subscribing")
    /\ UNCHANGED <<callerVars, attempts, opencodeVars>>

\* The implicit sources are captured: model.input, then event.subscribe.
OpencodeCapture(t) ==
    /\ loop[t] = "capturing"
    /\ Push(t, <<Plain("model.input")>>)
    /\ Goto(t, "subscribing")
    /\ UNCHANGED <<callerVars, attempts, opencodeVars>>

\* Subscribed: the loop is started with promptAsync, the handle returned.
\* Events that the server sends before promptAsync returns are kept by the
\* subscription.
OpencodeOpen(t) ==
    /\ loop[t] = "subscribing"
    /\ Goto(t, "streaming")
    /\ UNCHANGED <<callerVars, queueVars, attempts, opencodeVars>>

-----------------------------------------------------------------------------
(* The loop over the server's events.  An event of another session is      *)
(* skipped; one that comes when stop() has been called ends the loop.      *)

\* handleTextPart: a delta to the text of the message under way.
OpencodeText(t) ==
    /\ MayProduce(t, 1) /\ ~stopped[t]
    /\ Push(t, <<Plain("model.output.delta")>>)
    /\ spoken' = [spoken EXCEPT ![t] = TRUE]
    /\ UNCHANGED <<callerVars, loop, attempts, mcp, toolState, attemptOf, counted, usage,
                   aborting>>

\* Fault: the identity of a completed call is used again.
IsNewAttempt_First(t, c) == toolState[t][c] = "none"

\* ensureToolIdentity opens an attempt: none is open for call c.
IsNewAttempt(t, c) == toolState[t][c] \in {"none", "completed"}

\* The event kinds that handleToolPart emits for a part in state `state`,
\* when the call was in state `before`: a completed call that never ran has
\* no approval.
ToolEvents(before, state) ==
    IF state = "running" /\ before # "running"
    THEN <<"tool.call.approved", "tool.call.started">>
    ELSE IF state = "completed" /\ before # "completed" THEN <<"tool.call.completed">>
    ELSE << >>

\* Fault: the status of every part is recorded as it comes.
StatusAfter_Copied(before, state) == state

\* The status after the part (a pending part leaves it).
StatusAfter(before, state) == IF state = "pending" THEN before ELSE state

\* handleToolPart: a part of call c, which is pending, running or done
\* ("completed" stands for the statuses completed and error).
OpencodeToolPart(t) ==
    /\ ~stopped[t]
    /\ \E c \in Calls, state \in {"pending", "running", "completed"} :
         LET isNew  == IsNewAttempt(t, c)
             n      == IF isNew THEN attempts[c] + 1 ELSE attemptOf[t][c]
             before == IF isNew THEN "requested" ELSE toolState[t][c]
             types  == (IF isNew THEN <<"tool.call.requested">> ELSE << >>)
                         \o ToolEvents(before, state)
         IN  /\ MayProduce(t, Len(types))
             /\ isNew => attempts[c] < MaxAttempts
             /\ attempts' = [attempts EXCEPT ![c] = IF isNew THEN n ELSE @]
             /\ attemptOf' = [attemptOf EXCEPT ![t][c] = n]
             /\ toolState' = [toolState EXCEPT ![t][c] = StatusAfter(before, state)]
             /\ Push(t, [i \in 1 .. Len(types) |-> Event(types[i], c, n)])
    /\ UNCHANGED <<callerVars, loop, mcp, counted, usage, spoken, aborting>>

\* Fault: a message that was counted is counted again.
IsCounted_Never(t, m) == FALSE

IsCounted(t, m) == m \in counted[t]

\* message.updated of a completed assistant message m: counted once; its
\* text is reported unless it finished for tool calls; an error, or a final
\* message, ends the loop.
OpencodeMessage(t) ==
    /\ MayProduce(t, 0) /\ ~stopped[t]
    /\ \E m \in Messages, toolCalls, error \in BOOLEAN :
         LET said == IF spoken[t] /\ ~toolCalls
                     THEN <<Plain("model.output.completed")>> ELSE << >>
             last == IF error THEN Plain("task.failed")
                     ELSE Event("usage.reported", 0, usage[t] + 1)
         IN  /\ ~IsCounted(t, m)
             /\ \A k \in Messages : k < m => k \in counted[t]
             /\ counted' = [counted EXCEPT ![t] = @ \cup {m}]
             /\ usage' = [usage EXCEPT ![t] = @ + 1]
             /\ spoken' = [spoken EXCEPT ![t] = FALSE]
             /\ IF toolCalls /\ ~error
                THEN UNCHANGED <<loop, queueVars>>
                ELSE Goto(t, "ended") /\ Finish(t, Append(said, last))
    /\ UNCHANGED <<callerVars, attempts, mcp, toolState, attemptOf, aborting>>

\* session.error, or the stream or promptAsync throws.
OpencodeFail(t) ==
    /\ loop[t] = "streaming"
    /\ Goto(t, "ended")
    /\ Finish(t, <<Plain("task.failed")>>)
    /\ UNCHANGED <<callerVars, attempts, opencodeVars>>

\* The server's stream ends; or any event arrives after stop().
OpencodeEnd(t) ==
    /\ loop[t] = "streaming"
    /\ Goto(t, "ended")
    /\ Close(t)
    /\ UNCHANGED <<callerVars, attempts, opencodeVars>>

-----------------------------------------------------------------------------

\* stop(): the flag, then session.abort.
OpencodeStop(t) ==
    /\ MayStop(t)
    /\ stopped' = [stopped EXCEPT ![t] = TRUE]
    /\ aborting' = [aborting EXCEPT ![t] = TRUE]
    /\ UNCHANGED <<adapter, sessionOf, answered, loop, queueVars, attempts, mcp, partVars>>

\* Fault: stop() relies on the loop to close the queue.
OpencodeAborted_NoClose(t) ==
    /\ aborting[t]
    /\ aborting' = [aborting EXCEPT ![t] = FALSE]
    /\ UNCHANGED <<callerVars, loop, queueVars, attempts, mcp, partVars>>

\* session.abort has returned or failed: close.  The stream.return() that
\* follows waits behind the loop's pending next(), so the loop itself stays
\* until the server sends something or ends the stream.
OpencodeAborted(t) ==
    /\ aborting[t]
    /\ aborting' = [aborting EXCEPT ![t] = FALSE]
    /\ Close(t)
    /\ UNCHANGED <<callerVars, loop, attempts, mcp, partVars>>

OpencodeProceeds(t) == OpencodeAborted(t)

OpencodeNext ==
    \E t \in Tasks :
        \/ OpencodeStart(t) \/ OpencodeReject(t) \/ OpencodeMcpStatus(t)
        \/ OpencodeMcpAdd(t) \/ OpencodeMcpConnect(t) \/ OpencodeNoTools(t)
        \/ OpencodeCapture(t) \/ OpencodeOpen(t) \/ OpencodeText(t) \/ OpencodeToolPart(t)
        \/ OpencodeMessage(t) \/ OpencodeFail(t) \/ OpencodeEnd(t)
        \/ OpencodeStop(t) \/ OpencodeAborted(t)

-----------------------------------------------------------------------------

\* A task with tools is not prompted before the codesdk MCP server is
\* connected, whatever another task configures meanwhile, unless the server
\* refused.  Whose command the entry has is another question: the tools and
\* the permission mode in it are those of the task that added it, for ever.
McpReady ==
    \A t \in Tasks : loop[t] = "capturing" => mcp \in {"connected", "refused"}

\* The usage a task reports counts every completed message once, however
\* often the server repeats it.
UsageCountsOnce ==
    adapter = "opencode" => \A t \in Tasks :
        \A i \in 1 .. Len(Sent(t)) :
            Sent(t)[i].type = "usage.reported" => Sent(t)[i].n = Cardinality(counted[t])
=============================================================================
