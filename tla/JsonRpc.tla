-------------------------------- MODULE JsonRpc --------------------------------
(***************************************************************************)
(* JsonRpcClient of src/src/runtime/json-rpc.ts: requests go to the stdin  *)
(* of a child process, whose stdout has answers in any order, repeated, or *)
(* to nobody; the process may exit with lines of it still unread.          *)
(***************************************************************************)
EXTENDS Integers, Sequences, SequencesExt, FiniteSets

CONSTANTS
    MaxRequests,  \* bound: requests of one client
    MaxLines      \* bound: lines of the process that wait to be read

ASSUME JsonRpcAssumption == MaxRequests \in Nat /\ MaxLines \in Nat

Ids == 1 .. MaxRequests

VARIABLES
    proc,     \* the process: "running", "exited", "reported" (the exit event
              \* was handled)
    rpcClosed,\* JsonRpcClient.closed
    nextId,   \* JsonRpcClient.nextId
    waiting,  \* the keys of JsonRpcClient.pending
    promise,  \* what each promise is: "none", "waiting", "result", "error", "closed"
    lines,    \* what readline has not read yet: the ids and kinds of lines
    said      \* the answers the process has written for each id, in order

rpcVars == <<proc, rpcClosed, nextId, waiting, promise, lines, said>>

RpcInit ==
    /\ proc = "running"
    /\ rpcClosed = FALSE
    /\ nextId = 1
    /\ waiting = {}
    /\ promise = [i \in Ids |-> "none"]
    /\ lines = << >>
    /\ said = [i \in Ids |-> << >>]

\* request(): rejected at once when closed; else written and put in pending.
Request ==
    /\ nextId \in Ids
    /\ IF rpcClosed
       THEN /\ promise' = [promise EXCEPT ![nextId] = "closed"]
            /\ UNCHANGED waiting
       ELSE /\ promise' = [promise EXCEPT ![nextId] = "waiting"]
            /\ waiting' = waiting \cup {nextId}
    /\ nextId' = nextId + 1
    /\ UNCHANGED <<proc, rpcClosed, lines, said>>

\* The process answers a request it was sent, in any order and maybe again.
ProcessAnswers ==
    /\ proc = "running" /\ Len(lines) < MaxLines
    /\ \E id \in 1 .. nextId - 1, kind \in {"result", "error"} :
         /\ promise[id] # "closed"
         /\ Len(said[id]) < 2
         /\ lines' = Append(lines, [id |-> id, kind |-> kind])
         /\ said' = [said EXCEPT ![id] = Append(@, kind)]
    /\ UNCHANGED <<proc, rpcClosed, nextId, waiting, promise>>

\* A notification, or a line that is no JSON or has an id nobody waits for.
ProcessChatters ==
    /\ proc = "running" /\ Len(lines) < MaxLines
    /\ lines' = Append(lines, [id |-> 0, kind |-> "other"])
    /\ UNCHANGED <<proc, rpcClosed, nextId, waiting, promise, said>>

\* Fault: an answered request stays in pending.
StillPending_All(id) == waiting

\* What handleResponse leaves in pending.
StillPending(id) == waiting \ {id}

\* readline's line event: handleResponse for a line with an id.
Line ==
    /\ lines # << >>
    /\ LET l == Head(lines)
       IN  IF l.id \in waiting
           THEN /\ waiting' = StillPending(l.id)
                /\ promise' = [promise EXCEPT ![l.id] = l.kind]
           ELSE UNCHANGED <<waiting, promise>>
    /\ lines' = Tail(lines)
    /\ UNCHANGED <<proc, rpcClosed, nextId, said>>

\* The process exits, or was killed by close().
ProcessExits ==
    /\ proc = "running"
    /\ proc' = "exited"
    /\ UNCHANGED <<rpcClosed, nextId, waiting, promise, lines, said>>

\* pending.clear, and every promise of it rejected.
RejectAll ==
    /\ rpcClosed' = TRUE
    /\ waiting' = {}
    /\ promise' = [i \in Ids |-> IF i \in waiting THEN "closed" ELSE promise[i]]

\* Fault: the exit closes the client and leaves the promises.
ExitEvent_NoReject ==
    /\ proc = "exited"
    /\ proc' = "reported"
    /\ rpcClosed' = TRUE
    /\ waiting' = {}
    /\ UNCHANGED <<promise, nextId, lines, said>>

\* Fault: the exit of the process is not listened to.
ExitEvent_Ignored ==
    /\ proc = "exited"
    /\ proc' = "reported"
    /\ UNCHANGED <<rpcClosed, waiting, promise, nextId, lines, said>>

\* The exit event, which may come before the last lines are read.
ExitEvent ==
    /\ proc = "exited"
    /\ proc' = "reported"
    /\ IF rpcClosed THEN UNCHANGED <<rpcClosed, waiting, promise>> ELSE RejectAll
    /\ UNCHANGED <<nextId, lines, said>>

\* close(): the promises rejected, the process killed.
CloseClient ==
    /\ ~rpcClosed
    /\ RejectAll
    /\ proc' = IF proc = "running" THEN "exited" ELSE proc
    /\ UNCHANGED <<nextId, lines, said>>

RpcNext ==
    \/ Request \/ ProcessAnswers \/ ProcessChatters \/ Line
    \/ ProcessExits \/ ExitEvent \/ CloseClient

RpcProceeds == Line \/ ExitEvent

-----------------------------------------------------------------------------

\* A promise is settled with the first answer the process gave to that very
\* request, whatever it repeats and in whatever order it answers
\* (handleResponse deletes the id); and with an answer only if there was one.
FirstAnswerWins ==
    \A i \in Ids : promise[i] \in {"result", "error"} =>
        said[i] # << >> /\ promise[i] = Head(said[i])

\* Once the client is closed nobody waits: no request that raced the close or
\* the exit is left in pending or unsettled.
ClosedLeavesNobody ==
    rpcClosed => waiting = {} /\ \A i \in Ids : promise[i] # "waiting"

\* A request that the process has answered, or whose process has exited, is
\* settled.
RequestsSettle ==
    \A i \in Ids :
        (promise[i] = "waiting" /\ (said[i] # << >> \/ proc = "exited"))
            ~> promise[i] \in {"result", "error", "closed"}

\* Each caller of request() is settled with the answer that is its own, and
\* none is forgotten when the client closes.
CallersSettledOnce == FirstAnswerWins /\ ClosedLeavesNobody
=============================================================================
