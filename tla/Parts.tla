--------------------------------- MODULE Parts ---------------------------------
(***************************************************************************)
(* The small parts around the engine, each with state and properties of    *)
(* its own.  They do not share state: a behaviour runs one of them, and    *)
(* the others stay as they begin.                                          *)
(***************************************************************************)
EXTENDS ToolServer, JsonRpc, ArtifactFiles, RateLimiter, SessionRecords

VARIABLE part   \* the part that this behaviour runs

vars == <<part, toolVars, rpcVars, artifactVars, rateVars, recordVars>>

Init ==
    /\ part \in {"tools", "rpc", "artifacts", "rate", "records"}
    /\ ToolInit /\ RpcInit /\ ArtifactInit /\ RateInit /\ RecordsInit
    /\ part # "tools" => setup = CHOOSE s \in Setups : TRUE

Next ==
    /\ UNCHANGED part
    /\ \/ /\ part = "tools" /\ ToolNext
          /\ UNCHANGED <<rpcVars, artifactVars, rateVars, recordVars>>
       \/ /\ part = "rpc" /\ RpcNext
          /\ UNCHANGED <<toolVars, artifactVars, rateVars, recordVars>>
       \/ /\ part = "artifacts" /\ ArtifactNext
          /\ UNCHANGED <<toolVars, rpcVars, rateVars, recordVars>>
       \/ /\ part = "rate" /\ RateNext
          /\ UNCHANGED <<toolVars, rpcVars, artifactVars, recordVars>>
       \/ /\ part = "records" /\ RecordsNext
          /\ UNCHANGED <<toolVars, rpcVars, artifactVars, rateVars>>

\* A timer fires and a killed process goes; readline reads what there is, and
\* the exit of a process is reported.
Fairness ==
    /\ \A r \in Requests :
         WF_vars(ToolProceeds(r) /\ UNCHANGED <<part, rpcVars, artifactVars, rateVars, recordVars>>)
    /\ WF_vars(RpcProceeds /\ UNCHANGED <<part, toolVars, artifactVars, rateVars, recordVars>>)

Spec == Init /\ [][Next]_vars

FairSpec == Spec /\ Fairness

-----------------------------------------------------------------------------

\* Nobody who called a process waits for ever: a docker tool whose container
\* hangs, a JSON-RPC request whose process has answered or gone.
CallersAnswered == CallsAnswered /\ RequestsSettle
=============================================================================
