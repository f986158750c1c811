------------------------------ MODULE ToolServer ------------------------------
(***************************************************************************)
(* The tools that CodeSDK itself offers: the in-process MCP server         *)
(* (src/src/mcp/server.ts), the permission policy (executor/policy.ts),    *)
(* the registry and the three ways to execute a tool: its own handler, the *)
(* RegistryToolExecutor and the DockerToolExecutor with its child process, *)
(* timer and output pipe.  Calls run concurrently.                         *)
(***************************************************************************)
EXTENDS Integers, Sequences, FiniteSets

CONSTANTS
    Requests,      \* tools/call requests
    Tools,         \* the tools that somebody registers
    Exec,          \* workspace.exec
    UnknownTool,   \* a name that nobody registers
    PermissionOf,  \* defaultPermission of each tool
    Setups         \* the option records to consider

ASSUME ToolServerAssumption ==
    /\ Exec \in Tools
    /\ UnknownTool \notin Tools
    /\ PermissionOf \in [Tools -> {"read-only", "write", "network", "dangerous"}]
    /\ \A s \in Setups :
         /\ s.mode \in {"auto", "ask", "yolo"}
         /\ s.executor \in {"handler", "registry", "docker"}
         /\ s.allowedTools \subseteq Tools
         /\ {s.hasList, s.timeout, s.network, s.built} \subseteq BOOLEAN
         /\ {s.dangerous, s.trusted} \subseteq BOOLEAN

VARIABLES
    setup,     \* the options the server, registry and executor were made with
    call,      \* call[r]: "idle", "running", "answered"
    tool,      \* the tool that request r names
    trail,     \* the policy events of r
    child,     \* r's docker process: "none", "running", "closed"
    output,    \* what its stdout has: "none", "partial", or a whole response,
               \* which is "ok", "error" (is_error) or "bad" (wrong schema)
    timedOut,  \* the flag of the timer
    killed,    \* the timer's kill(): "no", "sent", "failed"
    answer     \* what callTool returned

toolVars == <<setup, call, tool, trail, child, output, timedOut, killed, answer>>

ToolInit ==
    /\ setup \in Setups
    /\ call = [r \in Requests |-> "idle"]
    /\ tool = [r \in Requests |-> UnknownTool]
    /\ trail = [r \in Requests |-> << >>]
    /\ child = [r \in Requests |-> "none"]
    /\ output = [r \in Requests |-> "none"]
    /\ timedOut = [r \in Requests |-> FALSE]
    /\ killed = [r \in Requests |-> "no"]
    /\ answer = [r \in Requests |-> "none"]

\* ToolRegistry.register throws for a dangerous tool unless it may have them.
Registered == {t \in Tools : PermissionOf[t] = "dangerous" => setup.dangerous}

Overridden(t, tools, permissions) == t \in tools \/ PermissionOf[t] \in permissions

\* Fault: an allow override is looked at before the deny overrides.
Decide_AllowFirst(t) ==
    IF Overridden(t, setup.allowTools, setup.allowPermissions) THEN "allow"
    ELSE IF Overridden(t, setup.denyTools, setup.denyPermissions) THEN "deny"
    ELSE IF PermissionOf[t] = "dangerous" /\ setup.mode # "yolo" THEN "deny"
    ELSE IF setup.mode = "ask" THEN "ask" ELSE "allow"

\* PermissionService.decide.
Decide(t) ==
    IF Overridden(t, setup.denyTools, setup.denyPermissions) THEN "deny"
    ELSE IF Overridden(t, setup.allowTools, setup.allowPermissions) THEN "allow"
    ELSE IF PermissionOf[t] = "dangerous" /\ setup.mode # "yolo" THEN "deny"
    ELSE IF setup.mode = "ask" THEN "ask" ELSE "allow"

\* Fault: the event has the decision's name, which may be ask.
PolicyEvent_Decision(t) == Decide(t)

\* The event after policy_evaluated: ask is a denial here.
PolicyEvent(t) == IF Decide(t) = "allow" THEN "approved" ELSE "denied"

\* RegistryToolExecutor, and its option allowDangerous (the daemon's has it not).
RegistryRefuses(t) == PermissionOf[t] = "dangerous" /\ ~setup.trusted

\* The early returns of DockerToolExecutor.execute.
DockerRefuses(t) ==
    \/ t = Exec /\ (~setup.hasList \/ ~setup.timeout \/ setup.network)
    \/ setup.hasList /\ t \notin setup.allowedTools
    \/ ~setup.built

\* Why callTool(t, input) returns before anything runs, in the code's order.
Refusal(t, valid) ==
    IF t \notin Registered THEN "unknown_tool"
    ELSE IF Decide(t) # "allow" THEN "denied"
    ELSE IF ~valid THEN "invalid_input"
    ELSE IF \/ setup.executor = "registry" /\ RegistryRefuses(t)
            \/ setup.executor = "docker" /\ DockerRefuses(t) THEN "refused"
    ELSE "none"

\* tools/call up to its first await: the policy, its events, the input's
\* schema, and the start of the execution; docker's process is spawned, its
\* stdin written and its timer set.  (A process that closes its stdin early makes
\* that write an 'error' of the stream, which nobody listens to: left out.)
Call(r) ==
    /\ call[r] = "idle"
    /\ \E t \in Tools \cup {UnknownTool}, valid \in BOOLEAN :
         LET refusal == Refusal(t, valid)
         IN  /\ tool' = [tool EXCEPT ![r] = t]
             /\ trail' = [trail EXCEPT ![r] =
                            IF t \notin Registered THEN << >>
                            ELSE <<"policy_evaluated", PolicyEvent(t)>>]
             /\ IF refusal # "none"
                THEN /\ call' = [call EXCEPT ![r] = "answered"]
                     /\ answer' = [answer EXCEPT ![r] = refusal]
                     /\ UNCHANGED child
                ELSE /\ call' = [call EXCEPT ![r] = "running"]
                     /\ child' = IF setup.executor = "docker"
                                 THEN [child EXCEPT ![r] = "running"] ELSE child
                     /\ UNCHANGED answer
    /\ UNCHANGED <<setup, output, timedOut, killed>>

Return(r, result) ==
    /\ call' = [call EXCEPT ![r] = "answered"]
    /\ answer' = [answer EXCEPT ![r] = result]

\* A tool's handler in this process resolves or throws; a result that is no
\* error is held against the output's schema.
HandlerDone(r) ==
    /\ call[r] = "running" /\ setup.executor # "docker"
    /\ \E result \in {"ok", "failed", "invalid_output"} : Return(r, result)
    /\ UNCHANGED <<setup, tool, trail, child, output, timedOut, killed>>

\* A part of the process's response arrives, then the rest.  Nobody reads a
\* process whose call is answered.
ChildWrites(r) ==
    /\ call[r] = "running" /\ child[r] = "running"
    /\ \/ output[r] = "none" /\ output' = [output EXCEPT ![r] = "partial"]
       \/ /\ output[r] = "partial"
          /\ \E whole \in {"ok", "error", "bad"} : output' = [output EXCEPT ![r] = whole]
    /\ UNCHANGED <<setup, call, tool, trail, child, timedOut, killed, answer>>

\* Fault: the timer only sets its flag.
Timer_NoKill(r) ==
    /\ call[r] = "running" /\ child[r] = "running" /\ setup.timeout /\ ~timedOut[r]
    /\ timedOut' = [timedOut EXCEPT ![r] = TRUE]
    /\ UNCHANGED <<setup, call, tool, trail, child, output, killed, answer>>

\* Fault: the timer answers, and the process is left alone.
Timer_Answers(r) ==
    /\ call[r] = "running" /\ child[r] = "running" /\ setup.timeout /\ ~timedOut[r]
    /\ timedOut' = [timedOut EXCEPT ![r] = TRUE]
    /\ Return(r, "timed_out")
    /\ UNCHANGED <<setup, tool, trail, child, output, killed>>

\* The timer: the flag, and SIGKILL.
Timer(r) ==
    /\ call[r] = "running" /\ child[r] = "running" /\ setup.timeout /\ ~timedOut[r]
    /\ timedOut' = [timedOut EXCEPT ![r] = TRUE]
    /\ killed' = [killed EXCEPT ![r] = "sent"]
    /\ UNCHANGED <<setup, call, tool, trail, child, output, answer>>

\* What a whole, partial or missing response makes of the call.
Parsed(r) ==
    IF output[r] = "ok" THEN "ok" ELSE IF output[r] = "bad" THEN "invalid_output" ELSE "failed"

\* Fault: a response that is there is used, timer or not.
Outcome_OutputFirst(r, code) ==
    IF output[r] = "ok" /\ code # "nonzero" THEN "ok"
    ELSE IF timedOut[r] THEN "timed_out"
    ELSE IF code = "nonzero" THEN "failed" ELSE Parsed(r)

\* The end of execute: the timer counts first, then an exit code that is not
\* 0 (a process killed by a signal has none), then the response.
Outcome(r, code) ==
    IF timedOut[r] THEN "timed_out"
    ELSE IF code = "nonzero" THEN "failed" ELSE Parsed(r)

\* The process is gone and its pipes are read: 'close'.
ChildCloses(r) ==
    /\ child[r] = "running"
    /\ child' = [child EXCEPT ![r] = "closed"]
    /\ IF call[r] = "running"
       THEN \E code \in {"zero", "nonzero", "signal"} : Return(r, Outcome(r, code))
       ELSE UNCHANGED <<call, answer>>
    /\ UNCHANGED <<setup, tool, trail, output, timedOut, killed>>

\* 'error' before the process runs: it could not be spawned.
SpawnFails(r) ==
    /\ call[r] = "running" /\ child[r] = "running" /\ output[r] = "none" /\ killed[r] = "no"
    /\ child' = [child EXCEPT ![r] = "closed"]
    /\ Return(r, Outcome(r, "nonzero"))
    /\ UNCHANGED <<setup, tool, trail, output, timedOut, killed>>

\* 'error' after the timer: it could not be killed, and runs on.
KillFails(r) ==
    /\ call[r] = "running" /\ child[r] = "running" /\ killed[r] = "sent"
    /\ Return(r, Outcome(r, "nonzero"))
    /\ killed' = [killed EXCEPT ![r] = "failed"]
    /\ UNCHANGED <<setup, tool, trail, child, output, timedOut>>

ToolNext ==
    \E r \in Requests :
        \/ Call(r) \/ HandlerDone(r) \/ ChildWrites(r) \/ Timer(r)
        \/ ChildCloses(r) \/ SpawnFails(r) \/ KillFails(r)

\* The timer fires, and a killed process goes.
ToolProceeds(r) == Timer(r) \/ (killed[r] = "sent" /\ ChildCloses(r))

-----------------------------------------------------------------------------

Ran(r) == call[r] = "running" \/ child[r] # "none" \/ answer[r] \in {"ok", "invalid_output"}

\* A tool runs only after policy_evaluated and approved (mcp/server.ts); no
\* deny override is ever outvoted; in mode ask only an allow override lets it
\* run, and a dangerous tool needs yolo or such an override, and runs through
\* the registry executor only if that was made to allow it; workspace.exec runs in
\* docker only when it is listed, with a timer and without network.
RunsOnlyAllowed ==
    \A r \in Requests : Ran(r) =>
        LET t == tool[r]
            listed == Overridden(t, setup.allowTools, setup.allowPermissions)
        IN  /\ t # UnknownTool
            /\ trail[r] = <<"policy_evaluated", "approved">>
            /\ ~Overridden(t, setup.denyTools, setup.denyPermissions)
            /\ setup.mode = "ask" => listed
            /\ PermissionOf[t] = "dangerous" =>
                 /\ setup.mode = "yolo" \/ listed
                 /\ setup.executor = "registry" => setup.trusted
            /\ (t = Exec /\ setup.executor = "docker") =>
                 setup.timeout /\ ~setup.network /\ t \in setup.allowedTools

\* A result that comes after the timer is never used, even when it is whole;
\* a success has read a whole response (docker.ts, after the await of close).
LateResultDropped ==
    \A r \in Requests :
        /\ timedOut[r] => answer[r] \in {"none", "timed_out"}
        /\ (answer[r] = "ok" /\ setup.executor = "docker") => output[r] = "ok"

\* No docker process outlives the answer to its call, except one that could
\* not be killed (docker.ts waits for close, not for the timer).  It is the
\* docker command: the container is the docker daemon's, and not modelled.
NoStrayChild ==
    \A r \in Requests :
        (call[r] = "answered" /\ child[r] = "running") => killed[r] = "failed"

\* Every docker call with a timeout is answered, even if the process hangs.
CallsAnswered ==
    \A r \in Requests :
        (child[r] = "running" /\ setup.timeout) ~> call[r] = "answered"

\* What a docker call answers and what it leaves behind: a result after the
\* timer is dropped, and no process stays.
DockerRunEnds == LateResultDropped /\ NoStrayChild
=============================================================================
