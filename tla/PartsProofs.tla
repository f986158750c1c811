----------------------------- MODULE PartsProofs -----------------------------
(***************************************************************************)
(* The safety of the parts around the engine, for any number of requests,  *)
(* tools, setups, artifacts, clients and events: the callers of a JSON-RPC *)
(* client, the artifact files, the tool server with its docker processes,  *)
(* the rate limiter's windows, and what is derived from a session's events.*)
(***************************************************************************)
EXTENDS Parts, FiniteSetTheorems, SequenceTheorems, TLAPS

-----------------------------------------------------------------------------
(* Induction over data, without the library's theorems on predicates       *)

\* A set of naturals that has an element has a least one.
LEMMA LeastNumber ==
    ASSUME NEW T \in SUBSET Nat, T # {}
    PROVE  \E n \in T : \A m \in T : n <= m
<1> DEFINE Less == {p \in Nat \X Nat : p[1] < p[2]}
<1>1. IsWellFoundedOn(Less, Nat)
  BY NatLessThanWellFounded DEF OpToRel
<1> HIDE DEF Less
<1>2. PICK n \in T : \A m \in T : ~(<<m, n>> \in Less)
  BY <1>1, WFMin
<1>3. ASSUME NEW m \in T
      PROVE  n <= m
  <2>1. <<m, n>> \in Nat \X Nat /\ <<m, n>>[1] = m /\ <<m, n>>[2] = n
    OBVIOUS
  <2>2. ~(m < n)
    BY <1>2, <2>1 DEF Less
  <2>3. QED  BY <2>2
<1>4. QED  BY <1>3

\* What begins with b and goes on with `step`, up to n.
StartsAndSteps(n, S, b, step) == n \in Nat /\ b \in S /\ step \in [(1 .. n) \X S -> S]

IsRecursion(f, n, S, b, step) ==
    f \in [0 .. n -> S] /\ f[0] = b /\ \A i \in 1 .. n : f[i] = step[<<i, f[i - 1]>>]

\* A recursive definition on 0 .. n, by a step, has a function.
LEMMA RecursionExists ==
    ASSUME NEW n, NEW S, NEW b, NEW step, StartsAndSteps(n, S, b, step)
    PROVE  \E f : IsRecursion(f, n, S, b, step)
<1> USE DEF StartsAndSteps
<1> DEFINE Good(m) == \E f \in [0 .. m -> S] :
                         f[0] = b /\ \A i \in 1 .. m : f[i] = step[<<i, f[i - 1]>>]
           T == {m \in 0 .. n : ~Good(m)}
<1>1. CASE n \notin T
  BY <1>1 DEF IsRecursion
<1>2. CASE n \in T
  <2>1. PICK m \in T : \A k \in T : m <= k
    <3>1. T \in SUBSET Nat /\ T # {}
      BY <1>2
    <3>2. QED  BY ONLY <3>1, LeastNumber
  <2>2. CASE m = 0
    <3> DEFINE g == [i \in 0 .. 0 |-> b]
    <3>1. g \in [0 .. 0 -> S] /\ g[0] = b /\ \A i \in 1 .. 0 : FALSE
      OBVIOUS
    <3> HIDE DEF g
    <3>2. Good(0)
      BY <3>1
    <3>3. QED  BY <2>1, <2>2, <3>2
  <2>3. CASE m # 0
    <3>1. m - 1 \in 0 .. n /\ m \in 1 .. n /\ Good(m - 1)
      BY <2>1, <2>3
    <3>2. PICK f \in [0 .. m - 1 -> S] :
             f[0] = b /\ \A i \in 1 .. m - 1 : f[i] = step[<<i, f[i - 1]>>]
      BY <3>1
    <3> DEFINE g == [i \in 0 .. m |-> IF i = m THEN step[<<m, f[m - 1]>>] ELSE f[i]]
    <3>3. f[m - 1] \in S /\ step[<<m, f[m - 1]>>] \in S
      BY <3>1, <3>2
    <3>4. g \in [0 .. m -> S]
      BY <3>1, <3>2, <3>3
    <3>5. g[0] = b
      BY <3>1, <3>2
    <3>6. ASSUME NEW i \in 1 .. m
          PROVE  g[i] = step[<<i, g[i - 1]>>]
      <4>1. g[i - 1] = f[i - 1]
        BY <3>1
      <4>2. CASE i = m
        BY <3>1, <4>1, <4>2
      <4>3. CASE i # m
        BY <3>1, <3>2, <4>1, <4>3
      <4>4. QED  BY <4>2, <4>3
    <3> HIDE DEF g
    <3>7. Good(m)
      BY <3>4, <3>5, <3>6
    <3>8. QED  BY <2>1, <3>7
  <2>4. QED  BY <2>2, <2>3
<1>3. QED  BY <1>1, <1>2

\* f and g agree at `from` and step alike.
StepAlike(f, g, from, n) ==
    /\ from \in Nat /\ n \in Nat /\ f[from] = g[from]
    /\ \A i \in 1 .. n : i > from /\ f[i - 1] = g[i - 1] => f[i] = g[i]

Agree(f, g, from, n) == \A i \in from .. n : f[i] = g[i]

\* Two functions that agree at `from` and that step alike agree up to n.
LEMMA RecursionUnique ==
    ASSUME NEW f, NEW g, NEW from, NEW n, StepAlike(f, g, from, n)
    PROVE  Agree(f, g, from, n)
<1> USE DEF StepAlike, Agree
<1> DEFINE T == {i \in from .. n : f[i] # g[i]}
<1>1. CASE T = {}
  BY <1>1
<1>2. CASE T # {}
  <2>1. PICK m \in T : \A k \in T : m <= k
    <3>1. T \in SUBSET Nat
      OBVIOUS
    <3>2. QED  BY ONLY <1>2, <3>1, LeastNumber
  <2>2. m \in 1 .. n /\ m > from /\ m - 1 \in from .. n
    BY <2>1
  <2>3. f[m - 1] = g[m - 1]
    BY <2>1, <2>2
  <2>4. QED  BY <2>1, <2>2, <2>3
<1>3. QED  BY <1>1, <1>2

-----------------------------------------------------------------------------
(* ToolServer                                                              *)

ToolTypeOK ==
    /\ setup \in Setups
    /\ call \in [Requests -> {"idle", "running", "answered"}]
    /\ tool \in [Requests -> Tools \cup {UnknownTool}]
    /\ trail \in [Requests -> Seq({"policy_evaluated", "approved", "denied"})]
    /\ child \in [Requests -> {"none", "running", "closed"}]
    /\ output \in [Requests -> {"none", "partial", "ok", "error", "bad"}]
    /\ timedOut \in [Requests -> BOOLEAN]
    /\ killed \in [Requests -> {"no", "sent", "failed"}]
    /\ answer \in [Requests -> {"none", "unknown_tool", "denied", "invalid_input",
                                "refused", "ok", "failed", "invalid_output",
                                "timed_out"}]

\* What has happened to a call when it is where it is.
CallOK(r) ==
    /\ Ran(r) => /\ Refusal(tool[r], TRUE) = "none"
                 /\ trail[r] = <<"policy_evaluated", "approved">>
    /\ call[r] = "idle" => child[r] = "none"
    /\ call[r] # "answered" => answer[r] = "none" /\ killed[r] # "failed"
    /\ child[r] # "none" => setup.executor = "docker"
    /\ call[r] = "running" /\ setup.executor = "docker" => child[r] = "running"
    /\ child[r] = "none" => ~timedOut[r]
    /\ timedOut[r] => answer[r] \in {"none", "timed_out"}
    /\ answer[r] = "ok" /\ setup.executor = "docker" => output[r] = "ok"
    /\ call[r] = "answered" /\ child[r] = "running" => killed[r] = "failed"

ToolInv == ToolTypeOK /\ \A r \in Requests : CallOK(r)

\* The type of what the steps of a call assign.
LEMMA ToolStepType ==
    ASSUME ToolTypeOK, NEW r \in Requests,
           \/ Call(r) \/ HandlerDone(r) \/ ChildWrites(r) \/ Timer(r)
           \/ ChildCloses(r) \/ SpawnFails(r) \/ KillFails(r)
    PROVE  ToolTypeOK'
<1>1. CASE Call(r)
  <2>1. PICK t \in Tools \cup {UnknownTool}, valid \in BOOLEAN :
           /\ tool' = [tool EXCEPT ![r] = t]
           /\ trail' = [trail EXCEPT ![r] =
                          IF t \notin Registered THEN << >>
                          ELSE <<"policy_evaluated", PolicyEvent(t)>>]
           /\ IF Refusal(t, valid) # "none"
              THEN /\ call' = [call EXCEPT ![r] = "answered"]
                   /\ answer' = [answer EXCEPT ![r] = Refusal(t, valid)]
                   /\ UNCHANGED child
              ELSE /\ call' = [call EXCEPT ![r] = "running"]
                   /\ child' = IF setup.executor = "docker"
                               THEN [child EXCEPT ![r] = "running"] ELSE child
                   /\ UNCHANGED answer
    BY <1>1 DEF Call
  <2>2. PolicyEvent(t) \in {"approved", "denied"}
    BY DEF PolicyEvent
  <2>3. <<"policy_evaluated", PolicyEvent(t)>> \in Seq({"policy_evaluated", "approved", "denied"})
    BY <2>2
  <2>4. trail' \in [Requests -> Seq({"policy_evaluated", "approved", "denied"})]
    <3> DEFINE events == IF t \notin Registered THEN << >>
                         ELSE <<"policy_evaluated", PolicyEvent(t)>>
    <3>1. events \in Seq({"policy_evaluated", "approved", "denied"})
      <4>1. CASE t \notin Registered
        <5>1. events = << >>
          BY <4>1
        <5>2. QED  BY ONLY <5>1
      <4>2. CASE t \in Registered
        <5>1. events = <<"policy_evaluated", PolicyEvent(t)>>
          BY <4>2
        <5>2. QED  BY ONLY <5>1, <2>3
      <4>3. QED  BY <4>1, <4>2
    <3>2. trail' = [trail EXCEPT ![r] = events]
      BY <2>1
    <3> HIDE DEF events
    <3>3. QED  BY <3>1, <3>2 DEF ToolTypeOK
  <2>5. Refusal(t, valid) \in {"unknown_tool", "denied", "invalid_input", "refused", "none"}
    BY DEF Refusal
  <2>6. UNCHANGED <<setup, output, timedOut, killed>>
    BY <1>1 DEF Call
  <2>7. /\ tool' \in [Requests -> Tools \cup {UnknownTool}]
        /\ child' \in [Requests -> {"none", "running", "closed"}]
        /\ call' \in [Requests -> {"idle", "running", "answered"}]
    BY <2>1 DEF ToolTypeOK
  <2>8. answer' \in [Requests -> {"none", "unknown_tool", "denied", "invalid_input",
                                  "refused", "ok", "failed", "invalid_output",
                                  "timed_out"}]
    BY <2>1, <2>5 DEF ToolTypeOK
  <2>9. QED  BY <2>4, <2>6, <2>7, <2>8 DEF ToolTypeOK
<1>2. CASE HandlerDone(r)
  BY <1>2 DEF HandlerDone, Return, ToolTypeOK
<1>3. CASE ChildWrites(r)
  BY <1>3 DEF ChildWrites, ToolTypeOK
<1>4. CASE Timer(r)
  BY <1>4 DEF Timer, ToolTypeOK
<1>5. \A code : Outcome(r, code) \in {"timed_out", "failed", "ok", "invalid_output"}
  BY DEF Outcome, Parsed
<1>6. CASE ChildCloses(r)
  <2>1. /\ child' = [child EXCEPT ![r] = "closed"]
        /\ UNCHANGED <<setup, tool, trail, output, timedOut, killed>>
        /\ \/ UNCHANGED <<call, answer>>
           \/ \E result \in {"timed_out", "failed", "ok", "invalid_output"} : Return(r, result)
    BY <1>5, <1>6 DEF ChildCloses
  <2> DEFINE Answered ==
               /\ call' \in [Requests -> {"idle", "running", "answered"}]
               /\ answer' \in [Requests -> {"none", "unknown_tool", "denied",
                                           "invalid_input", "refused", "ok", "failed",
                                           "invalid_output", "timed_out"}]
  <2>2. Answered
    <3>1. CASE UNCHANGED <<call, answer>>
      BY <3>1 DEF ToolTypeOK
    <3>2. ASSUME NEW result \in {"timed_out", "failed", "ok", "invalid_output"},
                 Return(r, result)
          PROVE  Answered
      BY <3>2 DEF Return, ToolTypeOK
    <3>3. QED  BY <2>1, <3>1, <3>2
  <2>3. QED  BY <2>1, <2>2 DEF ToolTypeOK
<1>7. CASE SpawnFails(r)
  <2>1. Return(r, Outcome(r, "nonzero"))
    BY <1>7 DEF SpawnFails
  <2>2. QED  BY <1>5, <1>7, <2>1 DEF SpawnFails, Return, ToolTypeOK
<1>8. CASE KillFails(r)
  <2>1. Return(r, Outcome(r, "nonzero"))
    BY <1>8 DEF KillFails
  <2>2. QED  BY <1>5, <1>8, <2>1 DEF KillFails, Return, ToolTypeOK
<1>9. QED  BY <1>1, <1>2, <1>3, <1>4, <1>6, <1>7, <1>8

\* The calls do not touch each other.
LEMMA OtherCalls ==
    ASSUME ToolTypeOK, NEW r \in Requests, NEW u \in Requests \ {r}, CallOK(u),
           \/ Call(r) \/ HandlerDone(r) \/ ChildWrites(r) \/ Timer(r)
           \/ ChildCloses(r) \/ SpawnFails(r) \/ KillFails(r)
    PROVE  CallOK(u)'
<1>1. /\ setup' = setup
      /\ call'[u] = call[u] /\ tool'[u] = tool[u] /\ trail'[u] = trail[u]
      /\ child'[u] = child[u] /\ output'[u] = output[u]
      /\ timedOut'[u] = timedOut[u] /\ killed'[u] = killed[u]
      /\ answer'[u] = answer[u]
  BY DEF ToolTypeOK, Call, HandlerDone, ChildWrites, Timer, ChildCloses,
         SpawnFails, KillFails, Return
<1>2. QED
  BY <1>1 DEF CallOK, Ran, Refusal, Registered, Decide, RegistryRefuses, DockerRefuses

\* A call that starts is allowed, and keeps what it was allowed by.
LEMMA OwnCall ==
    ASSUME ToolTypeOK, NEW r \in Requests, CallOK(r),
           \/ Call(r) \/ HandlerDone(r) \/ ChildWrites(r) \/ Timer(r)
           \/ ChildCloses(r) \/ SpawnFails(r) \/ KillFails(r)
    PROVE  CallOK(r)'
<1>1. \A t : Refusal(t, TRUE)' = Refusal(t, TRUE)
  <2>1. setup' = setup
    BY DEF Call, HandlerDone, ChildWrites, Timer, ChildCloses, SpawnFails, KillFails
  <2>2. QED
    BY <2>1 DEF Refusal, Registered, Decide, RegistryRefuses, DockerRefuses
<1>2. CASE Call(r)
  <2>1. PICK t \in Tools \cup {UnknownTool}, valid \in BOOLEAN :
           /\ tool' = [tool EXCEPT ![r] = t]
           /\ trail' = [trail EXCEPT ![r] =
                          IF t \notin Registered THEN << >>
                          ELSE <<"policy_evaluated", PolicyEvent(t)>>]
           /\ IF Refusal(t, valid) # "none"
              THEN /\ call' = [call EXCEPT ![r] = "answered"]
                   /\ answer' = [answer EXCEPT ![r] = Refusal(t, valid)]
                   /\ UNCHANGED child
              ELSE /\ call' = [call EXCEPT ![r] = "running"]
                   /\ child' = IF setup.executor = "docker"
                               THEN [child EXCEPT ![r] = "running"] ELSE child
                   /\ UNCHANGED answer
    BY <1>2 DEF Call
  <2>2. /\ call[r] = "idle" /\ child[r] = "none" /\ answer[r] = "none" /\ ~timedOut[r]
        /\ killed[r] # "failed"
        /\ UNCHANGED <<setup, output, timedOut, killed>>
    BY <1>2 DEF Call, CallOK
  <2>3. CASE Refusal(t, valid) # "none"
    <3>1. /\ call'[r] = "answered" /\ child'[r] = "none"
          /\ answer'[r] \in {"unknown_tool", "denied", "invalid_input", "refused"}
      BY <2>1, <2>2, <2>3 DEF ToolTypeOK, Refusal
    <3>2. QED  BY <2>2, <3>1 DEF CallOK, Ran
  <2>4. CASE Refusal(t, valid) = "none"
    <3>1. Refusal(t, TRUE) = "none" /\ t \in Registered /\ Decide(t) = "allow"
      BY <2>4 DEF Refusal
    <3>2. trail'[r] = <<"policy_evaluated", "approved">>
      BY <2>1, <3>1 DEF ToolTypeOK, PolicyEvent
    <3>3. /\ tool'[r] = t /\ call'[r] = "running" /\ answer'[r] = "none"
          /\ child'[r] = IF setup.executor = "docker" THEN "running" ELSE "none"
      BY <2>1, <2>2, <2>4 DEF ToolTypeOK
    <3>4. Refusal(tool[r], TRUE)' = "none"
      BY <1>1, <3>1, <3>3 DEF Refusal, Registered, Decide, RegistryRefuses, DockerRefuses
    <3>5. QED  BY <2>2, <3>2, <3>3, <3>4 DEF CallOK, Ran
  <2>5. QED  BY <2>3, <2>4
<1>3. CASE \/ HandlerDone(r) \/ ChildWrites(r) \/ Timer(r)
           \/ ChildCloses(r) \/ SpawnFails(r) \/ KillFails(r)
  <2>1. /\ tool' = tool /\ trail' = trail /\ setup' = setup
        /\ Ran(r)
    BY <1>3 DEF HandlerDone, ChildWrites, Timer, ChildCloses, SpawnFails, KillFails, Ran
  <2>2. /\ Refusal(tool[r], TRUE)' = "none"
        /\ trail'[r] = <<"policy_evaluated", "approved">>
    BY <1>1, <2>1 DEF CallOK, Refusal, Registered, Decide, RegistryRefuses, DockerRefuses
  <2>3. CASE HandlerDone(r)
    BY <2>1, <2>2, <2>3 DEF HandlerDone, Return, CallOK, ToolTypeOK
  <2>4. CASE ChildWrites(r)
    BY <2>1, <2>2, <2>4 DEF ChildWrites, CallOK, ToolTypeOK
  <2>5. CASE Timer(r)
    BY <2>1, <2>2, <2>5 DEF Timer, CallOK, ToolTypeOK
  <2>6. \A code : /\ Outcome(r, code) # "none"
                  /\ timedOut[r] => Outcome(r, code) = "timed_out"
                  /\ Outcome(r, code) = "ok" => output[r] = "ok"
    BY DEF Outcome, Parsed
  <2>7. CASE ChildCloses(r)
    <3>1. /\ child'[r] = "closed" /\ setup.executor = "docker"
          /\ UNCHANGED <<setup, output, timedOut, killed>>
      BY <2>7 DEF ChildCloses, CallOK, ToolTypeOK
    <3>2. CASE call[r] = "running"
      <4>1. PICK code \in {"zero", "nonzero", "signal"} : Return(r, Outcome(r, code))
        BY <2>7, <3>2 DEF ChildCloses
      <4>2. call'[r] = "answered" /\ answer'[r] = Outcome(r, code)
        BY <4>1 DEF Return, ToolTypeOK
      <4>3. /\ Outcome(r, code) # "none"
            /\ timedOut[r] => Outcome(r, code) = "timed_out"
            /\ Outcome(r, code) = "ok" => output[r] = "ok"
        BY <2>6
      <4>4. QED  BY <2>1, <2>2, <3>1, <4>2, <4>3 DEF CallOK
    <3>3. CASE call[r] # "running"
      <4>1. UNCHANGED <<call, answer>>
        BY <2>7, <3>3 DEF ChildCloses
      <4>2. QED  BY <2>1, <2>2, <3>1, <3>3, <4>1 DEF CallOK, Ran
    <3>4. QED  BY <3>2, <3>3
  <2>8. CASE SpawnFails(r)
    <3>1. /\ call'[r] = "answered" /\ answer'[r] = Outcome(r, "nonzero")
          /\ child'[r] = "closed" /\ UNCHANGED <<setup, output, timedOut, killed>>
      BY <2>8 DEF SpawnFails, Return, ToolTypeOK
    <3>2. /\ Outcome(r, "nonzero") # "none"
          /\ timedOut[r] => Outcome(r, "nonzero") = "timed_out"
          /\ Outcome(r, "nonzero") = "ok" => output[r] = "ok"
      BY <2>6
    <3>3. setup.executor = "docker"
      BY <2>8 DEF SpawnFails, CallOK
    <3>4. QED  BY <2>1, <2>2, <3>1, <3>2, <3>3 DEF CallOK
  <2>9. CASE KillFails(r)
    <3>1. /\ call'[r] = "answered" /\ answer'[r] = Outcome(r, "nonzero")
          /\ killed'[r] = "failed" /\ UNCHANGED <<setup, child, output, timedOut>>
      BY <2>9 DEF KillFails, Return, ToolTypeOK
    <3>2. /\ Outcome(r, "nonzero") # "none"
          /\ timedOut[r] => Outcome(r, "nonzero") = "timed_out"
          /\ Outcome(r, "nonzero") = "ok" => output[r] = "ok"
      BY <2>6
    <3>3. child[r] = "running" /\ setup.executor = "docker"
      BY <2>9 DEF KillFails, CallOK
    <3>4. QED  BY <2>1, <2>2, <3>1, <3>2, <3>3 DEF CallOK
  <2>10. QED  BY <1>3, <2>3, <2>4, <2>5, <2>7, <2>8, <2>9
<1>4. QED  BY <1>2, <1>3

\* The invariant of the calls is kept by the steps of every call.
LEMMA ToolStepKeeps ==
    ASSUME ToolInv, ToolNext
    PROVE  ToolInv'
<1>1. PICK r \in Requests :
         \/ Call(r) \/ HandlerDone(r) \/ ChildWrites(r) \/ Timer(r)
         \/ ChildCloses(r) \/ SpawnFails(r) \/ KillFails(r)
  BY DEF ToolNext
<1>2. ToolTypeOK'
  BY <1>1, ToolStepType DEF ToolInv
<1>3. CallOK(r)'
  BY <1>1, OwnCall DEF ToolInv
<1>4. \A u \in Requests \ {r} : CallOK(u)'
  BY <1>1, OtherCalls DEF ToolInv
<1>5. QED  BY <1>2, <1>3, <1>4 DEF ToolInv

\* A call that has run was allowed when it began.
LEMMA RanIsAllowed == ASSUME ToolInv PROVE RunsOnlyAllowed
<1> SUFFICES ASSUME NEW r \in Requests, Ran(r)
             PROVE  LET t == tool[r]
                        listed == Overridden(t, setup.allowTools, setup.allowPermissions)
                    IN  /\ t # UnknownTool
                        /\ trail[r] = <<"policy_evaluated", "approved">>
                        /\ ~Overridden(t, setup.denyTools, setup.denyPermissions)
                        /\ setup.mode = "ask" => listed
                        /\ PermissionOf[t] = "dangerous" =>
                             /\ setup.mode = "yolo" \/ listed
                             /\ setup.executor = "registry" => setup.trusted
                        /\ (t = Exec /\ setup.executor = "docker") =>
                             setup.timeout /\ ~setup.network /\ t \in setup.allowedTools
  BY DEF RunsOnlyAllowed
<1>1. Refusal(tool[r], TRUE) = "none" /\ trail[r] = <<"policy_evaluated", "approved">>
  BY DEF ToolInv, CallOK
<1>2. /\ tool[r] \in Registered /\ Decide(tool[r]) = "allow"
      /\ ~(setup.executor = "registry" /\ RegistryRefuses(tool[r]))
      /\ ~(setup.executor = "docker" /\ DockerRefuses(tool[r]))
  BY <1>1 DEF Refusal
<1>3. tool[r] # UnknownTool
  BY <1>2, ToolServerAssumption DEF Registered
<1>4. QED
  BY <1>1, <1>2, <1>3 DEF Decide, RegistryRefuses, DockerRefuses

\* Of a call that is over, what it answered and what it left behind.
LEMMA RunsEnd == ASSUME ToolInv PROVE DockerRunEnds
BY DEF ToolInv, CallOK, DockerRunEnds, LateResultDropped, NoStrayChild

\* Nothing has been called in the beginning.
LEMMA ToolInitInv == ASSUME ToolInit PROVE ToolInv
BY DEF ToolInit, ToolInv, ToolTypeOK, CallOK, Ran

-----------------------------------------------------------------------------
(* ArtifactFiles                                                           *)

\* How much of the two files there is after so many file operations.
Written(n) ==
    [data |-> IF n = 0 THEN "none" ELSE IF n = 1 THEN "partial" ELSE "whole",
     meta |-> IF n <= 2 THEN "none" ELSE IF n = 3 THEN "partial" ELSE "whole"]

ArtifactTypeOK ==
    /\ files \in [Artifacts -> [data : {"none", "partial", "whole"},
                                meta : {"none", "partial", "whole"}]]
    /\ put \in [Artifacts -> {"idle", "writing", "returned", "broken"}]
    /\ ops \in [Artifacts -> 0 .. 4]
    /\ logged \subseteq Artifacts
    /\ get \in [of : Artifacts \cup {NoArtifact}, logged : BOOLEAN]

\* put() does the file operations in their order; a reference is logged after
\* all four; a get() under way has seen the whole metadata.
ArtifactInv ==
    /\ ArtifactTypeOK
    /\ \A a \in Artifacts :
         /\ files[a] = Written(ops[a])
         /\ put[a] = "idle" => ops[a] = 0
         /\ put[a] = "writing" => ops[a] <= 3
         /\ put[a] = "returned" => ops[a] = 4
         /\ a \in logged => put[a] = "returned"
    /\ get.of # NoArtifact => get.of \in Artifacts /\ ops[get.of] = 4
    /\ ArtifactsWhole

\* There is no file in the beginning.
LEMMA ArtifactInitInv == ASSUME ArtifactInit PROVE ArtifactInv
BY DEF ArtifactInit, ArtifactInv, ArtifactTypeOK, Written, ArtifactsWhole

\* The invariant of the files is kept by put(), by get() and by the log.
LEMMA ArtifactStepKeeps ==
    ASSUME ArtifactInv, ArtifactNext
    PROVE  ArtifactInv'
<1>1. ASSUME NEW a \in Artifacts, PutStart(a)
      PROVE  ArtifactInv'
  BY <1>1 DEF PutStart, ArtifactInv, ArtifactTypeOK, Written, ArtifactsWhole
<1>2. ASSUME NEW a \in Artifacts, PutBreaks(a)
      PROVE  ArtifactInv'
  BY <1>2 DEF PutBreaks, ArtifactInv, ArtifactTypeOK, Written, ArtifactsWhole
<1>3. ASSUME NEW a \in Artifacts, LogRef(a)
      PROVE  ArtifactInv'
  BY <1>3 DEF LogRef, ArtifactInv, ArtifactTypeOK, Written, ArtifactsWhole
<1>4. ASSUME NEW a \in Artifacts, PutWrites(a)
      PROVE  ArtifactInv'
  <2>1. ops[a] \in 0 .. 3 /\ files[a] = Written(ops[a]) /\ put[a] = "writing"
    BY <1>4 DEF PutWrites, ArtifactInv, ArtifactTypeOK
  <2>2. /\ ops'[a] = ops[a] + 1
        /\ \A b \in Artifacts \ {a} : ops'[b] = ops[b]
        /\ ops' \in [Artifacts -> 0 .. 4]
    BY <1>4, <2>1 DEF PutWrites, ArtifactInv, ArtifactTypeOK
  <2>3. files' = [files EXCEPT ![a] = Written(ops[a] + 1)]
    <3> DEFINE n == ops[a]
               file == FileOrder[(n \div 2) + 1]
    <3>1. files' = [files EXCEPT ![a] = [files[a] EXCEPT ![file] =
                       IF n % 2 = 0 THEN "partial" ELSE "whole"]]
      BY <1>4 DEF PutWrites
    <3>2. [Written(n) EXCEPT ![file] = IF n % 2 = 0 THEN "partial" ELSE "whole"]
            = Written(n + 1)
      <4>1. CASE n = 0
        BY <4>1 DEF Written, FileOrder
      <4>2. CASE n = 1
        BY <4>2 DEF Written, FileOrder
      <4>3. CASE n = 2
        BY <4>3 DEF Written, FileOrder
      <4>4. CASE n = 3
        BY <4>4 DEF Written, FileOrder
      <4>5. QED  BY <2>1, <4>1, <4>2, <4>3, <4>4
    <3>3. QED  BY <2>1, <3>1, <3>2
  <2>4. /\ \A b \in Artifacts : files'[b] = Written(ops'[b])
        /\ files' \in [Artifacts -> [data : {"none", "partial", "whole"},
                                     meta : {"none", "partial", "whole"}]]
    BY <2>1, <2>2, <2>3 DEF ArtifactInv, ArtifactTypeOK, Written
  <2>5. /\ put' \in [Artifacts -> {"idle", "writing", "returned", "broken"}]
        /\ put'[a] = IF ops[a] = 3 THEN "returned" ELSE "writing"
        /\ \A b \in Artifacts \ {a} : put'[b] = put[b]
    BY <1>4, <2>1 DEF PutWrites, ArtifactInv, ArtifactTypeOK
  <2>6. a \notin logged /\ UNCHANGED <<logged, get, gotten>>
    BY <1>4, <2>1 DEF PutWrites, ArtifactInv
  <2>7. get.of # NoArtifact => get.of # a
    BY <2>1 DEF ArtifactInv
  <2>8. QED
    BY <2>1, <2>2, <2>4, <2>5, <2>6, <2>7 DEF ArtifactInv, ArtifactTypeOK, ArtifactsWhole
<1>5. ASSUME NEW a \in Artifacts, GetMeta(a)
      PROVE  ArtifactInv'
  <2>1. /\ files[a].meta = "whole" <=> ops[a] = 4
        /\ a \in logged => ops[a] = 4
    BY DEF ArtifactInv, ArtifactTypeOK, Written
  <2>2. CASE files[a].meta = "whole"
    <3>1. /\ get' = [of |-> a, logged |-> a \in logged]
          /\ UNCHANGED <<files, put, ops, logged, gotten>>
      BY <1>5, <2>2 DEF GetMeta
    <3>2. get' \in [of : Artifacts \cup {NoArtifact}, logged : BOOLEAN] /\ get'.of = a
      BY <1>5, <3>1
    <3>3. ArtifactTypeOK'
      BY <3>1, <3>2 DEF ArtifactInv, ArtifactTypeOK
    <3>4. QED  BY <1>5, <2>1, <2>2, <3>1, <3>2, <3>3 DEF ArtifactInv, ArtifactsWhole, Written
  <2>3. CASE files[a].meta # "whole"
    <3>1. /\ gotten' = gotten \cup
                  {[artifact |-> a, found |-> "undefined", logged |-> a \in logged]}
          /\ UNCHANGED <<files, put, ops, logged, get>>
      BY <1>5, <2>3 DEF GetMeta, Gotten
    <3>2. a \notin logged
      BY <2>1, <2>3
    <3>3. \A g \in gotten' : /\ g.found \in {"whole", "undefined"}
                            /\ g.logged => g.found = "whole"
      <4> SUFFICES ASSUME NEW g \in gotten'
                   PROVE  /\ g.found \in {"whole", "undefined"}
                          /\ g.logged => g.found = "whole"
        OBVIOUS
      <4>1. CASE g \in gotten
        BY <4>1 DEF ArtifactInv, ArtifactsWhole
      <4>2. CASE g = [artifact |-> a, found |-> "undefined", logged |-> a \in logged]
        BY <3>2, <4>2
      <4>3. QED  BY <3>1, <4>1, <4>2
    <3>4. ArtifactTypeOK'
      BY <3>1 DEF ArtifactInv, ArtifactTypeOK
    <3>5. QED  BY <3>1, <3>3, <3>4 DEF ArtifactInv, ArtifactsWhole, Written
  <2>4. QED  BY <2>2, <2>3
<1>6. CASE GetData
  <2>1. get.of \in Artifacts /\ ops[get.of] = 4
    BY <1>6 DEF GetData, ArtifactInv
  <2>2. files[get.of] = Written(4)
    BY <2>1 DEF ArtifactInv
  <2>3. files[get.of].data = "whole"
    BY <2>2 DEF Written
  <2>4. /\ gotten' = gotten \cup
               {[artifact |-> get.of, found |-> "whole", logged |-> get.logged]}
        /\ get' = [get EXCEPT !.of = NoArtifact]
        /\ UNCHANGED <<files, put, ops, logged>>
    BY <1>6, <2>3 DEF GetData, Gotten
  <2>5. ArtifactTypeOK' /\ get'.of = NoArtifact
    BY <2>4 DEF ArtifactInv, ArtifactTypeOK
  <2>6. ArtifactsWhole'
    BY <2>4 DEF ArtifactInv, ArtifactsWhole
  <2>7. QED  BY <2>4, <2>5, <2>6 DEF ArtifactInv, Written
<1>7. QED  BY <1>1, <1>2, <1>3, <1>4, <1>5, <1>6 DEF ArtifactNext

-----------------------------------------------------------------------------
(* JsonRpc                                                                 *)

AnswerKinds == {"result", "error"}

LineOf == [id : 0 .. MaxRequests, kind : AnswerKinds \cup {"other"}]

RpcTypeOK ==
    /\ rpcClosed \in BOOLEAN
    /\ nextId \in 1 .. MaxRequests + 1
    /\ waiting \subseteq Ids
    /\ promise \in [Ids -> {"none", "waiting", "result", "error", "closed"}]
    /\ lines \in Seq(LineOf)
    /\ said \in [Ids -> Seq(AnswerKinds)]

\* No line before the k-th is about request i.
FirstAbout(i, k) ==
    /\ k \in 1 .. Len(lines) /\ lines[k].id = i
    /\ \A j \in 1 .. k - 1 : lines[j].id # i

\* A request waits exactly as long as it is pending; what can be read about a
\* request was said, and the next line about one that waits is what was said
\* first.
RpcInv ==
    /\ RpcTypeOK
    /\ \A i \in Ids :
         /\ i \in waiting <=> promise[i] = "waiting"
         /\ i >= nextId => promise[i] = "none" /\ said[i] = << >>
         /\ promise[i] \in AnswerKinds =>
              said[i] # << >> /\ promise[i] = Head(said[i])
         /\ i \in waiting /\ said[i] # << >> =>
              \E k \in 1 .. Len(lines) : lines[k].id = i
    /\ rpcClosed => waiting = {}
    /\ \A k \in 1 .. Len(lines) : lines[k].id \in Ids =>
         /\ lines[k].kind \in AnswerKinds
         /\ said[lines[k].id] # << >>
         /\ (lines[k].id \in waiting /\ FirstAbout(lines[k].id, k)) =>
              lines[k].kind = Head(said[lines[k].id])

\* The client begins with nobody waiting.
LEMMA RpcInitInv == ASSUME RpcInit PROVE RpcInv
<1>1. RpcTypeOK
  <2>1. << >> \in Seq(LineOf) /\ << >> \in Seq(AnswerKinds)
    OBVIOUS
  <2>2. /\ rpcClosed = FALSE /\ nextId = 1 /\ waiting = {} /\ lines = << >>
        /\ promise = [i \in Ids |-> "none"] /\ said = [i \in Ids |-> << >>]
    BY DEF RpcInit
  <2>3. nextId \in 1 .. MaxRequests + 1
    BY <2>2, JsonRpcAssumption
  <2>4. said \in [Ids -> Seq(AnswerKinds)]
    BY <2>1, <2>2
  <2>5. QED  BY <2>1, <2>2, <2>3, <2>4 DEF RpcTypeOK
<1>2. Len(lines) = 0 /\ waiting = {}
  BY DEF RpcInit
<1>3. \A i \in Ids : promise[i] = "none" /\ said[i] = << >>
  BY DEF RpcInit
<1>4. QED  BY <1>1, <1>2, <1>3 DEF RpcInv, AnswerKinds

\* A new request: nobody has spoken about it.
LEMMA RequestKeeps ==
    ASSUME RpcInv, Request
    PROVE  RpcInv'
<1>1. /\ nextId \in Ids /\ nextId' = nextId + 1 /\ nextId \in Nat
      /\ UNCHANGED <<proc, rpcClosed, lines, said>>
  BY DEF Request, Ids
<1>2. promise[nextId] = "none" /\ said[nextId] = << >> /\ nextId \notin waiting
  <2>1. promise[nextId] = "none" /\ said[nextId] = << >>
    BY <1>1 DEF RpcInv
  <2>2. QED  BY <1>1, <2>1 DEF RpcInv
<1>3. RpcTypeOK'
  <2>1. nextId' \in 1 .. MaxRequests + 1
    BY <1>1, JsonRpcAssumption DEF Ids
  <2>2. /\ waiting' \subseteq Ids
        /\ promise' \in [Ids -> {"none", "waiting", "result", "error", "closed"}]
    <3>1. /\ waiting \subseteq Ids
          /\ promise \in [Ids -> {"none", "waiting", "result", "error", "closed"}]
      BY DEF RpcInv, RpcTypeOK
    <3>2. CASE rpcClosed
      BY <1>1, <3>1, <3>2 DEF Request
    <3>3. CASE ~rpcClosed
      BY <1>1, <3>1, <3>3 DEF Request
    <3>4. QED  BY <3>2, <3>3
  <2>3. QED  BY <1>1, <2>1, <2>2 DEF RpcInv, RpcTypeOK
<1>4. \A i \in Ids \ {nextId} : promise'[i] = promise[i] /\ (i \in waiting' <=> i \in waiting)
  BY DEF Request, RpcInv, RpcTypeOK
<1>5. /\ promise'[nextId] \in {"waiting", "closed"}
      /\ nextId \in waiting' <=> promise'[nextId] = "waiting"
  BY <1>1, <1>2 DEF Request, RpcInv, RpcTypeOK
<1>6. rpcClosed => waiting' = {}
  BY DEF Request, RpcInv
<1>7. ASSUME NEW i \in Ids
      PROVE  /\ i \in waiting' <=> promise'[i] = "waiting"
             /\ i >= nextId' => promise'[i] = "none" /\ said'[i] = << >>
             /\ promise'[i] \in AnswerKinds =>
                  said'[i] # << >> /\ promise'[i] = Head(said'[i])
             /\ i \in waiting' /\ said'[i] # << >> =>
                  \E k \in 1 .. Len(lines') : lines'[k].id = i
  <2>1. CASE i = nextId
    BY <1>1, <1>2, <1>5, <2>1 DEF AnswerKinds, Ids
  <2>2. CASE i # nextId
    <3>1. promise'[i] = promise[i] /\ (i \in waiting' <=> i \in waiting)
      BY <1>4, <2>2
    <3>2. i >= nextId' => i >= nextId
      BY <1>1 DEF Ids
    <3>3. said' = said /\ lines' = lines
      BY <1>1
    <3>4. QED  BY <3>1, <3>2, <3>3 DEF RpcInv
  <2>3. QED  BY <2>1, <2>2
<1>8. ASSUME NEW k \in 1 .. Len(lines'), lines'[k].id \in Ids
      PROVE  /\ lines'[k].kind \in AnswerKinds
             /\ said'[lines'[k].id] # << >>
             /\ (lines'[k].id \in waiting' /\ FirstAbout(lines[k].id, k)') =>
                  lines'[k].kind = Head(said'[lines'[k].id])
  <2>1. lines[k].kind \in AnswerKinds /\ said[lines[k].id] # << >>
    BY <1>1, <1>8 DEF RpcInv
  <2>2. lines[k].id # nextId
    BY <1>2, <2>1
  <2>3. lines[k].id \in waiting' <=> lines[k].id \in waiting
    BY <1>1, <1>4, <1>8, <2>2
  <2>4. QED  BY <1>1, <1>8, <2>1, <2>3 DEF RpcInv, FirstAbout
<1>9. QED  BY <1>1, <1>3, <1>6, <1>7, <1>8 DEF RpcInv

\* The process writes a line, of an answer or of nothing.
LEMMA WritesKeep ==
    ASSUME RpcInv, ProcessAnswers \/ ProcessChatters
    PROVE  RpcInv'
<1>1. UNCHANGED <<rpcClosed, nextId, waiting, promise>>
  BY DEF ProcessAnswers, ProcessChatters
<1>2. ASSUME NEW id \in Ids, NEW kind \in AnswerKinds, id < nextId,
             lines' = Append(lines, [id |-> id, kind |-> kind]),
             said' = [said EXCEPT ![id] = Append(@, kind)]
      PROVE  RpcInv'
  <2> DEFINE n == Len(lines)
             l == [id |-> id, kind |-> kind]
  <2>1. lines \in Seq(LineOf) /\ said[id] \in Seq(AnswerKinds) /\ l \in LineOf
    BY JsonRpcAssumption DEF RpcInv, RpcTypeOK, LineOf, Ids
  <2>2. /\ lines' \in Seq(LineOf) /\ Len(lines') = n + 1 /\ lines'[n + 1] = l
        /\ \A k \in 1 .. n : lines'[k] = lines[k]
        /\ n \in Nat
    BY <1>2, <2>1
  <2>3. /\ said'[id] = Append(said[id], kind)
        /\ \A i \in Ids \ {id} : said'[i] = said[i]
    BY <1>2 DEF RpcInv, RpcTypeOK
  <2>4. /\ said'[id] \in Seq(AnswerKinds) /\ said'[id] # << >>
        /\ Head(said'[id]) = IF said[id] = << >> THEN kind ELSE Head(said[id])
    <3>1. ASSUME NEW old \in Seq(AnswerKinds)
          PROVE  /\ Append(old, kind) \in Seq(AnswerKinds) /\ Append(old, kind) # << >>
                 /\ Head(Append(old, kind)) = IF old = << >> THEN kind ELSE Head(old)
      <4>1. CASE old = << >>
        BY ONLY <4>1, kind \in AnswerKinds
      <4>2. CASE old # << >>
        <5>1. Append(old, kind)[1] = old[1] /\ Len(Append(old, kind)) > 0
          BY ONLY <4>2, kind \in AnswerKinds, old \in Seq(AnswerKinds)
        <5>2. QED
          BY ONLY <4>2, <5>1, kind \in AnswerKinds, old \in Seq(AnswerKinds)
      <4>3. QED  BY <4>1, <4>2
    <3>2. QED  BY <2>1, <2>3, <3>1
  <2>5. said' \in [Ids -> Seq(AnswerKinds)]
    BY <1>2, <2>1 DEF RpcInv, RpcTypeOK
  <2>6. RpcTypeOK'
    BY <1>1, <2>2, <2>5 DEF RpcInv, RpcTypeOK
  <2>7. \A i \in Ids : said[i] # << >> => said'[i] # << >> /\ Head(said'[i]) = Head(said[i])
    BY <2>3, <2>4
  <2>8. ASSUME NEW i \in Ids
        PROVE  /\ i \in waiting' <=> promise'[i] = "waiting"
               /\ i >= nextId' => promise'[i] = "none" /\ said'[i] = << >>
               /\ promise'[i] \in AnswerKinds =>
                    said'[i] # << >> /\ promise'[i] = Head(said'[i])
               /\ i \in waiting' /\ said'[i] # << >> =>
                    \E k \in 1 .. Len(lines') : lines'[k].id = i
    <3>1. i \in waiting' <=> promise'[i] = "waiting"
      BY <1>1 DEF RpcInv
    <3>2. i >= nextId' => promise'[i] = "none" /\ said'[i] = << >>
      BY <1>1, <1>2, <2>3 DEF RpcInv, RpcTypeOK, Ids
    <3>3. promise'[i] \in AnswerKinds => said'[i] # << >> /\ promise'[i] = Head(said'[i])
      BY <1>1, <2>7 DEF RpcInv
    <3>4. CASE i = id
      <4>1. n + 1 \in 1 .. Len(lines') /\ lines'[n + 1].id = i
        BY <2>2, <3>4
      <4>2. QED  BY <3>1, <3>2, <3>3, <4>1
    <3>5. CASE i # id
      <4>1. said'[i] = said[i]
        BY <2>3, <3>5
      <4>2. i \in waiting /\ said[i] # << >> => \E k \in 1 .. n : lines[k].id = i
        BY DEF RpcInv
      <4>3. i \in waiting' /\ said'[i] # << >> =>
              \E k \in 1 .. Len(lines') : lines'[k].id = i
        BY <1>1, <2>2, <4>1, <4>2
      <4>4. QED  BY <3>1, <3>2, <3>3, <4>3
    <3>6. QED  BY <3>4, <3>5
  <2>9. ASSUME NEW k \in 1 .. Len(lines'), lines'[k].id \in Ids
        PROVE  /\ lines'[k].kind \in AnswerKinds
               /\ said'[lines'[k].id] # << >>
               /\ (lines'[k].id \in waiting' /\ FirstAbout(lines[k].id, k)') =>
                    lines'[k].kind = Head(said'[lines'[k].id])
    <3>1. CASE k \in 1 .. n
      <4>1. lines'[k] = lines[k]
        BY <2>2, <3>1
      <4>2. /\ lines[k].kind \in AnswerKinds
            /\ said[lines[k].id] # << >>
            /\ (lines[k].id \in waiting /\ FirstAbout(lines[k].id, k)) =>
                 lines[k].kind = Head(said[lines[k].id])
        BY <2>9, <3>1, <4>1 DEF RpcInv
      <4>3. FirstAbout(lines[k].id, k)' => FirstAbout(lines[k].id, k)
        BY <2>2, <3>1, <4>1 DEF FirstAbout
      <4>4. QED  BY <1>1, <2>7, <2>9, <4>1, <4>2, <4>3
    <3>2. CASE k = n + 1
      <4>1. lines'[k].id = id /\ lines'[k].kind = kind
        BY <2>2, <3>2
      <4>2. CASE said[id] = << >>
        BY <2>4, <4>1, <4>2
      <4>3. CASE said[id] # << >> /\ id \in waiting
        <5>1. PICK j \in 1 .. n : lines[j].id = id
          BY <4>3 DEF RpcInv
        <5>2. j \in 1 .. k - 1 /\ lines'[j].id = id
          BY <2>2, <3>2, <5>1
        <5>3. ~FirstAbout(lines[k].id, k)'
          BY <4>1, <5>2 DEF FirstAbout
        <5>4. QED  BY <2>4, <4>1, <5>3
      <4>4. CASE id \notin waiting
        BY <1>1, <2>4, <4>1, <4>4
      <4>5. QED  BY <4>2, <4>3, <4>4
    <3>3. QED  BY <2>2, <3>1, <3>2
  <2>10. QED  BY <1>1, <2>6, <2>8, <2>9 DEF RpcInv
<1>3. CASE ProcessAnswers
  <2>1. PICK id \in 1 .. nextId - 1, kind \in {"result", "error"} :
           /\ lines' = Append(lines, [id |-> id, kind |-> kind])
           /\ said' = [said EXCEPT ![id] = Append(@, kind)]
    BY <1>3 DEF ProcessAnswers
  <2>2. id \in Ids /\ id < nextId /\ kind \in AnswerKinds
    BY JsonRpcAssumption DEF RpcInv, RpcTypeOK, Ids, AnswerKinds
  <2>3. QED  BY <1>2, <2>1, <2>2
<1>4. CASE ProcessChatters
  <2> DEFINE n == Len(lines)
             l == [id |-> 0, kind |-> "other"]
  <2>1. lines' = Append(lines, l) /\ said' = said
    BY <1>4 DEF ProcessChatters
  <2>2. lines \in Seq(LineOf) /\ l \in LineOf
    BY JsonRpcAssumption DEF RpcInv, RpcTypeOK, LineOf
  <2>3. /\ lines' \in Seq(LineOf) /\ Len(lines') = n + 1 /\ lines'[n + 1] = l
        /\ \A k \in 1 .. n : lines'[k] = lines[k]
        /\ n \in Nat
    BY <2>1, <2>2
  <2>4. RpcTypeOK'
    BY <1>1, <2>1, <2>3 DEF RpcInv, RpcTypeOK
  <2>5. \A i \in Ids : i \in waiting /\ said[i] # << >> =>
            \E k \in 1 .. Len(lines') : lines'[k].id = i
    <3>1. ASSUME NEW i \in Ids, i \in waiting, said[i] # << >>
          PROVE  \E k \in 1 .. Len(lines') : lines'[k].id = i
      <4>1. PICK k \in 1 .. n : lines[k].id = i
        BY <3>1 DEF RpcInv
      <4>2. k \in 1 .. Len(lines') /\ lines'[k].id = i
        BY <2>3, <4>1
      <4>3. QED  BY <4>2
    <3>2. QED  BY <3>1
  <2>6. ASSUME NEW k \in 1 .. Len(lines'), lines'[k].id \in Ids
        PROVE  /\ lines'[k].kind \in AnswerKinds
               /\ said'[lines'[k].id] # << >>
               /\ (lines'[k].id \in waiting' /\ FirstAbout(lines[k].id, k)') =>
                    lines'[k].kind = Head(said'[lines'[k].id])
    <3>1. k \in 1 .. n /\ lines'[k] = lines[k]
      BY <2>3, <2>6, JsonRpcAssumption DEF Ids
    <3>2. FirstAbout(lines[k].id, k)' => FirstAbout(lines[k].id, k)
      BY <2>3, <3>1 DEF FirstAbout
    <3>3. QED  BY <1>1, <2>1, <2>6, <3>1, <3>2 DEF RpcInv
  <2>7. QED  BY <1>1, <2>1, <2>4, <2>5, <2>6 DEF RpcInv
<1>5. QED  BY <1>3, <1>4

\* A line is read: the caller it is about gets what was said first.
LEMMA LineKeeps ==
    ASSUME RpcInv, Line
    PROVE  RpcInv'
<1> DEFINE l == Head(lines)
           n == Len(lines)
<1>1. lines \in Seq(LineOf) /\ lines # << >>
  BY DEF RpcInv, RpcTypeOK, Line
<1>2. /\ l = lines[1] /\ 1 \in 1 .. n /\ n \in Nat
      /\ lines' \in Seq(LineOf) /\ Len(lines') = n - 1
      /\ \A k \in 1 .. n - 1 : lines'[k] = lines[k + 1]
  BY <1>1 DEF Line
<1>3. UNCHANGED <<rpcClosed, nextId, said>>
  BY DEF Line
<1> HIDE DEF l, n
<1>4. CASE l.id \in waiting
  <2> DEFINE id == l.id
  <2>1. waiting' = waiting \ {id} /\ promise' = [promise EXCEPT ![id] = l.kind]
    BY <1>4 DEF Line, StillPending, l
  <2>2. id \in Ids
    BY <1>4 DEF RpcInv, RpcTypeOK
  <2>3. FirstAbout(lines[1].id, 1)
    BY <1>2 DEF FirstAbout, n
  <2>4. l.kind \in AnswerKinds /\ said[id] # << >> /\ l.kind = Head(said[id])
    BY <1>2, <1>4, <2>2, <2>3 DEF RpcInv, n
  <2> HIDE DEF id
  <2>5. promise'[id] = l.kind /\ \A i \in Ids \ {id} : promise'[i] = promise[i]
    BY <2>1, <2>2 DEF RpcInv, RpcTypeOK, id
  <2>6. QED
    <3>1. RpcTypeOK'
      <4>1. promise' \in [Ids -> {"none", "waiting", "result", "error", "closed"}]
        BY <2>1, <2>4 DEF RpcInv, RpcTypeOK, AnswerKinds, id
      <4>2. QED  BY <1>2, <1>3, <2>1, <4>1 DEF RpcInv, RpcTypeOK
    <3>2. id < nextId
      <4>1. promise[id] = "waiting"
        BY <1>4, <2>2 DEF RpcInv, id
      <4>2. QED  BY <2>2, <4>1 DEF RpcInv, RpcTypeOK, Ids
    <3>3. ASSUME NEW i \in Ids
          PROVE  /\ i \in waiting' <=> promise'[i] = "waiting"
                 /\ i >= nextId' => promise'[i] = "none" /\ said'[i] = << >>
                 /\ promise'[i] \in AnswerKinds =>
                      said'[i] # << >> /\ promise'[i] = Head(said'[i])
                 /\ i \in waiting' /\ said'[i] # << >> =>
                      \E k \in 1 .. Len(lines') : lines'[k].id = i
      <4>1. CASE i = id
        <5>1. i \notin waiting' /\ promise'[i] # "waiting"
          BY <2>1, <2>4, <2>5, <4>1 DEF AnswerKinds
        <5>2. ~(i >= nextId')
          BY <1>3, <2>2, <3>2, <4>1 DEF RpcInv, RpcTypeOK, Ids
        <5>3. QED  BY <1>3, <2>4, <2>5, <4>1, <5>1, <5>2
      <4>2. CASE i # id
        <5>1. promise'[i] = promise[i] /\ (i \in waiting' <=> i \in waiting)
          BY <2>1, <2>5, <4>2 DEF id
        <5>2. ASSUME i \in waiting, said[i] # << >>
              PROVE  \E k \in 1 .. Len(lines') : lines'[k].id = i
          <6>1. PICK k \in 1 .. n : lines[k].id = i
            BY <5>2 DEF RpcInv, n
          <6>2. k # 1
            BY <1>2, <4>2, <6>1 DEF id
          <6>3. k - 1 \in 1 .. Len(lines') /\ lines'[k - 1].id = i
            BY <1>2, <6>1, <6>2
          <6>4. QED  BY <6>3
        <5>3. QED  BY <1>3, <5>1, <5>2 DEF RpcInv
      <4>3. QED  BY <4>1, <4>2
    <3>4. ASSUME NEW k \in 1 .. Len(lines'), lines'[k].id \in Ids
          PROVE  /\ lines'[k].kind \in AnswerKinds
                 /\ said'[lines'[k].id] # << >>
                 /\ (lines'[k].id \in waiting' /\ FirstAbout(lines[k].id, k)') =>
                      lines'[k].kind = Head(said'[lines'[k].id])
      <4>1. /\ k + 1 \in 1 .. n /\ lines'[k] = lines[k + 1]
        BY <1>2, <3>4
      <4>2. /\ lines[k + 1].kind \in AnswerKinds
            /\ said[lines[k + 1].id] # << >>
            /\ (lines[k + 1].id \in waiting /\ FirstAbout(lines[k + 1].id, k + 1)) =>
                 lines[k + 1].kind = Head(said[lines[k + 1].id])
        BY <3>4, <4>1 DEF RpcInv, n
      <4>3. CASE lines[k + 1].id = id
        BY <1>3, <2>1, <3>4, <4>1, <4>2, <4>3
      <4>4. CASE lines[k + 1].id # id
        <5>1. FirstAbout(lines[k].id, k)' => FirstAbout(lines[k + 1].id, k + 1)
          <6>1. ASSUME FirstAbout(lines[k].id, k)'
                PROVE  FirstAbout(lines[k + 1].id, k + 1)
            <7>1. ASSUME NEW j \in 1 .. k
                  PROVE  lines[j].id # lines[k + 1].id
              <8>1. CASE j = 1
                BY <1>2, <4>4, <8>1 DEF id
              <8>2. CASE j # 1
                <9>1. j - 1 \in 1 .. k - 1 /\ lines'[j - 1] = lines[j]
                  BY <1>2, <4>1, <8>2
                <9>2. QED  BY <4>1, <6>1, <9>1 DEF FirstAbout
              <8>3. QED  BY <8>1, <8>2
            <7>2. (k + 1) - 1 = k
              OBVIOUS
            <7>3. QED  BY <4>1, <7>1, <7>2 DEF FirstAbout, n
          <6>2. QED  BY <6>1
        <5>2. QED  BY <1>3, <2>1, <3>4, <4>1, <4>2, <5>1
      <4>5. QED  BY <4>3, <4>4
    <3>5. rpcClosed' => waiting' = {}
      BY <1>3, <2>1 DEF RpcInv
    <3>6. QED  BY <3>1, <3>3, <3>4, <3>5 DEF RpcInv
<1>5. CASE l.id \notin waiting
  <2>1. UNCHANGED <<waiting, promise>>
    BY <1>5 DEF Line, l
  <2>2. RpcTypeOK'
    BY <1>2, <1>3, <2>1 DEF RpcInv, RpcTypeOK
  <2>3. ASSUME NEW i \in Ids, i \in waiting, said[i] # << >>
        PROVE  \E k \in 1 .. Len(lines') : lines'[k].id = i
    <3>1. PICK k \in 1 .. n : lines[k].id = i
      BY <2>3 DEF RpcInv, n
    <3>2. k # 1
      BY <1>2, <1>5, <2>3, <3>1
    <3>3. k - 1 \in 1 .. Len(lines') /\ lines'[k - 1].id = i
      BY <1>2, <3>1, <3>2
    <3>4. QED  BY <3>3
  <2>4. ASSUME NEW k \in 1 .. Len(lines'), lines'[k].id \in Ids
        PROVE  /\ lines'[k].kind \in AnswerKinds
               /\ said'[lines'[k].id] # << >>
               /\ (lines'[k].id \in waiting' /\ FirstAbout(lines[k].id, k)') =>
                    lines'[k].kind = Head(said'[lines'[k].id])
    <3>1. k + 1 \in 1 .. n /\ lines'[k] = lines[k + 1]
      BY <1>2, <2>4
    <3>2. /\ lines[k + 1].kind \in AnswerKinds
          /\ said[lines[k + 1].id] # << >>
          /\ (lines[k + 1].id \in waiting /\ FirstAbout(lines[k + 1].id, k + 1)) =>
               lines[k + 1].kind = Head(said[lines[k + 1].id])
      BY <2>4, <3>1 DEF RpcInv, n
    <3>3. ASSUME FirstAbout(lines[k].id, k)', lines[k + 1].id \in waiting
          PROVE  FirstAbout(lines[k + 1].id, k + 1)
      <4>1. ASSUME NEW j \in 1 .. k
            PROVE  lines[j].id # lines[k + 1].id
        <5>1. CASE j = 1
          BY <1>2, <1>5, <3>3, <5>1
        <5>2. CASE j # 1
          <6>1. j - 1 \in 1 .. k - 1 /\ lines'[j - 1] = lines[j]
            BY <1>2, <3>1, <5>2
          <6>2. QED  BY <3>1, <3>3, <6>1 DEF FirstAbout
        <5>3. QED  BY <5>1, <5>2
      <4>2. (k + 1) - 1 = k
        OBVIOUS
      <4>3. QED  BY <3>1, <4>1, <4>2 DEF FirstAbout, n
    <3>4. QED  BY <1>3, <2>1, <2>4, <3>1, <3>2, <3>3
  <2>5. QED  BY <1>3, <2>1, <2>2, <2>3, <2>4 DEF RpcInv
<1>6. QED  BY <1>4, <1>5

\* The exit and the close: whoever waited is rejected.
LEMMA EndKeeps ==
    ASSUME RpcInv, ProcessExits \/ ExitEvent \/ CloseClient
    PROVE  RpcInv'
<1>1. UNCHANGED <<nextId, lines, said>>
  BY DEF ProcessExits, ExitEvent, CloseClient
<1>2. CASE UNCHANGED <<rpcClosed, waiting, promise>>
  BY <1>1, <1>2 DEF RpcInv, RpcTypeOK, FirstAbout
<1>3. CASE RejectAll
  <2>1. /\ rpcClosed' = TRUE /\ waiting' = {}
        /\ promise' = [i \in Ids |-> IF i \in waiting THEN "closed" ELSE promise[i]]
    BY <1>3 DEF RejectAll
  <2>2. RpcTypeOK'
    BY <1>1, <2>1 DEF RpcInv, RpcTypeOK
  <2>3. \A i \in Ids : /\ promise'[i] # "waiting"
                      /\ \/ promise'[i] = promise[i]
                         \/ promise[i] = "waiting" /\ promise'[i] = "closed"
    BY <2>1 DEF RpcInv
  <2>4. QED  BY <1>1, <2>1, <2>2, <2>3 DEF RpcInv, AnswerKinds
<1>4. QED
  BY <1>2, <1>3 DEF ProcessExits, ExitEvent, CloseClient

\* Every step of the client or of its process keeps the invariant.
LEMMA RpcStepKeeps ==
    ASSUME RpcInv, RpcNext
    PROVE  RpcInv'
BY RequestKeeps, WritesKeep, LineKeeps, EndKeeps DEF RpcNext

\* Every caller is settled with its own first answer, and none after a close.
LEMMA RpcInvSettles == ASSUME RpcInv PROVE CallersSettledOnce
BY DEF RpcInv, CallersSettledOnce, FirstAnswerWins, ClosedLeavesNobody, AnswerKinds

-----------------------------------------------------------------------------
(* RateLimiter                                                             *)

\* The position, among the times t, of the request that began the window of e.
Began(t, e) == Len(t) - (IF e.count <= MaxPerWindow THEN e.count ELSE MaxPerWindow) + 1

\* The requests let through are those of the windows one after the other: the
\* last ones are of the window that the entry e counts, a request MaxPerWindow
\* before it is of an earlier one, and 2 * MaxPerWindow span more than one.
WindowsOK(t, e, at) ==
    /\ \A i \in 1 .. Len(t) : t[i] <= at
    /\ \A i, j \in 1 .. Len(t) : i <= j => t[i] <= t[j]
    /\ e.count > 0 => Began(t, e) > 0 /\ t[Began(t, e)] + WindowMs = e.resetAt
    /\ e.count = 0 => t = << >>
    /\ \A i \in 1 .. Len(t) :
          i + MaxPerWindow <= Began(t, e) => t[i] + WindowMs <= t[Began(t, e)]
    /\ \A i, j \in 1 .. Len(t) : i + 2 * MaxPerWindow <= j => t[i] + WindowMs <= t[j]

Entries == [count : Nat, resetAt : Nat]

RateInv ==
    /\ now \in Nat
    /\ entry \in [Keys -> Entries]
    /\ accepted \in [Keys -> Seq(Nat)]
    /\ \A k \in Keys : WindowsOK(accepted[k], entry[k], now)
    /\ refused \in Keys => /\ entry[refused].count > MaxPerWindow
                           /\ now < entry[refused].resetAt

\* Where an open window began.
LEMMA BeganIn ==
    ASSUME NEW t \in Seq(Nat), NEW e \in Entries, e.count > 0, Began(t, e) > 0
    PROVE  /\ Began(t, e) \in 1 .. Len(t)
           /\ Began(t, e) + MaxPerWindow > Len(t)
           /\ e.count <= MaxPerWindow => Began(t, e) = Len(t) - e.count + 1
           /\ e.count >= MaxPerWindow => Began(t, e) = Len(t) - MaxPerWindow + 1
<1>1. Len(t) \in Nat /\ e.count \in Nat /\ MaxPerWindow \in Nat \ {0}
  BY RateAssumption DEF Entries
<1>2. CASE e.count <= MaxPerWindow
  BY <1>1, <1>2 DEF Began
<1>3. CASE e.count > MaxPerWindow
  BY <1>1, <1>3 DEF Began
<1>4. QED  BY <1>1, <1>2, <1>3

\* A window that begins where none is open.
LEMMA NewWindow ==
    ASSUME NEW t \in Seq(Nat), NEW e \in Entries, NEW at \in Nat, WindowsOK(t, e, at),
           e.count = 0 \/ at >= e.resetAt
    PROVE  WindowsOK(Append(t, at), [count |-> 1, resetAt |-> at + WindowMs], at)
<1> DEFINE u == Append(t, at)
           f == [count |-> 1, resetAt |-> at + WindowMs]
           n == Len(t)
<1>1. /\ n \in Nat /\ Len(u) = n + 1 /\ u[n + 1] = at
      /\ \A i \in 1 .. n : u[i] = t[i] /\ t[i] \in Nat
  OBVIOUS
<1>2. MaxPerWindow \in Nat \ {0} /\ WindowMs \in Nat \ {0}
  BY RateAssumption
<1>3. Began(u, f) = n + 1
  BY <1>1, <1>2 DEF Began
<1>4. ASSUME NEW i \in 1 .. n, i + MaxPerWindow <= n + 1
      PROVE  t[i] + WindowMs <= at
  <2>1. e.count > 0 /\ e.count \in Nat /\ at >= e.resetAt
    BY <1>1 DEF WindowsOK, Entries
  <2>2. Began(t, e) \in 1 .. n /\ i <= Began(t, e) /\ t[Began(t, e)] + WindowMs = e.resetAt
    <3>1. Began(t, e) > 0 /\ t[Began(t, e)] + WindowMs = e.resetAt
      BY <2>1 DEF WindowsOK
    <3>2. Began(t, e) \in 1 .. n /\ Began(t, e) + MaxPerWindow > n
      BY <2>1, <3>1, BeganIn
    <3>3. QED  BY <1>1, <1>2, <1>4, <3>1, <3>2
  <2>3. t[i] <= t[Began(t, e)] /\ t[Began(t, e)] \in Nat
    BY <1>1, <2>2 DEF WindowsOK
  <2>4. QED  BY <1>1, <1>2, <2>1, <2>2, <2>3 DEF Entries
<1>5. \A i \in 1 .. n : t[i] <= at
  BY DEF WindowsOK
<1>6. \A i, j \in 1 .. n : i <= j => t[i] <= t[j]
  BY DEF WindowsOK
<1>7. \A i, j \in 1 .. n : i + 2 * MaxPerWindow <= j => t[i] + WindowMs <= t[j]
  BY DEF WindowsOK
<1> HIDE DEF u, n
<1>8. f.count = 1 /\ f.resetAt = at + WindowMs
  OBVIOUS
<1> HIDE DEF f
<1>9. \A i \in 1 .. n + 1 : i = n + 1 \/ i \in 1 .. n
  BY <1>1
<1>10. \A i \in 1 .. Len(u) : u[i] <= at
  BY <1>1, <1>5, <1>9
<1>11. \A i, j \in 1 .. Len(u) : i <= j => u[i] <= u[j]
  BY <1>1, <1>5, <1>6, <1>9
<1>12. \A i \in 1 .. Len(u) : i + MaxPerWindow <= n + 1 => u[i] + WindowMs <= u[n + 1]
  BY <1>1, <1>2, <1>4, <1>9
<1>13. \A i, j \in 1 .. Len(u) : i + 2 * MaxPerWindow <= j => u[i] + WindowMs <= u[j]
  BY <1>1, <1>2, <1>4, <1>7, <1>9
<1>14. QED  BY <1>1, <1>3, <1>8, <1>10, <1>11, <1>12, <1>13 DEF WindowsOK, u, f

\* One more request of an open window, that fits.
LEMMA SameWindow ==
    ASSUME NEW t \in Seq(Nat), NEW e \in Entries, NEW at \in Nat, WindowsOK(t, e, at),
           e.count > 0, e.count + 1 <= MaxPerWindow
    PROVE  WindowsOK(Append(t, at), [e EXCEPT !.count = @ + 1], at)
<1> DEFINE u == Append(t, at)
           f == [e EXCEPT !.count = @ + 1]
           n == Len(t)
           s == Began(t, e)
<1>1. /\ n \in Nat /\ Len(u) = n + 1 /\ u[n + 1] = at
      /\ \A i \in 1 .. n : u[i] = t[i] /\ t[i] \in Nat
  OBVIOUS
<1>2. MaxPerWindow \in Nat \ {0} /\ WindowMs \in Nat \ {0}
  BY RateAssumption
<1>3. f.count = e.count + 1 /\ f.resetAt = e.resetAt /\ e.count \in Nat
  BY DEF Entries
<1>4. /\ s \in 1 .. n /\ t[s] + WindowMs = e.resetAt
      /\ s + MaxPerWindow > n + 1 /\ s = n - e.count + 1
  <2>1. s > 0 /\ t[s] + WindowMs = e.resetAt
    BY DEF WindowsOK
  <2>2. s \in 1 .. n /\ s = n - e.count + 1
    BY <1>2, <1>3, <2>1, BeganIn
  <2> HIDE DEF s
  <2>3. QED  BY <1>1, <1>2, <1>3, <2>1, <2>2
<1>5. /\ \A i \in 1 .. n : t[i] <= at
      /\ \A i, j \in 1 .. n : i <= j => t[i] <= t[j]
      /\ \A i \in 1 .. n : i + MaxPerWindow <= s => t[i] + WindowMs <= t[s]
      /\ \A i, j \in 1 .. n : i + 2 * MaxPerWindow <= j => t[i] + WindowMs <= t[j]
  BY DEF WindowsOK
<1>6. Began(u, f) = s
  <2> HIDE DEF u, f, s, n
  <2>1. Began(u, f) = (n + 1) - (e.count + 1) + 1
    BY <1>1, <1>3 DEF Began
  <2>2. QED  BY <1>1, <1>3, <1>4, <2>1
<1> HIDE DEF u, n, f, s
<1>7. \A i \in 1 .. n + 1 : i = n + 1 \/ i \in 1 .. n
  BY <1>1
<1>8. \A i \in 1 .. Len(u) : u[i] <= at
  BY <1>1, <1>5, <1>7
<1>9. \A i, j \in 1 .. Len(u) : i <= j => u[i] <= u[j]
  BY <1>1, <1>5, <1>7
<1>10. ASSUME NEW i \in 1 .. Len(u), i + MaxPerWindow <= s
       PROVE  u[i] + WindowMs <= u[s]
  <2>1. i \in 1 .. n
    BY <1>1, <1>2, <1>4, <1>10
  <2>2. t[i] + WindowMs <= t[s] /\ u[i] = t[i] /\ u[s] = t[s]
    BY <1>1, <1>4, <1>5, <1>10, <2>1
  <2>3. QED  BY <2>2
<1>11. ASSUME NEW i \in 1 .. Len(u), NEW j \in 1 .. Len(u), i + 2 * MaxPerWindow <= j
       PROVE  u[i] + WindowMs <= u[j]
  <2>1. i \in 1 .. n /\ u[i] = t[i] /\ t[i] \in Nat
    <3>1. i \in 1 .. n
      BY <1>1, <1>2, <1>11
    <3>2. QED  BY <1>1, <3>1
  <2>2. CASE j \in 1 .. n
    <3>1. t[i] + WindowMs <= t[j] /\ u[j] = t[j]
      BY <1>1, <1>5, <1>11, <2>1, <2>2
    <3>2. QED  BY <2>1, <3>1
  <2>3. CASE j = n + 1
    <3>1. i + MaxPerWindow <= s
      BY <1>1, <1>2, <1>4, <1>11, <2>1, <2>3
    <3>2. t[i] + WindowMs <= t[s] /\ t[s] <= at /\ t[s] \in Nat
      BY <1>1, <1>4, <1>5, <2>1, <3>1
    <3>3. t[i] + WindowMs <= at
      BY ONLY <1>2, <2>1, <3>2, at \in Nat
    <3>4. QED  BY <1>1, <2>1, <2>3, <3>3
  <2>4. QED  BY <1>1, <1>7, <2>2, <2>3
<1>12. u[s] + WindowMs = f.resetAt /\ f.count > 0 /\ s > 0
  BY <1>1, <1>3, <1>4
<1>13. WindowsOK(u, f, at)
  <2>1. Began(u, f) > 0 /\ f.count # 0 /\ u[Began(u, f)] + WindowMs = f.resetAt
    BY <1>3, <1>6, <1>12
  <2>2. \A i \in 1 .. Len(u) :
           i + MaxPerWindow <= Began(u, f) => u[i] + WindowMs <= u[Began(u, f)]
    BY <1>6, <1>10
  <2>3. QED  BY <1>8, <1>9, <1>11, <2>1, <2>2 DEF WindowsOK
<1>14. QED  BY <1>13 DEF u, f

\* A request that is refused is only counted.
LEMMA FullWindow ==
    ASSUME NEW t \in Seq(Nat), NEW e \in Entries, NEW at \in Nat, WindowsOK(t, e, at),
           e.count > 0, e.count + 1 > MaxPerWindow
    PROVE  WindowsOK(t, [e EXCEPT !.count = @ + 1], at)
<1> DEFINE f == [e EXCEPT !.count = @ + 1]
<1>1. f.count = e.count + 1 /\ f.resetAt = e.resetAt /\ e.count \in Nat
  BY DEF Entries
<1>2. Began(t, f) = Began(t, e)
  BY <1>1, RateAssumption DEF Began
<1> HIDE DEF f
<1>3. WindowsOK(t, f, at)
  BY <1>1, <1>2 DEF WindowsOK
<1>4. QED  BY <1>3 DEF f

\* Time passes.
LEMMA LaterWindow ==
    ASSUME NEW t \in Seq(Nat), NEW e \in Entries, NEW at \in Nat, WindowsOK(t, e, at)
    PROVE  WindowsOK(t, e, at + 1)
<1>1. \A i \in 1 .. Len(t) : t[i] \in Nat
  OBVIOUS
<1>2. QED  BY <1>1 DEF WindowsOK

\* No window is open in the beginning.
LEMMA RateInitInv == ASSUME RateInit PROVE RateInv
<1>1. [count |-> 0, resetAt |-> 0] \in Entries /\ << >> \in Seq(Nat)
  BY DEF Entries
<1>2. WindowsOK(<< >>, [count |-> 0, resetAt |-> 0], 0)
  BY DEF WindowsOK
<1>3. refused \notin Keys
  BY RateAssumption DEF RateInit
<1>4. QED  BY <1>1, <1>2, <1>3 DEF RateInit, RateInv

\* Every request and every tick keeps the invariant of the windows.
LEMMA RateStepKeeps ==
    ASSUME RateInv, RateNext
    PROVE  RateInv'
<1>0. MaxPerWindow \in Nat \ {0} /\ WindowMs \in Nat \ {0} /\ NoKey \notin Keys
  BY RateAssumption
<1>1. CASE Tick
  <2>1. now' = now + 1 /\ refused' = NoKey /\ entry' = entry /\ accepted' = accepted
    BY <1>1 DEF Tick
  <2>2. ASSUME NEW k \in Keys
        PROVE  WindowsOK(accepted[k], entry[k], now + 1)
    BY LaterWindow DEF RateInv
  <2>3. QED  BY <1>0, <2>1, <2>2 DEF RateInv
<1>2. ASSUME NEW k \in Keys, Check(k)
      PROVE  RateInv'
  <2> DEFINE t == accepted[k]
             e == entry[k]
             f == IF Over(k) THEN [count |-> 1, resetAt |-> now + WindowMs] ELSE Counted(k)
             u == IF Over(k) \/ LetsThrough(k) THEN Append(t, now) ELSE t
  <2>1. /\ t \in Seq(Nat) /\ e \in Entries /\ now \in Nat /\ WindowsOK(t, e, now)
        /\ e.count \in Nat /\ e.resetAt \in Nat
    BY DEF RateInv, Entries
  <2>2. /\ now' = now /\ entry' = [entry EXCEPT ![k] = f]
        /\ accepted' = [accepted EXCEPT ![k] = u]
        /\ refused' = IF Over(k) \/ LetsThrough(k) THEN NoKey ELSE k
    BY <1>2 DEF Check, RateInv
  <2>3. CASE Over(k)
    <3>1. f = [count |-> 1, resetAt |-> now + WindowMs] /\ u = Append(t, now)
      BY <2>3
    <3>2. f \in Entries /\ u \in Seq(Nat)
      BY <1>0, <2>1, <3>1 DEF Entries
    <3>3. WindowsOK(u, f, now)
      BY <2>1, <2>3, <3>1, NewWindow DEF Over
    <3>4. refused' \notin Keys
      BY <1>0, <2>2, <2>3
    <3> HIDE DEF u, f
    <3>5. QED  BY <2>2, <3>2, <3>3, <3>4 DEF RateInv
  <2>4. CASE ~Over(k)
    <3>1. f = [e EXCEPT !.count = @ + 1] /\ e.count > 0 /\ now < e.resetAt
      BY <2>1, <2>4 DEF Over, Counted
    <3>2. f \in Entries /\ f.count = e.count + 1 /\ f.resetAt = e.resetAt
      BY <2>1, <3>1 DEF Entries
    <3>3. u \in Seq(Nat)
      <4>1. Append(t, now) \in Seq(Nat)
        BY <2>1
      <4>2. QED  BY <2>1, <4>1
    <3>4. WindowsOK(u, f, now)
      <4>1. CASE LetsThrough(k)
        <5>1. u = Append(t, now) /\ e.count + 1 <= MaxPerWindow
          BY <4>1 DEF LetsThrough
        <5>2. QED  BY <2>1, <3>1, <5>1, SameWindow
      <4>2. CASE ~LetsThrough(k)
        <5>1. u = t /\ e.count + 1 > MaxPerWindow
          BY <1>0, <2>1, <2>4, <4>2 DEF LetsThrough
        <5>2. QED  BY <2>1, <3>1, <5>1, FullWindow
      <4>3. QED  BY <4>1, <4>2
    <3>5. refused' \in Keys => refused' = k /\ e.count + 1 > MaxPerWindow
      BY <1>0, <2>1, <2>2, <2>4 DEF LetsThrough
    <3> HIDE DEF u, f
    <3>6. QED  BY <2>2, <3>1, <3>2, <3>3, <3>4, <3>5 DEF RateInv
  <2>5. QED  BY <2>3, <2>4
<1>3. QED  BY <1>1, <1>2 DEF RateNext

\* The requests let through within any stretch of WindowMs are at positions
\* less than 2 * MaxPerWindow apart.
LEMMA RateInvBound == ASSUME RateInv PROVE RateBound
<1> SUFFICES ASSUME NEW k \in Keys, NEW from \in 0 .. MaxTime
             PROVE  Through(k, from) <= 2 * MaxPerWindow
  BY DEF RateBound
<1> DEFINE t == accepted[k]
           P == {i \in 1 .. Len(t) : t[i] \in from .. from + WindowMs - 1}
<1>1. /\ t \in Seq(Nat) /\ WindowsOK(t, entry[k], now)
      /\ MaxPerWindow \in Nat \ {0} /\ WindowMs \in Nat \ {0} /\ from \in Nat
  BY RateAssumption DEF RateInv
<1>2. Len(t) \in Nat /\ \A i \in 1 .. Len(t) : t[i] \in Nat
  BY <1>1
<1>3. Through(k, from) = Cardinality(P)
  BY DEF Through
<1> HIDE DEF t
<1>4. CASE P = {}
  <2> HIDE DEF P
  <2>1. Cardinality(P) = 0
    BY <1>4, FS_EmptySet
  <2>2. QED  BY <1>1, <1>3, <2>1
<1>5. CASE P # {}
  <2>1. PICK a \in P : \A b \in P : a <= b
    <3>1. P \in SUBSET Nat
      BY <1>2
    <3>2. QED  BY <1>5, <3>1, LeastNumber
  <2>2. \A b \in P : b \in a .. a + 2 * MaxPerWindow - 1
    <3>1. ASSUME NEW b \in P, a + 2 * MaxPerWindow <= b
          PROVE  FALSE
      <4>1. t[a] + WindowMs <= t[b]
        BY <1>1, <2>1, <3>1 DEF WindowsOK
      <4>2. QED  BY <1>1, <1>2, <2>1, <3>1, <4>1
    <3>2. QED  BY <1>1, <1>2, <2>1, <3>1
  <2>3. /\ IsFiniteSet(a .. a + 2 * MaxPerWindow - 1)
        /\ Cardinality(a .. a + 2 * MaxPerWindow - 1) = 2 * MaxPerWindow
    <3>1. PICK b \in Int : b = a + 2 * MaxPerWindow - 1
      BY <1>1, <1>2, <2>1
    <3>2. a \in Int /\ b >= a /\ b - a + 1 = 2 * MaxPerWindow
      BY <1>1, <1>2, <2>1, <3>1
    <3>3. QED  BY <3>1, <3>2, FS_Interval
  <2> HIDE DEF P
  <2>4. P \subseteq a .. a + 2 * MaxPerWindow - 1
    BY <2>2
  <2>5. Cardinality(P) <= 2 * MaxPerWindow
    <3> DEFINE R == a .. a + 2 * MaxPerWindow - 1
    <3>1. IsFiniteSet(R) /\ P \subseteq R /\ Cardinality(R) = 2 * MaxPerWindow
      BY <2>3, <2>4
    <3> HIDE DEF R
    <3>2. Cardinality(P) <= Cardinality(R)
      BY <3>1, FS_Subset
    <3>3. QED  BY <3>1, <3>2
  <2>6. QED  BY <1>3, <2>5
<1>6. QED  BY <1>4, <1>5

\* Whoever is refused has filled the open window with the last MaxPerWindow
\* of the requests let through.
LEMMA RateInvOpen == ASSUME RateInv PROVE NoLockout
<1> SUFFICES ASSUME refused \in Keys
             PROVE  Through(refused, now - WindowMs + 1) >= MaxPerWindow
  BY DEF NoLockout
<1> DEFINE t == accepted[refused]
           e == entry[refused]
           from == now - WindowMs + 1
           P == {i \in 1 .. Len(t) : t[i] \in from .. from + WindowMs - 1}
           s == Len(t) - MaxPerWindow + 1
<1>1. /\ t \in Seq(Nat) /\ WindowsOK(t, e, now) /\ now \in Nat
      /\ MaxPerWindow \in Nat \ {0} /\ WindowMs \in Nat \ {0}
      /\ e.count \in Nat /\ e.resetAt \in Nat /\ e.count > MaxPerWindow /\ now < e.resetAt
  BY RateAssumption DEF RateInv, Entries
<1>2. Len(t) \in Nat /\ \A i \in 1 .. Len(t) : t[i] \in Nat
  BY <1>1
<1>3. Through(refused, from) = Cardinality(P)
  BY DEF Through
<1> HIDE DEF t, e
<1>4. Began(t, e) = s
  BY <1>1, <1>2 DEF Began
<1>5. s \in 1 .. Len(t) /\ t[s] + WindowMs = e.resetAt
  BY <1>1, <1>2, <1>4 DEF WindowsOK
<1>6. ASSUME NEW i \in s .. Len(t)
      PROVE  i \in P
  <2>1. i \in 1 .. Len(t) /\ s <= i
    BY <1>2, <1>5
  <2> HIDE DEF s
  <2>2. t[s] <= t[i] /\ t[i] <= now
    BY <1>1, <1>5, <2>1 DEF WindowsOK
  <2>3. QED  BY <1>1, <1>2, <1>5, <2>1, <2>2
<1>7. IsFiniteSet(s .. Len(t)) /\ Cardinality(s .. Len(t)) = MaxPerWindow
  BY <1>1, <1>2, <1>5, FS_Interval
<1>8. IsFiniteSet(P)
  <2>1. IsFiniteSet(1 .. Len(t))
    BY <1>2, FS_Interval
  <2>2. QED  BY <2>1, FS_Subset
<1> HIDE DEF P
<1>9. s .. Len(t) \subseteq P
  BY <1>6
<1>10. QED  BY <1>1, <1>3, <1>7, <1>8, <1>9, FS_Subset, FS_CardinalityType

-----------------------------------------------------------------------------
(* SessionRecords: the order of the events and their export                *)

EventTypes == {"model.output.completed", "tool.call.requested", "tool.call.completed",
               "tool.call.denied", "tool.output.completed"}
Event == [type : EventTypes, id : ToolCalls \cup {0}, call : Nat,
          size : TextSizes \cup {1}, seq : Nat]

InPlace(l) == \A i \in 1 .. Len(l) : l[i].seq = i

\* In an ordered log, what is exported is the log up to the cursor, and it is
\* done at the end; the running task's own numbers are behind.
ExportInv ==
    /\ log \in Seq(Event)
    /\ ownSeq \in Nat
    /\ open \in [ToolCalls -> {"no", "asked", "output"}]
    /\ Ordered => /\ InPlace(log)
                  /\ ownSeq <= Len(log)
                  /\ cursor \in 0 .. Len(log)
                  /\ exported = SubSeq(log, 1, cursor)
                  /\ atStart \in 0 .. Len(log)
                  /\ exporting = "done" => cursor >= atStart

\* A bounded set of numbers that has an element has a greatest one.
LEMMA MaxIs ==
    ASSUME NEW n \in Nat, NEW S \in SUBSET (0 .. n), S # {}
    PROVE  Max(S) \in S /\ \A x \in S : x <= Max(S)
<1> DEFINE T == {m \in 0 .. n : n - m \in S}
<1>1. T \in SUBSET Nat /\ T # {}
  <2>1. PICK x \in S : TRUE
    OBVIOUS
  <2>2. n - x \in 0 .. n /\ n - (n - x) = x
    BY <2>1
  <2>3. n - x \in T
    BY <2>1, <2>2
  <2>4. T \in SUBSET Nat
    OBVIOUS
  <2> HIDE DEF T
  <2>5. QED  BY <2>3, <2>4
<1>2. PICK m \in T : \A k \in T : m <= k
  <2> HIDE DEF T
  <2>1. QED  BY ONLY <1>1, LeastNumber
<1>3. ASSUME NEW x \in S
      PROVE  n - m >= x
  <2>1. x \in 0 .. n /\ n - x \in 0 .. n /\ n - (n - x) = x
    OBVIOUS
  <2>2. n - x \in T
    BY <2>1
  <2>3. m <= n - x /\ m \in 0 .. n
    BY <1>2, <2>2
  <2>4. QED  BY <2>1, <2>3
<1>4. n - m \in S
  BY <1>2
<1>5. \E y \in S : \A x \in S : y >= x
  BY <1>3, <1>4
<1>6. Max(S) \in S /\ \A x \in S : Max(S) >= x
  BY <1>5 DEF Max
<1>7. QED  BY <1>6

\* The last of some positions is one of them, and 0 if there are none.
LEMMA LatestIs ==
    ASSUME NEW n \in Nat, NEW S \in SUBSET (1 .. n)
    PROVE  /\ Latest(S) \in 0 .. n
           /\ S = {} => Latest(S) = 0
           /\ S # {} => Latest(S) \in S /\ \A x \in S : x <= Latest(S)
<1>1. CASE S = {}
  BY <1>1 DEF Latest
<1>2. CASE S # {}
  <2>1. S \in SUBSET (0 .. n)
    OBVIOUS
  <2>2. Max(S) \in S /\ \A x \in S : x <= Max(S)
    BY <1>2, <2>1, MaxIs
  <2>3. Latest(S) = Max(S)
    BY <1>2 DEF Latest
  <2>4. S \subseteq 0 .. n
    OBVIOUS
  <2>5. QED  BY <1>2, <2>2, <2>3, <2>4
<1>3. QED  BY <1>1, <1>2

\* Nothing is exported in the beginning.
LEMMA ExportInitInv == ASSUME RecordsInit PROVE ExportInv
<1>1. << >> \in Seq(Event) /\ Len(<< >>) = 0 /\ SubSeq(<< >>, 1, 0) = << >>
  OBVIOUS
<1>2. /\ log = << >> /\ cursor = 0 /\ exported = << >> /\ exporting = "no" /\ atStart = 0
      /\ ownSeq = 0 /\ open = [c \in ToolCalls |-> "no"]
  BY DEF RecordsInit, NoneOpen
<1>3. InPlace(<< >>)
  BY DEF InPlace
<1>4. QED  BY <1>1, <1>2, <1>3 DEF ExportInv

\* What is exported is a prefix of the log, as long as the log was at the start.
LEMMA ExportInvExact == ASSUME ExportInv PROVE ExportExact
<1> SUFFICES ASSUME Ordered
             PROVE  /\ Numbered
                    /\ IsPrefix(exported, log)
                    /\ exporting = "done" => Len(exported) >= atStart
  BY DEF ExportExact
<1>1. Len(exported) = cursor /\ Len(exported) <= Len(log)
  BY DEF ExportInv
<1>2. SubSeq(exported, 1, Len(exported)) = SubSeq(log, 1, Len(exported))
  <2>1. \A i \in 1 .. cursor : exported[i] = log[i]
    BY DEF ExportInv
  <2>2. SubSeq(exported, 1, cursor) = exported
    BY DEF ExportInv
  <2>3. QED  BY <1>1, <2>2 DEF ExportInv
<1>3. QED  BY <1>1, <1>2 DEF IsPrefix, ExportInv, Numbered, InPlace

\* The seq that append gives follows the last one.
LEMMA LastSeqIs ==
    ASSUME ExportInv
    PROVE  /\ LastSeq \in Nat
           /\ Ordered => LastSeq = Len(log)
           /\ Ordered => Seqs = 1 .. Len(log)
<1> DEFINE n == Len(log)
<1>1. n \in Nat /\ \A i \in 1 .. n : log[i].seq \in Nat
  <2>1. log \in Seq(Event)
    BY DEF ExportInv
  <2>2. \A i \in 1 .. n : log[i] \in Event
    BY <2>1
  <2>3. QED  BY <2>1, <2>2 DEF Event
<1>2. ASSUME Ordered
      PROVE  Seqs = 1 .. n
  BY <1>2 DEF ExportInv, InPlace, Seqs
<1>3. CASE store = "sqlite"
  <2>1. Ordered
    BY <1>3 DEF Ordered
  <2>2. LastSeq = Max((1 .. n) \cup {0})
    BY <1>2, <1>3, <2>1 DEF LastSeq
  <2>3. (1 .. n) \cup {0} = 0 .. n /\ n \in 0 .. n
    BY <1>1
  <2> HIDE DEF n
  <2>4. Max(0 .. n) \in 0 .. n /\ n <= Max(0 .. n)
    BY <1>1, <2>3, MaxIs
  <2>5. LastSeq = n
    <3>1. LastSeq = Max(0 .. n)
      BY <2>2, <2>3, Zenon
    <3>2. \A m : m \in 0 .. n /\ n <= m => m = n
      BY <1>1
    <3>3. QED  BY <2>4, <3>1, <3>2
  <2>6. LastSeq \in Nat /\ LastSeq = Len(log)
    BY <1>1, <2>5 DEF n
  <2>7. Ordered => Seqs = 1 .. Len(log)
    BY <1>2 DEF n
  <2>8. QED  BY <2>6, <2>7
<1>4. CASE store # "sqlite" /\ log = << >>
  BY <1>2, <1>4 DEF LastSeq
<1>5. CASE store # "sqlite" /\ log # << >>
  <2>1. LastSeq = log[n].seq /\ n \in 1 .. n
    BY <1>1, <1>5 DEF LastSeq, Last, ExportInv
  <2>2. QED  BY <1>1, <1>2, <2>1 DEF ExportInv, InPlace
<1>6. QED  BY <1>3, <1>4, <1>5

\* What append stores is an event, and the next one if the log is in order.
LEMMA PutIs ==
    ASSUME ExportInv, NEW type \in EventTypes, NEW c \in ToolCalls \cup {0},
           NEW at \in Nat, NEW size \in TextSizes \cup {1}, Put(type, c, at, size)
    PROVE  \E seq \in Nat :
              /\ log' = Append(log, [type |-> type, id |-> c, call |-> at,
                                     size |-> size, seq |-> seq])
              /\ ownSeq' \in Nat
              /\ Ordered => seq = Len(log) + 1 /\ ownSeq' <= Len(log) + 1
<1>1. ownSeq \in Nat /\ LastSeq \in Nat /\ Len(log) \in Nat
  BY LastSeqIs DEF ExportInv
<1>2. PICK own \in BOOLEAN, seq \in Nat :
         /\ seq = IF own THEN ownSeq + 1 ELSE LastSeq + 1
         /\ own => numbers
         /\ store = "sqlite" => seq \notin Seqs
         /\ ownSeq' = IF own THEN seq ELSE ownSeq
         /\ log' = Append(log, [type |-> type, id |-> c, call |-> at,
                                size |-> size, seq |-> seq])
  <2>1. PICK source \in Sources(type) :
           LET own == numbers /\ source = "runtime"
               seq == IF own THEN ownSeq + 1 ELSE LastSeq + 1
           IN  /\ store = "sqlite" => seq \notin Seqs
               /\ ownSeq' = IF own THEN seq ELSE ownSeq
               /\ log' = Append(log, [type |-> type, id |-> c, call |-> at,
                                      size |-> size, seq |-> seq])
    BY DEF Put
  <2>2. CASE numbers /\ source = "runtime"
    <3>1. ownSeq + 1 \in Nat
      BY <1>1
    <3>2. QED  BY <2>1, <2>2, <3>1
  <2>3. CASE ~(numbers /\ source = "runtime")
    <3>1. LastSeq + 1 \in Nat
      BY <1>1
    <3>2. QED  BY <2>1, <2>3, <3>1
  <2>4. QED  BY <2>2, <2>3
<1>3. ownSeq' \in Nat
  BY <1>1, <1>2
<1>4. ASSUME Ordered
      PROVE  seq = Len(log) + 1 /\ ownSeq' <= Len(log) + 1
  <2>1. LastSeq = Len(log) /\ Seqs = 1 .. Len(log) /\ ownSeq <= Len(log)
    BY <1>4, LastSeqIs DEF ExportInv
  <2>2. CASE own
    <3>1. store = "sqlite" /\ seq = ownSeq + 1 /\ ownSeq' = seq /\ seq \notin Seqs
      BY <1>2, <1>4, <2>2 DEF Ordered
    <3>2. QED  BY <1>1, <2>1, <3>1
  <2>3. CASE ~own
    BY <1>1, <1>2, <2>1, <2>3
  <2>4. QED  BY <2>2, <2>3
<1>5. QED  BY <1>2, <1>3, <1>4

LastReq(l, c) == Latest(About(l, "tool.call.requested", c))

\* What may be appended to the events l when o says which calls are open.
MayFollow(l, o, e, p) ==
    \/ e.type = "model.output.completed" /\ p = o
    \/ \E c \in ToolCalls :
          /\ e.id = c
          /\ \/ /\ o[c] = "no" /\ e.type = "tool.call.requested"
                /\ e.call = Len(l) + 1
                /\ p = [o EXCEPT ![c] = "asked"]
             \/ /\ o[c] = "asked" /\ e.type = "tool.output.completed"
                /\ e.call = LastReq(l, c)
                /\ p = [o EXCEPT ![c] = "output"]
             \/ /\ o[c] # "no" /\ e.type \in {"tool.call.completed", "tool.call.denied"}
                /\ e.call = LastReq(l, c)
                /\ p = [o EXCEPT ![c] = "no"]

\* What the engine appends is an event that may be next.
LEMMA AppendedEvent ==
    ASSUME ExportInv, AppendEvent
    PROVE  /\ ownSeq' \in Nat
           /\ Ordered => ownSeq' <= Len(log) + 1
           /\ \E e \in Event : /\ log' = Append(log, e)
                               /\ MayFollow(log, open, e, open')
                               /\ Ordered => e.seq = Len(log) + 1
<1> DEFINE Result(type, c, at, size, seq) ==
              [type |-> type, id |-> c, call |-> at, size |-> size, seq |-> seq]
<1>1. ASSUME NEW type \in EventTypes, NEW c \in ToolCalls \cup {0}, NEW at \in Nat,
             NEW size \in TextSizes \cup {1}, NEW seq \in Nat
      PROVE  /\ Result(type, c, at, size, seq) \in Event
             /\ Result(type, c, at, size, seq).type = type
             /\ Result(type, c, at, size, seq).id = c
             /\ Result(type, c, at, size, seq).call = at
             /\ Result(type, c, at, size, seq).seq = seq
  BY DEF Event
<1>2. ASSUME NEW type \in EventTypes, NEW c \in ToolCalls \cup {0}, NEW at \in Nat,
             NEW size \in TextSizes \cup {1}, Put(type, c, at, size),
             \A e \in Event : e.type = type /\ e.id = c /\ e.call = at =>
                MayFollow(log, open, e, open')
      PROVE  /\ ownSeq' \in Nat
             /\ Ordered => ownSeq' <= Len(log) + 1
             /\ \E e \in Event : /\ log' = Append(log, e)
                                 /\ MayFollow(log, open, e, open')
                                 /\ Ordered => e.seq = Len(log) + 1
  <2>1. PICK seq \in Nat :
              /\ log' = Append(log, Result(type, c, at, size, seq))
              /\ ownSeq' \in Nat
              /\ Ordered => seq = Len(log) + 1 /\ ownSeq' <= Len(log) + 1
    BY <1>2, PutIs
  <2> DEFINE e == Result(type, c, at, size, seq)
  <2>2. e \in Event /\ e.type = type /\ e.id = c /\ e.call = at /\ e.seq = seq
    BY <1>1
  <2> HIDE DEF Result
  <2>3. log' = Append(log, e) /\ (Ordered => e.seq = Len(log) + 1)
    BY <2>1, <2>2
  <2> HIDE DEF e
  <2>4. MayFollow(log, open, e, open')
    BY <1>2, <2>2
  <2>5. QED  BY <2>1, <2>2, <2>3, <2>4
<1>3. Len(log) \in Nat
  BY DEF ExportInv
<1> HIDE DEF Result
<1>4. ASSUME NEW c \in ToolCalls
      PROVE  LastCall(c) = LastReq(log, c) /\ LastCall(c) \in Nat
  <2>1. About(log, "tool.call.requested", c) \in SUBSET (1 .. Len(log))
    BY DEF About
  <2>2. QED  BY <1>3, <2>1, LatestIs DEF LastCall, LastReq
<1>5. CASE AppendText
  <2>1. PICK size \in TextSizes : Put("model.output.completed", 0, 0, size)
    BY <1>5 DEF AppendText
  <2>2. \A e \in Event : e.type = "model.output.completed" =>
           MayFollow(log, open, e, open')
    BY <1>5 DEF AppendText, MayFollow
  <2>3. QED  BY <1>2, <2>1, <2>2 DEF EventTypes
<1>6. ASSUME NEW c \in ToolCalls, AppendRequest(c)
      PROVE  /\ ownSeq' \in Nat
             /\ Ordered => ownSeq' <= Len(log) + 1
             /\ \E e \in Event : /\ log' = Append(log, e)
                                 /\ MayFollow(log, open, e, open')
                                 /\ Ordered => e.seq = Len(log) + 1
  <2>1. Put("tool.call.requested", c, Len(log) + 1, 1)
    BY <1>6 DEF AppendRequest
  <2>2. \A e \in Event : e.type = "tool.call.requested" /\ e.id = c /\ e.call = Len(log) + 1 =>
           MayFollow(log, open, e, open')
    BY <1>6 DEF AppendRequest, MayFollow
  <2>3. QED  BY <1>2, <1>3, <2>1, <2>2 DEF EventTypes
<1>7. ASSUME NEW c \in ToolCalls, AppendOutcome(c)
      PROVE  /\ ownSeq' \in Nat
             /\ Ordered => ownSeq' <= Len(log) + 1
             /\ \E e \in Event : /\ log' = Append(log, e)
                                 /\ MayFollow(log, open, e, open')
                                 /\ Ordered => e.seq = Len(log) + 1
  <2>1. PICK type \in {"tool.output.completed", "tool.call.denied", "tool.call.completed"} :
          /\ Put(type, c, LastCall(c), 1)
          /\ \A e \in Event : e.type = type /\ e.id = c /\ e.call = LastCall(c) =>
                MayFollow(log, open, e, open')
    <3>1. CASE /\ open[c] = "asked"
               /\ Put("tool.output.completed", c, LastCall(c), 1)
               /\ open' = [open EXCEPT ![c] = "output"]
      BY <1>4, <3>1 DEF MayFollow
    <3>2. CASE /\ open[c] = "asked"
               /\ Put("tool.call.denied", c, LastCall(c), 1)
               /\ open' = [open EXCEPT ![c] = "no"]
      BY <1>4, <3>2 DEF MayFollow
    <3>3. CASE /\ open[c] # "no"
               /\ Put("tool.call.completed", c, LastCall(c), 1)
               /\ open' = [open EXCEPT ![c] = "no"]
      BY <1>4, <3>3 DEF MayFollow
    <3>4. QED  BY <1>7, <3>1, <3>2, <3>3 DEF AppendOutcome
  <2>2. QED  BY <1>2, <1>4, <2>1 DEF EventTypes
<1>8. QED  BY <1>5, <1>6, <1>7 DEF AppendEvent

\* An appended event is no part of what was exported.
LEMMA AppendKeeps ==
    ASSUME ExportInv, AppendEvent
    PROVE  ExportInv'
<1>1. /\ ownSeq' \in Nat
      /\ Ordered => ownSeq' <= Len(log) + 1
  BY AppendedEvent
<1>2. PICK e \in Event : /\ log' = Append(log, e)
                         /\ MayFollow(log, open, e, open')
                         /\ Ordered => e.seq = Len(log) + 1
  BY AppendedEvent
<1>3. UNCHANGED <<cursor, exported, exporting, atStart>> /\ Ordered' = Ordered
  BY DEF AppendEvent, exportVars, Ordered
<1>4. ASSUME NEW s \in Seq(Event), NEW c \in 0 .. Len(s)
      PROVE  /\ Append(s, e) \in Seq(Event) /\ Len(Append(s, e)) = Len(s) + 1
             /\ SubSeq(Append(s, e), 1, c) = SubSeq(s, 1, c)
  <2>1. Append(s, e) \in Seq(Event) /\ Len(Append(s, e)) = Len(s) + 1
    OBVIOUS
  <2>2. SubSeq(Append(s, e), 1, c) = SubSeq(s, 1, c)
    BY ONLY e \in Event, s \in Seq(Event), c \in 0 .. Len(s)
  <2>3. QED  BY <2>1, <2>2
<1>5. log \in Seq(Event) /\ Len(log) \in Nat /\ open \in [ToolCalls -> {"no", "asked", "output"}]
  BY DEF ExportInv
<1>6. open' \in [ToolCalls -> {"no", "asked", "output"}]
  BY <1>2, <1>5 DEF MayFollow
<1>7. log' \in Seq(Event)
  BY <1>2, <1>5
<1>8. ASSUME Ordered
      PROVE  InPlace(log')
  <2>1. /\ Len(log') = Len(log) + 1 /\ log'[Len(log) + 1] = e
        /\ \A i \in 1 .. Len(log) : log'[i] = log[i]
    BY <1>2, <1>5
  <2>2. \A i \in 1 .. Len(log) : log[i].seq = i
    BY <1>8 DEF ExportInv, InPlace
  <2>3. ASSUME NEW i \in 1 .. Len(log')
        PROVE  log'[i].seq = i
    <3>1. i \in 1 .. Len(log) \/ i = Len(log) + 1
      BY <1>5, <2>1
    <3>2. QED  BY <1>2, <1>8, <2>1, <2>2, <3>1
  <2>4. QED  BY <2>3 DEF InPlace
<1>9. ASSUME Ordered
      PROVE  /\ ownSeq' <= Len(log')
             /\ cursor' \in 0 .. Len(log')
             /\ exported' = SubSeq(log', 1, cursor')
             /\ atStart' \in 0 .. Len(log')
             /\ exporting' = "done" => cursor' >= atStart'
  <2>1. /\ cursor \in 0 .. Len(log) /\ exported = SubSeq(log, 1, cursor)
        /\ atStart \in 0 .. Len(log) /\ (exporting = "done" => cursor >= atStart)
    BY <1>9 DEF ExportInv
  <2>2. Len(log') = Len(log) + 1 /\ SubSeq(log', 1, cursor) = SubSeq(log, 1, cursor)
    BY <1>2, <1>4, <1>5, <2>1
  <2>3. QED  BY <1>1, <1>3, <1>5, <1>9, <2>1, <2>2
<1>10. QED  BY <1>1, <1>3, <1>6, <1>7, <1>8, <1>9 DEF ExportInv, InPlace

\* A log that is in place is what sorting it gives.
LEMMA BySeqInPlace ==
    ASSUME NEW l \in Seq(Event), InPlace(l)
    PROVE  BySeq(l) = l
<1> DEFINE n == Len(l)
<1>1. n \in Nat
  OBVIOUS
<1>2. ASSUME NEW i \in 1 .. n
      PROVE  Place(l, i) = i
  <2> DEFINE before == {j \in 1 .. n : \/ l[j].seq < l[i].seq
                                       \/ l[j].seq = l[i].seq /\ j <= i}
  <2>1. before = 1 .. i
    BY <1>1 DEF InPlace
  <2>2. Cardinality(1 .. i) = i
    BY <1>1, FS_Interval
  <2>3. QED  BY <2>1, <2>2 DEF Place
<1>3. ASSUME NEW k \in 1 .. n
      PROVE  (CHOOSE i \in 1 .. n : Place(l, i) = k) = k
  BY <1>2
<1>4. \A k \in 1 .. n : l[CHOOSE i \in 1 .. n : Place(l, i) = k] = l[k]
  BY <1>3
<1>5. BySeq(l) = [k \in 1 .. n |-> l[k]]
  BY <1>4 DEF BySeq
<1>6. QED  BY <1>5

\* Whatever the seqs, what sorting gives is as many events.
LEMMA BySeqType ==
    ASSUME NEW l \in Seq(Event)
    PROVE  BySeq(l) \in Seq(Event) /\ Len(BySeq(l)) = Len(l)
<1> DEFINE n == Len(l)
           D == 1 .. n
           Upto(i) == {j \in D : \/ l[j].seq < l[i].seq
                                 \/ l[j].seq = l[i].seq /\ j <= i}
           place == [i \in D |-> Place(l, i)]
<1>1. n \in Nat /\ \A i \in D : l[i] \in Event /\ l[i].seq \in Nat
  <2>1. n \in Nat /\ \A i \in D : l[i] \in Event
    OBVIOUS
  <2>2. QED  BY <2>1 DEF Event
<1>2. IsFiniteSet(D) /\ Cardinality(D) = n
  <2> HIDE DEF n
  <2>1. n \in Nat
    BY <1>1
  <2>2. QED  BY ONLY <2>1, FS_Interval
<1>3. \A i \in D : Place(l, i) = Cardinality(Upto(i)) /\ Upto(i) \subseteq D /\ i \in Upto(i)
  BY <1>1 DEF Place
<1>4. ASSUME NEW i \in D
      PROVE  IsFiniteSet(Upto(i)) /\ Place(l, i) \in D
  <2> HIDE DEF Upto, D
  <2>1. IsFiniteSet(Upto(i)) /\ Cardinality(Upto(i)) <= n
    BY <1>2, <1>3, FS_Subset
  <2>2. Cardinality({i}) = 1 /\ Cardinality({i}) <= Cardinality(Upto(i))
    <3>1. {i} \in SUBSET Upto(i)
      BY <1>3
    <3>2. QED  BY <2>1, <3>1, FS_Singleton, FS_Subset
  <2>3. Cardinality(Upto(i)) \in Nat
    BY <2>1, FS_CardinalityType
  <2>4. QED  BY <1>1, <1>3, <2>1, <2>2, <2>3 DEF D
<1>5. ASSUME NEW i \in D, NEW j \in D, Place(l, i) = Place(l, j)
      PROVE  i = j
  <2>1. Upto(i) \subseteq Upto(j) \/ Upto(j) \subseteq Upto(i)
    <3>1. CASE l[i].seq < l[j].seq \/ (l[i].seq = l[j].seq /\ i <= j)
      BY <1>1, <3>1
    <3>2. CASE l[j].seq < l[i].seq \/ (l[j].seq = l[i].seq /\ j <= i)
      BY <1>1, <3>2
    <3>3. QED  BY <1>1, <3>1, <3>2
  <2>2. Upto(i) = Upto(j)
    <3> HIDE DEF Upto, D
    <3>1. QED  BY <1>3, <1>4, <1>5, <2>1, FS_Subset
  <2>3. i \in Upto(j) /\ j \in Upto(i)
    <3> HIDE DEF Upto, D
    <3>1. QED  BY <1>3, <2>2
  <2>4. QED  BY <1>1, <2>3
<1>6. place \in Surjection(D, D)
  <2>1. place \in [D -> D]
    BY <1>4
  <2>2. \A i, j \in D : place[i] = place[j] => i = j
    BY <1>5
  <2> HIDE DEF place, D
  <2>3. place \in Injection(D, D)
    BY <2>1, <2>2 DEF Injection, IsInjective
  <2>4. QED  BY <1>2, <2>3, FS_Injection
<1>7. \A k \in D : \E i \in D : Place(l, i) = k
  <2>1. \A k \in D : \E i \in D : place[i] = k
    BY <1>6 DEF Surjection
  <2>2. QED  BY <2>1
<1> DEFINE at(k) == CHOOSE i \in D : Place(l, i) = k
<1>8. \A k \in D : at(k) \in D
  BY <1>7
<1>9. \A k \in D : l[at(k)] \in Event
  BY <1>1, <1>8
<1>10. BySeq(l) = [k \in D |-> l[at(k)]]
  BY DEF BySeq
<1> HIDE DEF at, D
<1>11. QED  BY <1>1, <1>9, <1>10 DEF D

\* A page of an ordered log begins after the cursor, and is as long as the
\* limit lets it.
LEMMA ListIs ==
    ASSUME ExportInv, Ordered
    PROVE  \E m \in cursor .. Len(log) :
              /\ List(cursor) = SubSeq(log, cursor + 1, m)
              /\ m = cursor => cursor = Len(log)
<1> DEFINE n == Len(log)
           later == {i \in 1 .. n : log[i].seq > cursor}
           ends == {n, Min(later) + PageLimit - 1}
<1>1. /\ log \in Seq(Event) /\ n \in Nat /\ cursor \in 0 .. n /\ PageLimit \in Nat \ {0}
      /\ InPlace(log)
  BY RecordsAssumption DEF ExportInv
<1>2. List(cursor) = IF later = {} THEN << >> ELSE SubSeq(log, Min(later), Min(ends))
  <2>1. BySeq(log) = log
    BY <1>1, BySeqInPlace
  <2>2. QED  BY <2>1 DEF List
<1>3. later = cursor + 1 .. n
  BY <1>1 DEF InPlace
<1> HIDE DEF later
<1>4. CASE cursor = n
  <2>1. later = {} /\ SubSeq(log, cursor + 1, n) = << >>
    BY <1>1, <1>3, <1>4
  <2>2. QED  BY <1>1, <1>2, <1>4, <2>1
<1>5. CASE cursor # n
  <2>1. cursor + 1 \in later /\ \A x \in later : cursor + 1 =< x
    BY <1>1, <1>3, <1>5
  <2>2. Min(later) = cursor + 1
    <3>1. \E x \in later : \A y \in later : x =< y
      BY <2>1
    <3>2. Min(later) \in later /\ \A y \in later : Min(later) =< y
      BY <3>1 DEF Min
    <3>3. Min(later) =< cursor + 1 /\ cursor + 1 =< Min(later) /\ Min(later) \in Int
      BY <1>1, <1>3, <2>1, <3>2
    <3>4. QED  BY <1>1, <3>3
  <2>3. ends = {n, cursor + PageLimit}
    BY <1>1, <2>2
  <2>4. Min(ends) \in {n, cursor + PageLimit} /\ Min(ends) <= n
    <3>1. \E x \in {n, cursor + PageLimit} : \A y \in {n, cursor + PageLimit} : x =< y
      BY <1>1
    <3>2. QED  BY <2>3, <3>1 DEF Min
  <2>5. Min(ends) \in cursor + 1 .. n
    BY <1>1, <1>5, <2>4
  <2> HIDE DEF ends
  <2>6. List(cursor) = SubSeq(log, cursor + 1, Min(ends))
    BY <1>2, <2>1, <2>2
  <2>7. Min(ends) \in cursor .. n /\ Min(ends) # cursor
    BY <1>1, <2>5
  <2>8. QED  BY <2>6, <2>7
<1>6. QED  BY <1>4, <1>5

\* A page begins where the last one ended.
LEMMA PageKeeps ==
    ASSUME ExportInv, ExportPage
    PROVE  ExportInv'
<1>1. UNCHANGED <<store, numbers, log, ownSeq, open, atStart>> /\ exporting = "yes"
  BY DEF ExportPage, logVars
<1>2. Ordered' = Ordered
  BY <1>1 DEF Ordered
<1>3. ASSUME Ordered
      PROVE  /\ cursor' \in 0 .. Len(log)
             /\ exported' = SubSeq(log, 1, cursor')
             /\ exporting' = "done" => cursor' >= atStart
  <2> DEFINE n == Len(log)
             batch == List(cursor)
  <2>1. /\ log \in Seq(Event) /\ n \in Nat /\ cursor \in 0 .. n /\ atStart \in 0 .. n
        /\ exported = SubSeq(log, 1, cursor) /\ \A i \in 1 .. n : log[i].seq = i
    BY <1>3 DEF ExportInv, InPlace
  <2>2. PICK m \in cursor .. n : /\ batch = SubSeq(log, cursor + 1, m)
                                 /\ m = cursor => cursor = n
    BY <1>3, ListIs
  <2>3. /\ m \in Nat /\ Len(batch) = m - cursor
        /\ m > cursor => batch[m - cursor] = log[m]
    BY <2>1, <2>2
  <2>4. IF batch = << >>
        THEN exporting' = "done" /\ UNCHANGED <<exported, cursor>>
        ELSE /\ exported' = exported \o batch
             /\ cursor' = Last(batch).seq
             /\ UNCHANGED exporting
    BY DEF ExportPage, NextCursor
  <2>5. CASE m = cursor
    <3>1. batch = << >> /\ cursor = n
      BY <2>1, <2>2, <2>5
    <3>2. QED  BY <2>1, <2>4, <3>1
  <2>6. CASE m > cursor
    <3>1. batch # << >>
      <4> HIDE DEF batch
      <4>1. Len(batch) # 0
        BY <2>1, <2>3, <2>6
      <4>2. QED  BY <4>1
    <3>2. cursor' = m
      BY <2>1, <2>2, <2>3, <2>4, <2>6, <3>1 DEF Last
    <3>3. SubSeq(log, 1, cursor) \o SubSeq(log, cursor + 1, m) = SubSeq(log, 1, m)
      BY ONLY <2>1, <2>2
    <3>4. exported' = SubSeq(log, 1, m)
      BY <2>1, <2>2, <2>4, <3>1, <3>3
    <3>5. exporting' # "done"
      BY <1>1, <2>4, <3>1
    <3> HIDE DEF batch
    <3>6. QED  BY <2>1, <2>2, <3>2, <3>4, <3>5
  <2>7. QED  BY <2>1, <2>2, <2>5, <2>6
<1>4. QED  BY <1>1, <1>2, <1>3 DEF ExportInv, InPlace

\* The invariant of the export is kept by it and by whoever appends.
LEMMA ExportStepKeeps ==
    ASSUME ExportInv, RecordsNext
    PROVE  ExportInv'
<1>1. CASE StartExport
  <2>1. /\ UNCHANGED <<store, numbers, log, ownSeq, open, cursor, exported>>
        /\ exporting' = "yes" /\ atStart' = Len(log)
    BY <1>1 DEF StartExport, logVars
  <2>2. Len(log) \in Nat
    BY DEF ExportInv
  <2>3. QED  BY <2>1, <2>2 DEF ExportInv, Ordered, InPlace
<1>2. CASE NextTask
  <2>1. /\ UNCHANGED <<store, numbers, log, cursor, exported, exporting, atStart>>
        /\ ownSeq' = 0 /\ open' = [c \in ToolCalls |-> "no"]
    BY <1>2 DEF NextTask, exportVars, NoneOpen
  <2>2. Len(log) \in Nat
    BY DEF ExportInv
  <2>3. QED  BY <2>1, <2>2 DEF ExportInv, Ordered, InPlace
<1>3. QED  BY <1>1, <1>2, AppendKeeps, PageKeeps DEF RecordsNext

-----------------------------------------------------------------------------
(* SessionRecords: the input that fits a budget                            *)

Msg == [role : {"user", "assistant", "tool_use", "tool_result"},
        id : ToolCalls \cup {0}, call : Nat, size : Nat]

\* The size of the messages from one on is that of the message and of the rest.
LEMMA SizeFromSum ==
    ASSUME NEW ms \in Seq(Msg)
    PROVE  /\ \A i \in 1 .. Len(ms) + 1 : SizeFrom(ms, i) \in Nat
           /\ SizeFrom(ms, Len(ms) + 1) = 0
           /\ \A i \in 1 .. Len(ms) : SizeFrom(ms, i) = ms[i].size + SizeFrom(ms, i + 1)
<1> DEFINE n == Len(ms)
           Def(f) == f = [m \in 0 .. n |-> IF m = 0 THEN 0
                                           ELSE f[m - 1] + ms[n - m + 1].size]
           last == CHOOSE f : Def(f)
           step == [p \in (1 .. n) \X Nat |-> p[2] + ms[n - p[1] + 1].size]
<1>1. n \in Nat /\ \A i \in 1 .. n : ms[i].size \in Nat
  <2>1. n \in Nat /\ \A i \in 1 .. n : ms[i] \in Msg
    OBVIOUS
  <2>2. QED  BY <2>1 DEF Msg
<1>2. PICK f \in [0 .. n -> Nat] : f[0] = 0 /\ \A i \in 1 .. n : f[i] = step[<<i, f[i - 1]>>]
  <2>1. step \in [(1 .. n) \X Nat -> Nat]
    <3>1. ASSUME NEW p \in (1 .. n) \X Nat
          PROVE  p[2] + ms[n - p[1] + 1].size \in Nat
      <4>1. n - p[1] + 1 \in 1 .. n
        BY <1>1
      <4>2. ms[n - p[1] + 1].size \in Nat /\ p[2] \in Nat
        BY <1>1, <4>1
      <4>3. QED  BY <4>2
    <3>2. QED  BY <3>1
  <2> HIDE DEF step, n
  <2>2. StartsAndSteps(n, Nat, 0, step)
    BY <1>1, <2>1 DEF StartsAndSteps
  <2>3. \E g : IsRecursion(g, n, Nat, 0, step)
    BY ONLY <2>2, RecursionExists
  <2>4. QED  BY <2>3 DEF IsRecursion
<1>3. Def(f)
  <2>1. ASSUME NEW m \in 0 .. n
        PROVE  f[m] = IF m = 0 THEN 0 ELSE f[m - 1] + ms[n - m + 1].size
    <3>1. CASE m = 0
      BY <1>2, <3>1
    <3>2. CASE m # 0
      <4>1. m \in 1 .. n /\ m - 1 \in 0 .. n
        BY <1>1, <3>2
      <4>2. <<m, f[m - 1]>> \in (1 .. n) \X Nat
        BY <1>2, <4>1
      <4>3. f[m] = f[m - 1] + ms[n - m + 1].size
        BY <1>2, <4>1, <4>2
      <4>4. QED  BY <3>2, <4>3
    <3>3. QED  BY <3>1, <3>2
  <2> HIDE DEF n
  <2>2. QED  BY <1>2, <2>1
<1>4. Def(last)
  <2> HIDE DEF Def
  <2>1. QED  BY <1>3
<1>5. \A i : SizeFrom(ms, i) = last[n - i + 1]
  BY DEF SizeFrom
<1> HIDE DEF last
<1>6. \A m \in 0 .. n : last[m] = IF m = 0 THEN 0 ELSE last[m - 1] + ms[n - m + 1].size
  BY <1>4
<1> HIDE DEF step, n, Def
<1>7. last[0] = 0 /\ \A m \in 1 .. n : last[m] = last[m - 1] + ms[n - m + 1].size
  BY <1>1, <1>6
<1>8. f[0] = 0 /\ \A m \in 1 .. n : f[m] = f[m - 1] + ms[n - m + 1].size
  BY <1>1, <1>3 DEF Def
<1>9. \A m \in 0 .. n : last[m] = f[m]
  <2>1. StepAlike(last, f, 0, n)
    BY <1>1, <1>7, <1>8 DEF StepAlike
  <2>2. Agree(last, f, 0, n)
    BY ONLY <2>1, RecursionUnique
  <2>3. QED  BY <2>2 DEF Agree
<1>10. \A i \in 1 .. n + 1 : SizeFrom(ms, i) \in Nat
  <2> SUFFICES ASSUME NEW i \in 1 .. n + 1
               PROVE  SizeFrom(ms, i) \in Nat
    OBVIOUS
  <2>1. n - i + 1 \in 0 .. n
    BY <1>1
  <2>2. f[n - i + 1] \in Nat
    BY <1>2, <2>1
  <2>3. QED  BY <1>5, <1>9, <2>1, <2>2
<1>11. SizeFrom(ms, n + 1) = 0
  BY <1>1, <1>5, <1>7
<1>12. ASSUME NEW i \in 1 .. n
       PROVE  SizeFrom(ms, i) = ms[i].size + SizeFrom(ms, i + 1)
  <2>1. PICK m \in 1 .. n : m = n - i + 1
    BY <1>1
  <2>2. /\ n - (i + 1) + 1 = m - 1 /\ n - m + 1 = i /\ i + 1 \in 1 .. n + 1
        /\ ms[i].size \in Nat
    BY <1>1, <2>1
  <2>3. last[m] = last[m - 1] + ms[i].size /\ SizeFrom(ms, i + 1) \in Nat
    BY <1>7, <1>10, <2>2
  <2>4. QED  BY <1>5, <2>1, <2>2, <2>3
<1>13. QED  BY <1>10, <1>11, <1>12 DEF n

\* The first message after which the rest fits.
LEMMA KeptIs ==
    ASSUME NEW ms \in Seq(Msg), NEW max \in Nat, SizeFrom(ms, 1) > max
    PROVE  \E from \in 2 .. Len(ms) + 1 :
              /\ Kept(ms, max) = from .. Len(ms)
              /\ SizeFrom(ms, from) <= max
              /\ \A i \in 1 .. from - 1 : SizeFrom(ms, i) > max
<1> DEFINE n == Len(ms)
           fits == {i \in 1 .. n : SizeFrom(ms, i + 1) <= max}
           first == CHOOSE i \in fits : \A j \in fits : i <= j
<1>1. /\ n \in Nat
      /\ \A i \in 1 .. n + 1 : SizeFrom(ms, i) \in Nat
      /\ SizeFrom(ms, n + 1) = 0
  BY SizeFromSum
<1>2. n \in fits
  <2>1. n # 0
    BY <1>1
  <2>2. QED  BY <1>1, <2>1
<1>3. first \in fits /\ \A j \in fits : first <= j
  <2>1. \E i \in fits : \A j \in fits : i <= j
    <3>1. fits \in SUBSET Nat /\ fits # {}
      BY <1>2
    <3> HIDE DEF fits
    <3>2. QED  BY ONLY <3>1, LeastNumber
  <2> HIDE DEF fits
  <2>2. QED  BY <2>1
<1>4. Kept(ms, max) = first + 1 .. n
  BY DEF Kept
<1> HIDE DEF first
<1>5. first \in 1 .. n /\ SizeFrom(ms, first + 1) <= max
  BY <1>3
<1>6. ASSUME NEW i \in 1 .. first
      PROVE  SizeFrom(ms, i) > max
  <2>1. CASE i = 1
    BY <2>1
  <2>2. CASE i # 1
    <3>1. PICK j \in 1 .. n : i = j + 1
      BY <1>1, <1>5, <2>2
    <3>2. j \notin fits
      BY <1>1, <1>3, <1>5, <3>1
    <3>3. ~(SizeFrom(ms, i) <= max) /\ SizeFrom(ms, i) \in Nat
      BY <1>1, <1>5, <3>1, <3>2
    <3>4. QED  BY <3>3
  <2>3. QED  BY <2>1, <2>2
<1>7. PICK from \in 2 .. n + 1 : from = first + 1
  BY <1>1, <1>5
<1>8. \A i \in 1 .. from - 1 : SizeFrom(ms, i) > max
  BY <1>1, <1>5, <1>6, <1>7
<1>9. QED  BY <1>4, <1>5, <1>7, <1>8

\* What a budget keeps of the messages: the newest, as many as fit, and all
\* without a budget.
LEMMA CompileKeeps ==
    ASSUME NEW ms \in Seq(Msg), NEW max \in Nat
    PROVE  \E from \in 1 .. Len(ms) + 1 :
              LET c == Compile(ms, max)
              IN  /\ c.kept = from .. Len(ms)
                  /\ c.omitted = 1 .. from - 1
                  /\ ms # << >> => from <= Len(ms)
                  /\ max # 0 => /\ c.overflow <=> SizeFrom(ms, from) > max
                                /\ c.overflow => from = Len(ms)
                                /\ from > 1 => SizeFrom(ms, from - 1) > max
                  /\ max = 0 => from = 1
<1> DEFINE n == Len(ms)
           c == Compile(ms, max)
<1>1. /\ n \in Nat /\ (ms # << >> <=> n > 0)
      /\ \A i \in 1 .. n + 1 : SizeFrom(ms, i) \in Nat
  BY SizeFromSum
<1>2. CASE max = 0 \/ SizeFrom(ms, 1) <= max
  <2>1. c.kept = 1 .. n /\ c.omitted = {} /\ c.overflow = FALSE
    BY <1>2 DEF Compile
  <2>2. 1 \in 1 .. n + 1 /\ 1 .. 1 - 1 = {}
    BY <1>1
  <2>3. max # 0 => ~(SizeFrom(ms, 1) > max)
    BY <1>1, <1>2, <2>2
  <2> HIDE DEF c, n
  <2>4. QED  BY <1>1, <2>1, <2>2, <2>3 DEF c, n
<1>3. CASE ~(max = 0 \/ SizeFrom(ms, 1) <= max)
  <2>1. SizeFrom(ms, 1) > max
    BY <1>1, <1>3
  <2>2. PICK from \in 2 .. n + 1 :
              /\ Kept(ms, max) = from .. n
              /\ SizeFrom(ms, from) <= max
              /\ \A i \in 1 .. from - 1 : SizeFrom(ms, i) > max
    BY <2>1, KeptIs
  <2>3. n > 0
    BY <1>1, <2>2
  <2>4. CASE Kept(ms, max) = {}
    <3>1. c.kept = {n} /\ c.omitted = (1 .. n) \ {n} /\ c.overflow = TRUE
      BY <1>3, <2>4 DEF Compile
    <3>2. from = n + 1
      <4>1. ~(from <= n)
        BY <2>2, <2>4
      <4>2. QED  BY <1>1, <2>2, <4>1
    <3>3. /\ n \in 1 .. n + 1 /\ {n} = n .. n /\ (1 .. n) \ {n} = 1 .. n - 1
          /\ SizeFrom(ms, n) > max /\ (n > 1 => SizeFrom(ms, n - 1) > max)
      BY <1>1, <2>2, <2>3, <3>2
    <3>4. n \in 1 .. n + 1 /\ c.kept = n .. n /\ c.omitted = 1 .. n - 1
      BY <3>1, <3>3
    <3> HIDE DEF c, n
    <3>5. /\ ms # << >> => n <= n
          /\ max # 0 => /\ c.overflow <=> SizeFrom(ms, n) > max
                        /\ c.overflow => n = n
                        /\ n > 1 => SizeFrom(ms, n - 1) > max
          /\ max = 0 => n = 1
      BY <1>1, <1>3, <3>1, <3>3
    <3>6. QED  BY ONLY <3>4, <3>5 DEF c, n
  <2>5. CASE Kept(ms, max) # {}
    <3>1. c.kept = from .. n /\ c.omitted = (1 .. n) \ (from .. n) /\ c.overflow = FALSE
      BY <1>3, <2>2, <2>5 DEF Compile
    <3>2. /\ from <= n /\ (1 .. n) \ (from .. n) = 1 .. from - 1
          /\ ~(SizeFrom(ms, from) > max) /\ SizeFrom(ms, from - 1) > max
      <4>1. from <= n
        BY <1>1, <2>2, <2>5
      <4>2. ~(SizeFrom(ms, from) > max)
        BY <1>1, <2>2
      <4>3. SizeFrom(ms, from - 1) > max
        BY <1>1, <2>2
      <4>4. QED  BY <1>1, <2>2, <4>1, <4>2, <4>3
    <3>3. c.kept = from .. n /\ c.omitted = 1 .. from - 1 /\ from \in 1 .. n + 1
      BY <1>1, <2>2, <3>1, <3>2
    <3> HIDE DEF c, n
    <3>4. QED  BY <1>1, <1>3, <3>1, <3>2, <3>3 DEF c, n
  <2>6. QED  BY <2>4, <2>5
<1>4. QED  BY <1>2, <1>3

-----------------------------------------------------------------------------
(* SessionRecords: the transcript                                          *)

\* FlattenSeq concatenates the sequences one after the other.
LEMMA FlattenIs ==
    ASSUME NEW S, NEW ss \in Seq(Seq(S))
    PROVE  \E f \in [0 .. Len(ss) -> Seq(S)] :
              /\ f[0] = << >>
              /\ \A i \in 1 .. Len(ss) : f[i] = f[i - 1] \o ss[i]
              /\ FlattenSeq(ss) = f[Len(ss)]
<1> DEFINE n == Len(ss)
           step == [p \in (1 .. n) \X Seq(S) |-> p[2] \o ss[p[1]]]
           Def(f) == f = [i \in 1 .. n |-> IF i = 1 THEN ss[i] ELSE f[i - 1] \o ss[i]]
           flat == CHOOSE f : Def(f)
<1>1. n \in Nat /\ \A i \in 1 .. n : ss[i] \in Seq(S)
  OBVIOUS
<1>2. PICK f \in [0 .. n -> Seq(S)] :
         f[0] = << >> /\ \A i \in 1 .. n : f[i] = f[i - 1] \o ss[i]
  <2>1. ASSUME NEW p \in (1 .. n) \X Seq(S)
        PROVE  p[2] \o ss[p[1]] \in Seq(S)
    <3>1. p[2] \in Seq(S) /\ ss[p[1]] \in Seq(S)
      BY <1>1
    <3>2. QED  BY ONLY <3>1, ConcatProperties
  <2>2. step \in [(1 .. n) \X Seq(S) -> Seq(S)]
    BY <2>1
  <2>3. \A i \in 1 .. n, s \in Seq(S) : step[<<i, s>>] = s \o ss[i]
    OBVIOUS
  <2> HIDE DEF step, flat, n
  <2>4. << >> \in Seq(S)
    OBVIOUS
  <2>5. StartsAndSteps(n, Seq(S), << >>, step)
    BY <1>1, <2>2, <2>4 DEF StartsAndSteps
  <2>6. PICK f : IsRecursion(f, n, Seq(S), << >>, step)
    BY ONLY <2>5, RecursionExists
  <2>7. /\ f \in [0 .. n -> Seq(S)] /\ f[0] = << >>
        /\ \A i \in 1 .. n : f[i] = step[<<i, f[i - 1]>>]
    BY <2>6 DEF IsRecursion
  <2>8. ASSUME NEW i \in 1 .. n
        PROVE  f[i] = f[i - 1] \o ss[i]
    <3>1. i - 1 \in 0 .. n
      BY <1>1
    <3>2. f[i - 1] \in Seq(S)
      BY <2>7, <3>1
    <3>3. QED  BY <2>3, <2>7, <3>2
  <2>9. QED  BY <2>7, <2>8
<1>3. CASE n = 0
  <2>1. ss = << >>
    BY <1>3
  <2>2. FlattenSeq(ss) = << >>
    BY <1>3, <2>1 DEF FlattenSeq
  <2> HIDE DEF step, flat
  <2>3. FlattenSeq(ss) = f[n]
    BY <1>2, <1>3, <2>2
  <2>4. QED  BY <1>2, <2>3
<1>4. CASE n # 0
  <2> DEFINE g == [i \in 1 .. n |-> f[i]]
  <2>1. FlattenSeq(ss) = flat[n]
    BY <1>4 DEF FlattenSeq
  <2>2. f[1] = ss[1]
    <3>1. 1 \in 1 .. n /\ f[1] = << >> \o ss[1] /\ ss[1] \in Seq(S)
      <4>1. 1 \in 1 .. n /\ 1 - 1 = 0
        BY <1>1, <1>4
      <4>2. QED  BY <1>1, <1>2, <4>1
    <3>2. QED  BY ONLY <3>1, ConcatEmptySeq
  <2>3. Def(g)
    <3>1. ASSUME NEW i \in 1 .. n
          PROVE  f[i] = IF i = 1 THEN ss[i] ELSE g[i - 1] \o ss[i]
      <4>1. CASE i = 1
        BY <2>2, <4>1
      <4>2. CASE i # 1
        <5>1. i - 1 \in 1 .. n
          BY <1>1, <4>2
        <5>2. g[i - 1] = f[i - 1]
          BY <5>1
        <5> HIDE DEF g
        <5>3. QED  BY <1>2, <4>2, <5>2
      <4>3. QED  BY <4>1, <4>2
    <3>2. QED  BY <3>1
  <2> HIDE DEF g
  <2>4. Def(flat)
    <3> HIDE DEF Def
    <3>1. QED  BY <2>3
  <2> HIDE DEF flat
  <2>5. \A i \in 1 .. n : flat[i] = IF i = 1 THEN ss[i] ELSE flat[i - 1] \o ss[i]
    BY <2>4
  <2> HIDE DEF Def, step, n
  <2>6. flat[1] = ss[1] /\ \A i \in 1 .. n : i > 1 => flat[i] = flat[i - 1] \o ss[i]
    <3>1. 1 \in 1 .. n /\ n \in Nat
      BY <1>1, <1>4
    <3>2. flat[1] = ss[1]
      BY <2>5, <3>1
    <3>3. ASSUME NEW i \in 1 .. n, i > 1
          PROVE  flat[i] = flat[i - 1] \o ss[i]
      <4>1. i # 1
        BY <3>3
      <4>2. QED  BY <2>5, <4>1
    <3>4. QED  BY <3>2, <3>3
  <2>7. StepAlike(flat, f, 1, n)
    BY <1>1, <1>2, <2>2, <2>6 DEF StepAlike
  <2>8. flat[n] = f[n]
    <3>1. Agree(flat, f, 1, n)
      BY ONLY <2>7, RecursionUnique
    <3>2. n \in 1 .. n
      BY <1>1, <1>4
    <3>3. QED  BY <3>1, <3>2 DEF Agree
  <2>9. QED  BY <1>2, <2>1, <2>8 DEF n
<1>5. QED  BY <1>3, <1>4

\* One sequence more is concatenated at the end.
LEMMA FlattenAppend ==
    ASSUME NEW S, NEW ss \in Seq(Seq(S)), NEW s \in Seq(S)
    PROVE  /\ FlattenSeq(Append(ss, s)) = FlattenSeq(ss) \o s
           /\ FlattenSeq(ss) \in Seq(S)
<1> DEFINE n == Len(ss)
<1>1. /\ Append(ss, s) \in Seq(Seq(S)) /\ Len(Append(ss, s)) = n + 1 /\ n \in Nat
      /\ Append(ss, s)[n + 1] = s /\ \A i \in 1 .. n : Append(ss, s)[i] = ss[i]
  OBVIOUS
<1>2. PICK f \in [0 .. n -> Seq(S)] :
              /\ f[0] = << >>
              /\ \A i \in 1 .. n : f[i] = f[i - 1] \o ss[i]
              /\ FlattenSeq(ss) = f[n]
  BY FlattenIs
<1>3. PICK g \in [0 .. n + 1 -> Seq(S)] :
              /\ g[0] = << >>
              /\ \A i \in 1 .. n + 1 : g[i] = g[i - 1] \o Append(ss, s)[i]
              /\ FlattenSeq(Append(ss, s)) = g[n + 1]
  <2> HIDE DEF n
  <2>1. PICK tt \in Seq(Seq(S)) : tt = Append(ss, s)
    BY <1>1
  <2>2. \E g \in [0 .. Len(tt) -> Seq(S)] :
              /\ g[0] = << >>
              /\ \A i \in 1 .. Len(tt) : g[i] = g[i - 1] \o tt[i]
              /\ FlattenSeq(tt) = g[Len(tt)]
    BY ONLY FlattenIs, tt \in Seq(Seq(S))
  <2>3. Len(tt) = n + 1
    BY <1>1, <2>1
  <2>4. QED  BY <2>1, <2>2, <2>3
<1> HIDE DEF n
<1>4. StepAlike(g, f, 0, n)
  <2>1. \A i \in 1 .. n : g[i] = g[i - 1] \o ss[i]
    <3>1. ASSUME NEW i \in 1 .. n
          PROVE  g[i] = g[i - 1] \o ss[i]
      <4>1. i \in 1 .. n + 1 /\ Append(ss, s)[i] = ss[i]
        BY <1>1
      <4>2. QED  BY <1>3, <4>1
    <3>2. QED  BY <3>1
  <2>2. QED  BY <1>1, <1>2, <1>3, <2>1 DEF StepAlike
<1>5. g[n] = f[n]
  <2>1. Agree(g, f, 0, n)
    BY ONLY <1>4, RecursionUnique
  <2>2. n \in 0 .. n
    BY <1>1
  <2>3. QED  BY <2>1, <2>2 DEF Agree
<1>6. g[n + 1] = g[n] \o s
  <2>1. n + 1 \in 1 .. n + 1 /\ (n + 1) - 1 = n
    BY <1>1
  <2>2. QED  BY <1>1, <1>3, <2>1
<1>7. f[n] \in Seq(S)
  BY <1>1, <1>2
<1>8. QED  BY <1>2, <1>3, <1>5, <1>6, <1>7

\* The messages of an event are messages.
LEMMA MessageOfType ==
    ASSUME NEW e \in Event
    PROVE  /\ MessageOf(e) \in Seq(Msg)
           /\ \A role \in {"user", "assistant", "tool_use", "tool_result"} :
                 Message(role, e) \in Msg
<1>1. e.id \in ToolCalls \cup {0} /\ e.call \in Nat /\ e.size \in Nat
  <2>1. e.id \in ToolCalls \cup {0} /\ e.call \in Nat /\ e.size \in TextSizes \cup {1}
    BY DEF Event
  <2>2. TextSizes \subseteq Nat
    BY RecordsAssumption
  <2>3. CASE e.size \in TextSizes
    BY <2>1, <2>2, <2>3
  <2>4. CASE e.size = 1
    BY <2>1, <2>4
  <2>5. QED  BY <2>1, <2>3, <2>4
<1>2. \A role \in {"user", "assistant", "tool_use", "tool_result"} : Message(role, e) \in Msg
  BY <1>1 DEF Message, Msg
<1>3. \A role \in {"user", "assistant", "tool_use", "tool_result"} :
         <<Message(role, e)>> \in Seq(Msg)
  <2> SUFFICES ASSUME NEW role \in {"user", "assistant", "tool_use", "tool_result"}
               PROVE  <<Message(role, e)>> \in Seq(Msg)
    OBVIOUS
  <2>1. PICK m \in Msg : m = Message(role, e)
    BY <1>2
  <2>2. <<m>> \in Seq(Msg)
    BY ONLY m \in Msg
  <2>3. QED  BY <2>1, <2>2
<1>4. << >> \in Seq(Msg)
  OBVIOUS
<1>5. \/ MessageOf(e) = << >>
      \/ \E role \in {"user", "assistant", "tool_use", "tool_result"} :
            MessageOf(e) = <<Message(role, e)>>
  BY DEF MessageOf
<1>6. CASE MessageOf(e) = << >>
  BY <1>2, <1>4, <1>6
<1>7. CASE \E role \in {"user", "assistant", "tool_use", "tool_result"} :
              MessageOf(e) = <<Message(role, e)>>
  BY <1>2, <1>3, <1>7
<1>8. QED  BY <1>5, <1>6, <1>7

\* The messages of some events, in the order of the events.
Told(l) == FlattenSeq([i \in 1 .. Len(l) |-> MessageOf(l[i])])

\* An event adds its messages to those of the events before it.
LEMMA ToldAppend ==
    ASSUME NEW l \in Seq(Event), NEW e \in Event
    PROVE  /\ Told(Append(l, e)) = Told(l) \o MessageOf(e)
           /\ Told(l) \in Seq(Msg)
<1> DEFINE ss == [i \in 1 .. Len(l) |-> MessageOf(l[i])]
           tt == [i \in 1 .. Len(Append(l, e)) |-> MessageOf(Append(l, e)[i])]
           s == MessageOf(e)
<1>1. ss \in Seq(Seq(Msg)) /\ Len(ss) = Len(l)
  <2>1. \A i \in 1 .. Len(l) : MessageOf(l[i]) \in Seq(Msg)
    BY MessageOfType
  <2>2. QED  BY <2>1
<1>2. s \in Seq(Msg)
  BY MessageOfType
<1>3. tt = Append(ss, s)
  <2>1. /\ Len(Append(l, e)) = Len(l) + 1 /\ Append(l, e)[Len(l) + 1] = e /\ Len(l) \in Nat
        /\ \A i \in 1 .. Len(l) : Append(l, e)[i] = l[i]
    OBVIOUS
  <2>2. ASSUME NEW i \in 1 .. Len(l) + 1
        PROVE  tt[i] = Append(ss, s)[i]
    <3>1. tt[i] = MessageOf(Append(l, e)[i])
      BY <2>1
    <3>2. CASE i \in 1 .. Len(l)
      <4>1. Append(ss, s)[i] = ss[i] /\ ss[i] = MessageOf(l[i])
        <5>1. ss[i] = MessageOf(l[i])
          BY <3>2
        <5> HIDE DEF ss, s
        <5>2. QED  BY <1>1, <1>2, <3>2, <5>1
      <4>2. QED  BY <2>1, <3>1, <3>2, <4>1
    <3>3. CASE i = Len(l) + 1
      <4>1. Append(ss, s)[i] = s
        <5> HIDE DEF ss, s
        <5>1. QED  BY <1>1, <1>2, <2>1, <3>3
      <4>2. QED  BY <2>1, <3>1, <3>3, <4>1
    <3>4. QED  BY <2>1, <3>2, <3>3
  <2>3. Append(ss, s) \in Seq(Seq(Msg)) /\ Len(Append(ss, s)) = Len(l) + 1
    <3> HIDE DEF ss, s
    <3>1. QED  BY <1>1, <1>2
  <2>4. tt \in Seq(Seq(Msg)) /\ Len(tt) = Len(l) + 1
    <3>1. ASSUME NEW i \in 1 .. Len(l) + 1
          PROVE  tt[i] \in Seq(Msg)
      <4> HIDE DEF tt, ss, s
      <4>1. Append(ss, s)[i] \in Seq(Msg)
        BY <2>1, <2>3
      <4>2. QED  BY <2>2, <4>1
    <3>2. DOMAIN tt = 1 .. Len(l) + 1 /\ tt = [i \in 1 .. Len(l) + 1 |-> tt[i]]
      BY <2>1
    <3> HIDE DEF tt
    <3>3. QED  BY <2>1, <3>1, <3>2
  <2> HIDE DEF tt, ss, s
  <2>5. PICK u \in Seq(Seq(Msg)) : u = Append(ss, s)
    BY <2>3
  <2>6. tt = u
    BY <2>2, <2>3, <2>4, <2>5, SeqEqual
  <2>7. QED  BY <2>5, <2>6
<1>4. Told(Append(l, e)) = FlattenSeq(tt) /\ Told(l) = FlattenSeq(ss)
  BY DEF Told
<1> HIDE DEF ss, tt, s
<1>5. FlattenSeq(Append(ss, s)) = FlattenSeq(ss) \o s /\ FlattenSeq(ss) \in Seq(Msg)
  BY <1>1, <1>2, FlattenAppend
<1>6. QED  BY <1>3, <1>4, <1>5 DEF s

\* No events, no messages.
LEMMA ToldEmpty == Told(<< >>) = << >>
<1>1. [i \in 1 .. Len(<< >>) |-> MessageOf((<< >>)[i])] = << >>
  OBVIOUS
<1>2. FlattenSeq(<< >>) = << >>
  BY DEF FlattenSeq
<1>3. QED  BY <1>1, <1>2 DEF Told

\* The transcript tells the events by seq.
LEMMA TranscriptIs ==
    ASSUME NEW l \in Seq(Event)
    PROVE  /\ Transcript(l) \in Seq(Msg)
           /\ InPlace(l) => Transcript(l) = Told(l)
<1>1. BySeq(l) \in Seq(Event) /\ Len(BySeq(l)) = Len(l)
  BY BySeqType
<1>2. Transcript(l) = Told(BySeq(l))
  BY <1>1 DEF Transcript, Told
<1>3. ASSUME NEW m \in Seq(Event)
      PROVE  Told(m) \in Seq(Msg)
  <2>1. CASE m = << >>
    <3>1. << >> \in Seq(Msg)
      OBVIOUS
    <3>2. QED  BY <2>1, <3>1, ToldEmpty
  <2>2. CASE m # << >>
    <3>1. m[1] \in Event
      BY <2>2
    <3>2. QED  BY <3>1, ToldAppend
  <2>3. QED  BY <2>1, <2>2
<1>4. QED  BY <1>1, <1>2, <1>3, BySeqInPlace

-----------------------------------------------------------------------------
(* SessionRecords: the events of a call                                    *)

Outcomes == {"tool.call.completed", "tool.call.denied", "tool.output.completed"}

\* Events of these types stand for one moment of a call: it has one of each.
Once == {"tool.call.completed", "tool.output.completed"}

\* A request names itself; what follows names the last request of its id.
CallsOK(l) ==
    /\ \A i \in 1 .. Len(l) : l[i].type = "tool.call.requested" =>
          l[i].id \in ToolCalls /\ l[i].call = i
    /\ \A i \in 1 .. Len(l) : l[i].type \in Outcomes =>
          /\ l[i].id \in ToolCalls
          /\ l[i].call \in About(l, "tool.call.requested", l[i].id)
          /\ l[i].call < i
          /\ \A j \in About(l, "tool.call.requested", l[i].id) : j < i => j <= l[i].call
    /\ \A type \in Once, i, j \in 1 .. Len(l) :
          l[i].type = type /\ l[j].type = type /\ l[i].call = l[j].call => i = j

\* What is open has been requested and is not completed.
OpenOK(l, o) ==
    \A c \in ToolCalls : o[c] # "no" =>
       /\ About(l, "tool.call.requested", c) # {}
       /\ \A i \in 1 .. Len(l) :
             l[i].type = "tool.call.completed" => l[i].call # LastReq(l, c)
       /\ o[c] = "asked" => \A i \in 1 .. Len(l) :
             l[i].type = "tool.output.completed" => l[i].call # LastReq(l, c)

\* What is said of an appended event and of those before it.
LEMMA AppendedAt ==
    ASSUME NEW l \in Seq(Event), NEW e \in Event
    PROVE  /\ Len(l) \in Nat /\ Append(l, e) \in Seq(Event)
           /\ Len(Append(l, e)) = Len(l) + 1 /\ Append(l, e)[Len(l) + 1] = e
           /\ \A i \in 1 .. Len(l) : Append(l, e)[i] = l[i]
           /\ \A i \in 1 .. Len(l) + 1 : i \in 1 .. Len(l) \/ i = Len(l) + 1
           /\ \A type, c : About(Append(l, e), type, c) =
                 About(l, type, c) \cup {i \in {Len(l) + 1} : e.type = type /\ e.id = c}
<1> DEFINE m == Append(l, e)
           n == Len(l)
<1>1. /\ n \in Nat /\ m \in Seq(Event) /\ Len(m) = n + 1 /\ m[n + 1] = e
      /\ \A i \in 1 .. n : m[i] = l[i]
  OBVIOUS
<1> HIDE DEF m, n
<1>2. \A i : i \in 1 .. n + 1 <=> i \in 1 .. n \/ i = n + 1
  BY <1>1
<1>3. ASSUME NEW type, NEW c
      PROVE  About(m, type, c) =
                About(l, type, c) \cup {i \in {n + 1} : e.type = type /\ e.id = c}
  BY <1>1, <1>2 DEF About, n
<1>4. QED  BY <1>1, <1>2, <1>3 DEF m, n

\* The last request of an id is that of the last event, or the one before it.
LEMMA LastReqIs ==
    ASSUME NEW l \in Seq(Event)
    PROVE  /\ \A c : LastReq(l, c) \in 0 .. Len(l)
           /\ \A c : About(l, "tool.call.requested", c) # {} =>
                 /\ LastReq(l, c) \in About(l, "tool.call.requested", c)
                 /\ \A i \in About(l, "tool.call.requested", c) : i <= LastReq(l, c)
           /\ \A e \in Event : \A c : LastReq(Append(l, e), c) =
                 IF e.type = "tool.call.requested" /\ e.id = c THEN Len(l) + 1
                 ELSE LastReq(l, c)
<1>1. Len(l) \in Nat
  OBVIOUS
<1>2. ASSUME NEW c
      PROVE  /\ LastReq(l, c) \in 0 .. Len(l)
             /\ About(l, "tool.call.requested", c) # {} =>
                   /\ LastReq(l, c) \in About(l, "tool.call.requested", c)
                   /\ \A i \in About(l, "tool.call.requested", c) : i <= LastReq(l, c)
  <2>1. About(l, "tool.call.requested", c) \in SUBSET (1 .. Len(l))
    BY DEF About
  <2>2. QED  BY <1>1, <2>1, LatestIs DEF LastReq
<1>3. ASSUME NEW e \in Event, NEW c
      PROVE  LastReq(Append(l, e), c) =
                IF e.type = "tool.call.requested" /\ e.id = c THEN Len(l) + 1
                ELSE LastReq(l, c)
  <2> DEFINE A == About(l, "tool.call.requested", c)
             B == About(Append(l, e), "tool.call.requested", c)
             n == Len(l)
  <2>1. B = A \cup {i \in {n + 1} : e.type = "tool.call.requested" /\ e.id = c}
    BY AppendedAt
  <2>2. A \subseteq 1 .. n
    BY DEF About
  <2>3. LastReq(Append(l, e), c) = Latest(B) /\ LastReq(l, c) = Latest(A)
    BY DEF LastReq
  <2> HIDE DEF A, B, n
  <2>4. CASE e.type = "tool.call.requested" /\ e.id = c
    <3>1. B = A \cup {n + 1}
      BY <2>1, <2>4
    <3>2. B \in SUBSET (1 .. n + 1) /\ n + 1 \in B /\ n + 1 \in Nat
      <4>1. n \in Nat
        BY <1>1 DEF n
      <4>2. QED  BY <2>2, <3>1, <4>1
    <3>3. Latest(B) \in B /\ \A x \in B : x <= Latest(B)
      BY <3>2, LatestIs
    <3>4. Latest(B) = n + 1
      <4>1. \A x \in B : n + 1 <= x => x = n + 1
        BY <3>2
      <4>2. QED  BY <3>2, <3>3, <4>1
    <3>5. QED  BY <2>3, <2>4, <3>4 DEF n
  <2>5. CASE ~(e.type = "tool.call.requested" /\ e.id = c)
    <3>1. B = A
      BY <2>1, <2>5
    <3>2. QED  BY <2>3, <2>5, <3>1
  <2>6. QED  BY <2>4, <2>5
<1>4. QED  BY <1>2, <1>3

\* An event that may be next keeps the calls in order.
LEMMA CallsGoOn ==
    ASSUME NEW l \in Seq(Event), NEW e \in Event, NEW p,
           NEW o \in [ToolCalls -> {"no", "asked", "output"}],
           CallsOK(l), OpenOK(l, o), MayFollow(l, o, e, p)
    PROVE  CallsOK(Append(l, e)) /\ OpenOK(Append(l, e), p)
<1> DEFINE m == Append(l, e)
           n == Len(l)
           A(c) == About(l, "tool.call.requested", c)
           B(c) == About(m, "tool.call.requested", c)
<1>1. /\ n \in Nat /\ m \in Seq(Event) /\ Len(m) = n + 1 /\ m[n + 1] = e
      /\ \A i \in 1 .. n : m[i] = l[i]
      /\ \A i \in 1 .. n + 1 : i \in 1 .. n \/ i = n + 1
      /\ \A c : B(c) = A(c) \cup {i \in {n + 1} : e.type = "tool.call.requested" /\ e.id = c}
  BY AppendedAt
<1>2. /\ \A c : A(c) # {} =>
            LastReq(l, c) \in A(c) /\ \A i \in A(c) : i <= LastReq(l, c)
      /\ \A c : LastReq(m, c) = IF e.type = "tool.call.requested" /\ e.id = c THEN n + 1
                                ELSE LastReq(l, c)
  BY LastReqIs
<1>3. /\ \A i \in 1 .. n : l[i].type = "tool.call.requested" =>
            l[i].id \in ToolCalls /\ l[i].call = i
      /\ \A i \in 1 .. n : l[i].type \in Outcomes =>
            /\ l[i].id \in ToolCalls
            /\ l[i].call \in A(l[i].id)
            /\ l[i].call < i
            /\ \A j \in A(l[i].id) : j < i => j <= l[i].call
      /\ \A type \in Once, i, j \in 1 .. n :
            l[i].type = type /\ l[j].type = type /\ l[i].call = l[j].call => i = j
  BY DEF CallsOK
<1>4. \A c \in ToolCalls : o[c] # "no" =>
         /\ A(c) # {}
         /\ \A i \in 1 .. n : l[i].type = "tool.call.completed" => l[i].call # LastReq(l, c)
         /\ o[c] = "asked" => \A i \in 1 .. n :
               l[i].type = "tool.output.completed" => l[i].call # LastReq(l, c)
  BY DEF OpenOK
<1>5. \A c : A(c) = {i \in 1 .. n : l[i].type = "tool.call.requested" /\ l[i].id = c}
  BY DEF About
<1> HIDE DEF m, n, A, B
<1>6. e.type \in Outcomes => /\ e.id \in ToolCalls /\ o[e.id] # "no"
                             /\ e.call = LastReq(l, e.id) /\ e.call \in A(e.id)
                             /\ e.call \in 1 .. n
                             /\ e.type = "tool.output.completed" => o[e.id] = "asked"
  <2>1. e.type \in Outcomes => /\ e.id \in ToolCalls /\ o[e.id] # "no"
                               /\ e.call = LastReq(l, e.id)
                               /\ e.type = "tool.output.completed" => o[e.id] = "asked"
    BY DEF MayFollow, Outcomes
  <2>2. QED  BY <1>2, <1>4, <1>5, <2>1
<1>7. e.type = "tool.call.requested" =>
         /\ e.id \in ToolCalls /\ e.call = n + 1 /\ p = [o EXCEPT ![e.id] = "asked"]
  BY DEF MayFollow, n
<1>8. ASSUME NEW i \in 1 .. n + 1, m[i].type = "tool.call.requested"
      PROVE  m[i].id \in ToolCalls /\ m[i].call = i
  <2>1. CASE i \in 1 .. n
    BY <1>1, <1>3, <1>8, <2>1
  <2>2. CASE i = n + 1
    BY <1>1, <1>7, <1>8, <2>2
  <2>3. QED  BY <1>1, <2>1, <2>2
<1>9. ASSUME NEW i \in 1 .. n + 1, m[i].type \in Outcomes
      PROVE  /\ m[i].id \in ToolCalls
             /\ m[i].call \in B(m[i].id)
             /\ m[i].call < i
             /\ \A j \in B(m[i].id) : j < i => j <= m[i].call
  <2>1. CASE i \in 1 .. n
    <3>1. m[i] = l[i] /\ l[i].type \in Outcomes
      BY <1>1, <1>9, <2>1
    <3>2. /\ l[i].id \in ToolCalls
          /\ l[i].call \in A(l[i].id)
          /\ l[i].call < i
          /\ \A j \in A(l[i].id) : j < i => j <= l[i].call
      BY <1>3, <2>1, <3>1
    <3>3. \A j \in B(l[i].id) : j < i => j \in A(l[i].id)
      BY <1>1, <2>1
    <3>4. A(l[i].id) \subseteq B(l[i].id)
      BY <1>1
    <3>5. QED  BY <3>1, <3>2, <3>3, <3>4
  <2>2. CASE i = n + 1
    <3>1. m[i] = e /\ e.type \in Outcomes /\ e.type # "tool.call.requested"
      BY <1>1, <1>9, <2>2 DEF Outcomes
    <3>2. /\ e.id \in ToolCalls /\ e.call \in A(e.id) /\ e.call \in 1 .. n
          /\ e.call = LastReq(l, e.id)
      BY <1>6, <3>1
    <3>3. B(e.id) = A(e.id)
      BY <1>1, <3>1
    <3>4. \A j \in A(e.id) : j <= e.call
      BY <1>2, <3>2
    <3>5. e.call < i
      BY <1>1, <2>2, <3>2
    <3>6. QED  BY <3>1, <3>2, <3>3, <3>4, <3>5
  <2>3. QED  BY <1>1, <2>1, <2>2
<1>10. ASSUME NEW i \in 1 .. n, e.type \in Once, l[i].type = e.type
       PROVE  l[i].call # e.call
  <2>1. e.type \in Outcomes
    BY <1>10 DEF Once, Outcomes
  <2>2. QED  BY <1>4, <1>6, <1>10, <2>1 DEF Once
<1>11. ASSUME NEW type \in Once, NEW i \in 1 .. n + 1, NEW j \in 1 .. n + 1,
              m[i].type = type, m[j].type = type, m[i].call = m[j].call
       PROVE  i = j
  <2>1. CASE i \in 1 .. n /\ j \in 1 .. n
    BY <1>1, <1>3, <1>11, <2>1
  <2>2. CASE i \in 1 .. n /\ j = n + 1
    BY <1>1, <1>10, <1>11, <2>2
  <2>3. CASE i = n + 1 /\ j \in 1 .. n
    BY <1>1, <1>10, <1>11, <2>3
  <2>4. QED  BY <1>1, <2>1, <2>2, <2>3
<1>12. CallsOK(m)
  BY <1>1, <1>8, <1>9, <1>11 DEF CallsOK, B
<1>13. ASSUME NEW c \in ToolCalls, p[c] # "no"
       PROVE  /\ B(c) # {}
              /\ \A i \in 1 .. n + 1 :
                    m[i].type = "tool.call.completed" => m[i].call # LastReq(m, c)
              /\ p[c] = "asked" => \A i \in 1 .. n + 1 :
                    m[i].type = "tool.output.completed" => m[i].call # LastReq(m, c)
  <2>1. CASE e.type = "tool.call.requested" /\ e.id = c
    <3>1. B(c) = A(c) \cup {n + 1} /\ LastReq(m, c) = n + 1
      BY <1>1, <1>2, <2>1
    <3>2. \A i \in 1 .. n + 1 : m[i].type \in Outcomes => m[i].call < i
      BY <1>9
    <3>3. \A i \in 1 .. n + 1 : m[i].type \in Outcomes => m[i].call # n + 1
      <4>1. ASSUME NEW i \in 1 .. n + 1, m[i].type \in Outcomes
            PROVE  m[i].call # n + 1
        <5>1. m[i].call < i /\ m[i].call \in B(m[i].id)
          BY <1>9, <4>1
        <5>2. QED  BY <1>1, <5>1
      <4>2. QED  BY <4>1
    <3>4. QED  BY <3>1, <3>3 DEF Outcomes
  <2>2. CASE ~(e.type = "tool.call.requested" /\ e.id = c)
    <3>1. B(c) = A(c) /\ LastReq(m, c) = LastReq(l, c)
      BY <1>1, <1>2, <2>2
    <3>2. /\ o[c] # "no"
          /\ p[c] = "asked" => o[c] = "asked"
          /\ e.type = "tool.call.completed" => e.id # c
          /\ e.type = "tool.output.completed" /\ p[c] = "asked" => e.id # c
      BY <1>13, <2>2 DEF MayFollow
    <3>3. A(c) # {} /\ LastReq(l, c) \in A(c)
      BY <1>2, <1>4, <3>2
    <3>4. e.type \in Outcomes /\ e.id # c => e.call # LastReq(l, c)
      <4>1. ASSUME e.type \in Outcomes, e.id # c, e.call = LastReq(l, c)
            PROVE  FALSE
        <5>1. e.call \in A(e.id) /\ e.call \in A(c)
          BY <1>6, <3>3, <4>1
        <5>2. QED  BY <1>5, <4>1, <5>1
      <4>2. QED  BY <4>1
    <3>5. ASSUME NEW i \in 1 .. n + 1, m[i].type = "tool.call.completed"
          PROVE  m[i].call # LastReq(l, c)
      <4>1. CASE i \in 1 .. n
        BY <1>1, <1>4, <3>2, <3>5, <4>1
      <4>2. CASE i = n + 1
        BY <1>1, <3>2, <3>4, <3>5, <4>2 DEF Outcomes
      <4>3. QED  BY <1>1, <4>1, <4>2
    <3>6. ASSUME p[c] = "asked", NEW i \in 1 .. n + 1, m[i].type = "tool.output.completed"
          PROVE  m[i].call # LastReq(l, c)
      <4>1. CASE i \in 1 .. n
        BY <1>1, <1>4, <3>2, <3>6, <4>1
      <4>2. CASE i = n + 1
        BY <1>1, <3>2, <3>4, <3>6, <4>2 DEF Outcomes
      <4>3. QED  BY <1>1, <4>1, <4>2
    <3>7. QED  BY <3>1, <3>3, <3>5, <3>6
  <2>3. QED  BY <2>1, <2>2
<1>14. OpenOK(m, p)
  BY <1>1, <1>13 DEF OpenOK, B
<1>15. QED  BY <1>12, <1>14 DEF m

-----------------------------------------------------------------------------
(* SessionRecords: the messages of a call                                  *)

\* The messages of a role that carry the id c.
At(ms, role, c) == {i \in 1 .. Len(ms) : ms[i].role = role /\ ms[i].id = c}

OfCall(ms, c) == At(ms, "tool_use", c) \cup At(ms, "tool_result", c)

Ended(l, c) == About(l, "tool.call.completed", c) \cup About(l, "tool.call.denied", c)

\* The messages ms of the events l: a result follows the request of its own
\* call, and the last message about an open call is its request.
PairsOK(l, o, ms) ==
    \A c \in ToolCalls :
       /\ \A i \in At(ms, "tool_result", c) :
             \E j \in At(ms, "tool_use", c) :
                 /\ j < i /\ ms[j].call = ms[i].call
                 /\ \A k \in OfCall(ms, c) : ~(j < k /\ k < i)
       /\ o[c] # "no" =>
             \E j \in At(ms, "tool_use", c) :
                 /\ ms[j].call = LastReq(l, c)
                 /\ \A k \in OfCall(ms, c) : k <= j
       /\ Cardinality(At(ms, "tool_result", c)) = Cardinality(Ended(l, c))

\* One message more.
LEMMA OneMore ==
    ASSUME NEW ms \in Seq(Msg), NEW x \in Msg
    PROVE  /\ Len(ms) \in Nat
           /\ (ms \o <<x>>)[Len(ms) + 1] = x
           /\ \A i \in 1 .. Len(ms) : (ms \o <<x>>)[i] = ms[i]
           /\ \A role, c, i : i \in At(ms \o <<x>>, role, c) <=>
                 i \in At(ms, role, c) \/ (i = Len(ms) + 1 /\ x.role = role /\ x.id = c)
<1> DEFINE n == Len(ms)
           u == ms \o <<x>>
<1>1. /\ n \in Nat /\ Len(u) = n + 1 /\ u[n + 1] = x
      /\ \A i \in 1 .. n : u[i] = ms[i]
  OBVIOUS
<1> HIDE DEF u, n
<1>2. \A i : i \in 1 .. n + 1 <=> i \in 1 .. n \/ i = n + 1
  BY <1>1
<1>3. ASSUME NEW role, NEW c
      PROVE  \A i : i \in At(u, role, c) <=>
                i \in At(ms, role, c) \/ (i = n + 1 /\ x.role = role /\ x.id = c)
  BY <1>1, <1>2 DEF At, n
<1>4. QED  BY <1>1, <1>3 DEF u, n

\* An event that may be next keeps each result after its own request.
LEMMA PairsGoOn ==
    ASSUME NEW l \in Seq(Event), NEW e \in Event, NEW ms \in Seq(Msg), NEW p,
           NEW o \in [ToolCalls -> {"no", "asked", "output"}],
           PairsOK(l, o, ms), MayFollow(l, o, e, p)
    PROVE  PairsOK(Append(l, e), p, ms \o MessageOf(e))
<1> DEFINE u == ms \o MessageOf(e)
           m == Append(l, e)
           n == Len(ms)
           Use(c) == At(ms, "tool_use", c)
           Res(c) == At(ms, "tool_result", c)
<1>1. /\ Len(l) \in Nat
      /\ \A type, c : About(m, type, c) =
            About(l, type, c) \cup {i \in {Len(l) + 1} : e.type = type /\ e.id = c}
      /\ \A c : LastReq(m, c) = IF e.type = "tool.call.requested" /\ e.id = c THEN Len(l) + 1
                                ELSE LastReq(l, c)
  BY AppendedAt, LastReqIs
<1>2. n \in Nat /\ \A c : Use(c) \subseteq 1 .. n /\ Res(c) \subseteq 1 .. n
  BY DEF At
<1>3. ASSUME MessageOf(e) = << >>
      PROVE  u = ms
  BY <1>3, ConcatEmptySeq
<1>4. ASSUME NEW role \in {"user", "assistant", "tool_use", "tool_result"},
             MessageOf(e) = <<Message(role, e)>>
      PROVE  /\ \A i \in 1 .. n : u[i] = ms[i]
             /\ u[n + 1].call = e.call
             /\ \A r, c, i : i \in At(u, r, c) <=>
                   i \in At(ms, r, c) \/ (i = n + 1 /\ role = r /\ e.id = c)
  <2>1. Message(role, e) \in Msg
    BY MessageOfType
  <2>2. Message(role, e).role = role /\ Message(role, e).id = e.id /\ Message(role, e).call = e.call
    BY DEF Message
  <2>3. PICK x \in Msg : x = Message(role, e)
    BY <2>1
  <2>4. u = ms \o <<x>>
    BY <1>4, <2>3
  <2> HIDE DEF u
  <2>5. QED  BY <2>2, <2>3, <2>4, OneMore
<1>5. ASSUME NEW c \in ToolCalls
      PROVE  /\ \A i \in Res(c) :
                   \E j \in Use(c) : /\ j < i /\ ms[j].call = ms[i].call
                                     /\ \A k \in Use(c) \cup Res(c) : ~(j < k /\ k < i)
             /\ o[c] # "no" => \E j \in Use(c) : /\ ms[j].call = LastReq(l, c)
                                                 /\ \A k \in Use(c) \cup Res(c) : k <= j
             /\ Cardinality(Res(c)) = Cardinality(Ended(l, c))
  BY DEF PairsOK, OfCall
<1> DEFINE Good(c) ==
              /\ \A i \in At(u, "tool_result", c) :
                   \E j \in At(u, "tool_use", c) :
                      /\ j < i /\ u[j].call = u[i].call
                      /\ \A k \in At(u, "tool_use", c) \cup At(u, "tool_result", c) :
                            ~(j < k /\ k < i)
              /\ p[c] # "no" =>
                   \E j \in At(u, "tool_use", c) :
                      /\ u[j].call = LastReq(m, c)
                      /\ \A k \in At(u, "tool_use", c) \cup At(u, "tool_result", c) : k <= j
              /\ Cardinality(At(u, "tool_result", c)) = Cardinality(Ended(m, c))
<1> HIDE DEF u, m, n, Use, Res
\* An event that does not concern the calls with the id c.
<1>6. ASSUME NEW c \in ToolCalls,
             \A i \in 1 .. n : u[i] = ms[i],
             At(u, "tool_use", c) = Use(c), At(u, "tool_result", c) = Res(c),
             LastReq(m, c) = LastReq(l, c), Ended(m, c) = Ended(l, c),
             p[c] # "no" => o[c] # "no"
      PROVE  Good(c)
  <2>1. \A k \in Use(c) \cup Res(c) : u[k] = ms[k]
    BY <1>2, <1>6
  <2>2. QED  BY <1>5, <1>6, <2>1
<1>7. ASSUME NEW c \in ToolCalls
      PROVE  Good(c)
  <2>1. CASE e.type = "model.output.completed"
    <3>1. PICK role \in {"user", "assistant"} : MessageOf(e) = <<Message(role, e)>>
      BY <2>1 DEF MessageOf
    <3>2. /\ \A i \in 1 .. n : u[i] = ms[i]
          /\ At(u, "tool_use", c) = Use(c) /\ At(u, "tool_result", c) = Res(c)
      <4>1. /\ \A i \in 1 .. n : u[i] = ms[i]
            /\ \A r, d, i : i \in At(u, r, d) <=>
                  i \in At(ms, r, d) \/ (i = n + 1 /\ role = r /\ e.id = d)
        BY <1>4, <3>1
      <4>2. role # "tool_use" /\ role # "tool_result"
        OBVIOUS
      <4>3. \A i : /\ i \in At(u, "tool_use", c) <=> i \in Use(c)
                   /\ i \in At(u, "tool_result", c) <=> i \in Res(c)
        BY <4>1, <4>2 DEF Use, Res
      <4>4. QED  BY <4>1, <4>3
    <3>3. p = o
      BY <2>1 DEF MayFollow
    <3>4. LastReq(m, c) = LastReq(l, c) /\ Ended(m, c) = Ended(l, c)
      BY <1>1, <2>1 DEF Ended
    <3>5. QED  BY <1>6, <3>2, <3>3, <3>4
  <2>2. CASE e.type = "tool.output.completed"
    <3>1. u = ms
      BY <1>3, <2>2 DEF MessageOf
    <3>2. LastReq(m, c) = LastReq(l, c) /\ Ended(m, c) = Ended(l, c)
      BY <1>1, <2>2 DEF Ended
    <3>3. p[c] # "no" => o[c] # "no"
      BY <2>2 DEF MayFollow
    <3>4. QED  BY <1>6, <3>1, <3>2, <3>3 DEF Use, Res
  <2>3. CASE e.type = "tool.call.requested"
    <3>1. MessageOf(e) = <<Message("tool_use", e)>>
      BY <2>3 DEF MessageOf
    <3>2. /\ \A i \in 1 .. n : u[i] = ms[i]
          /\ u[n + 1].call = e.call
          /\ At(u, "tool_use", c) = Use(c) \cup {i \in {n + 1} : e.id = c}
          /\ At(u, "tool_result", c) = Res(c)
      <4>1. /\ \A i \in 1 .. n : u[i] = ms[i]
            /\ u[n + 1].call = e.call
            /\ \A r, d, i : i \in At(u, r, d) <=>
                  i \in At(ms, r, d) \/ (i = n + 1 /\ "tool_use" = r /\ e.id = d)
        BY <1>4, <3>1
      <4>2. \A i : /\ i \in At(u, "tool_use", c) <=> i \in Use(c) \/ (i = n + 1 /\ e.id = c)
                   /\ i \in At(u, "tool_result", c) <=> i \in Res(c)
        BY <4>1 DEF Use, Res
      <4>3. QED  BY <4>1, <4>2
    <3>3. Ended(m, c) = Ended(l, c)
      BY <1>1, <2>3 DEF Ended
    <3>4. CASE e.id # c
      <4>1. LastReq(m, c) = LastReq(l, c) /\ (p[c] # "no" => o[c] # "no")
        BY <1>1, <2>3, <3>4 DEF MayFollow
      <4>2. At(u, "tool_use", c) = Use(c)
        BY <3>2, <3>4
      <4>3. QED  BY <1>6, <3>2, <3>3, <4>1, <4>2
    <3>5. CASE e.id = c
      <4>1. At(u, "tool_use", c) = Use(c) \cup {n + 1} /\ LastReq(m, c) = Len(l) + 1
        BY <1>1, <2>3, <3>2, <3>5
      <4>2. e.call = Len(l) + 1
        BY <2>3 DEF MayFollow
      <4>3. \A k \in Use(c) \cup Res(c) : k \in 1 .. n /\ u[k] = ms[k]
        BY <1>2, <3>2
      <4>4. \A i \in Res(c) :
               \E j \in Use(c) \cup {n + 1} :
                  /\ j < i /\ u[j].call = u[i].call
                  /\ \A k \in Use(c) \cup {n + 1} \cup Res(c) : ~(j < k /\ k < i)
        <5>1. SUFFICES ASSUME NEW i \in Res(c)
                       PROVE  \E j \in Use(c) \cup {n + 1} :
                                 /\ j < i /\ u[j].call = u[i].call
                                 /\ \A k \in Use(c) \cup {n + 1} \cup Res(c) : ~(j < k /\ k < i)
          OBVIOUS
        <5>2. PICK j \in Use(c) : /\ j < i /\ ms[j].call = ms[i].call
                                  /\ \A k \in Use(c) \cup Res(c) : ~(j < k /\ k < i)
          BY <1>5
        <5>3. ~(n + 1 < i) /\ u[j].call = u[i].call
          BY <1>2, <4>3, <5>2
        <5>4. QED  BY <5>2, <5>3
      <4>5. \A k \in Use(c) \cup {n + 1} \cup Res(c) : k <= n + 1
        BY <1>2, <4>3
      <4>6. QED  BY <1>5, <3>2, <3>3, <4>1, <4>2, <4>4, <4>5
    <3>6. QED  BY <3>4, <3>5
  <2>4. CASE e.type \in {"tool.call.completed", "tool.call.denied"}
    <3>1. MessageOf(e) = <<Message("tool_result", e)>>
      BY <2>4 DEF MessageOf
    <3>2. /\ \A i \in 1 .. n : u[i] = ms[i]
          /\ u[n + 1].call = e.call
          /\ At(u, "tool_use", c) = Use(c)
          /\ At(u, "tool_result", c) = Res(c) \cup {i \in {n + 1} : e.id = c}
      <4>1. /\ \A i \in 1 .. n : u[i] = ms[i]
            /\ u[n + 1].call = e.call
            /\ \A r, d, i : i \in At(u, r, d) <=>
                  i \in At(ms, r, d) \/ (i = n + 1 /\ "tool_result" = r /\ e.id = d)
        BY <1>4, <3>1
      <4>2. \A i : /\ i \in At(u, "tool_result", c) <=> i \in Res(c) \/ (i = n + 1 /\ e.id = c)
                   /\ i \in At(u, "tool_use", c) <=> i \in Use(c)
        BY <4>1 DEF Use, Res
      <4>3. QED  BY <4>1, <4>2
    <3>3. LastReq(m, c) = LastReq(l, c)
      BY <1>1, <2>4
    <3>4. Ended(m, c) = Ended(l, c) \cup {i \in {Len(l) + 1} : e.id = c}
      BY <1>1, <2>4 DEF Ended
    <3>5. CASE e.id # c
      <4>1. p[c] # "no" => o[c] # "no"
        BY <2>4, <3>5 DEF MayFollow
      <4>2. At(u, "tool_result", c) = Res(c) /\ Ended(m, c) = Ended(l, c)
        BY <3>2, <3>4, <3>5
      <4>3. QED  BY <1>6, <3>2, <3>3, <4>1, <4>2
    <3>6. CASE e.id = c
      <4>1. /\ At(u, "tool_result", c) = Res(c) \cup {n + 1}
            /\ Ended(m, c) = Ended(l, c) \cup {Len(l) + 1}
        BY <3>2, <3>4, <3>6
      <4>2. o[c] # "no" /\ e.call = LastReq(l, c) /\ p = [o EXCEPT ![c] = "no"]
        BY <2>4, <3>6 DEF MayFollow
      <4>3. p[c] = "no"
        BY <4>2
      <4>4. \A k \in Use(c) \cup Res(c) : k \in 1 .. n /\ u[k] = ms[k]
        BY <1>2, <3>2
      <4>5. PICK j \in Use(c) : /\ ms[j].call = LastReq(l, c)
                                /\ \A k \in Use(c) \cup Res(c) : k <= j
        BY <1>5, <4>2
      <4>6. /\ j < n + 1 /\ u[j].call = u[n + 1].call
            /\ \A k \in Use(c) \cup Res(c) \cup {n + 1} : ~(j < k /\ k < n + 1)
        BY <1>2, <3>2, <4>2, <4>4, <4>5
      <4>7. ASSUME NEW i \in Res(c)
            PROVE  \E h \in Use(c) :
                      /\ h < i /\ u[h].call = u[i].call
                      /\ \A k \in Use(c) \cup Res(c) \cup {n + 1} : ~(h < k /\ k < i)
        <5>1. PICK h \in Use(c) : /\ h < i /\ ms[h].call = ms[i].call
                                  /\ \A k \in Use(c) \cup Res(c) : ~(h < k /\ k < i)
          BY <1>5
        <5>2. ~(n + 1 < i) /\ u[h].call = u[i].call
          BY <1>2, <4>4, <5>1
        <5>3. QED  BY <5>1, <5>2
      <4>8. \A i \in Res(c) \cup {n + 1} :
               \E h \in Use(c) :
                  /\ h < i /\ u[h].call = u[i].call
                  /\ \A k \in Use(c) \cup (Res(c) \cup {n + 1}) : ~(h < k /\ k < i)
        BY <4>6, <4>7
      <4>9. Cardinality(Res(c) \cup {n + 1}) = Cardinality(Ended(l, c) \cup {Len(l) + 1})
        <5>1. IsFiniteSet(Res(c)) /\ n + 1 \notin Res(c)
          <6>1. IsFiniteSet(1 .. n)
            BY <1>2, FS_Interval
          <6>2. QED  BY <1>2, <6>1, FS_Subset
        <5>2. IsFiniteSet(Ended(l, c)) /\ Len(l) + 1 \notin Ended(l, c)
          <6>1. IsFiniteSet(1 .. Len(l))
            BY <1>1, FS_Interval
          <6>2. Ended(l, c) \subseteq 1 .. Len(l)
            BY DEF Ended, About
          <6>3. QED  BY <1>1, <6>1, <6>2, FS_Subset
        <5>3. Cardinality(Res(c) \cup {n + 1}) = Cardinality(Res(c)) + 1
          BY <5>1, FS_AddElement
        <5>4. Cardinality(Ended(l, c) \cup {Len(l) + 1}) = Cardinality(Ended(l, c)) + 1
          BY <5>2, FS_AddElement
        <5>5. QED  BY <1>5, <5>3, <5>4
      <4>10. QED  BY <3>2, <4>1, <4>3, <4>8, <4>9
    <3>7. QED  BY <3>5, <3>6
  <2>5. QED  BY <2>1, <2>2, <2>3, <2>4 DEF Event, EventTypes
<1>8. QED  BY <1>7 DEF PairsOK, OfCall, u, m

-----------------------------------------------------------------------------
(* SessionRecords: what is derived from the events                         *)

RecordsInv ==
    /\ ExportInv
    /\ CallsOK(log)
    /\ OpenOK(log, open)
    /\ Ordered => PairsOK(log, open, Transcript(log))

\* A session without events has no calls.
LEMMA RecordsInitInv == ASSUME RecordsInit PROVE RecordsInv
<1>1. log = << >> /\ open = [c \in ToolCalls |-> "no"]
  BY DEF RecordsInit, NoneOpen
<1>2. CallsOK(<< >>) /\ OpenOK(<< >>, open)
  BY <1>1 DEF CallsOK, OpenOK
<1>3. \A r, c : At(<< >>, r, c) = {} /\ Ended(<< >>, c) = {}
  BY DEF At, Ended, About
<1>4. PairsOK(<< >>, open, << >>)
  BY <1>1, <1>3 DEF PairsOK
<1>5. Transcript(<< >>) = << >>
  <2>1. << >> \in Seq(Event) /\ InPlace(<< >>)
    BY DEF InPlace
  <2>2. QED  BY <2>1, TranscriptIs, ToldEmpty
<1>6. QED  BY <1>1, <1>2, <1>4, <1>5, ExportInitInv DEF RecordsInv

\* What is appended keeps the invariant of the log; the export only reads it.
LEMMA RecordsStepKeeps ==
    ASSUME RecordsInv, RecordsNext
    PROVE  RecordsInv'
<1>1. ExportInv /\ ExportInv'
  BY ExportStepKeeps DEF RecordsInv
<1>2. Ordered' = Ordered
  BY DEF RecordsNext, AppendEvent, NextTask, StartExport, ExportPage, Ordered
<1>3. CASE AppendEvent
  <2>1. PICK e \in Event : /\ log' = Append(log, e)
                           /\ MayFollow(log, open, e, open')
                           /\ Ordered => e.seq = Len(log) + 1
    BY <1>1, <1>3, AppendedEvent
  <2>2. log \in Seq(Event) /\ open \in [ToolCalls -> {"no", "asked", "output"}]
    BY <1>1 DEF ExportInv
  <2>3. CallsOK(log') /\ OpenOK(log', open')
    BY <2>1, <2>2, CallsGoOn DEF RecordsInv
  <2>4. ASSUME Ordered
        PROVE  PairsOK(log', open', Transcript(log'))
    <3>1. InPlace(log) /\ InPlace(log') /\ log' \in Seq(Event)
      BY <1>1, <1>2, <2>4 DEF ExportInv, InPlace
    <3>2. Transcript(log) = Told(log) /\ Transcript(log') = Told(log') /\ Told(log) \in Seq(Msg)
      BY <2>2, <3>1, TranscriptIs
    <3>3. Transcript(log') = Transcript(log) \o MessageOf(e)
      BY <2>1, <2>2, <3>2, ToldAppend
    <3>4. QED  BY <2>1, <2>2, <2>4, <3>2, <3>3, PairsGoOn DEF RecordsInv
  <2>5. QED  BY <1>1, <1>2, <2>3, <2>4 DEF RecordsInv
<1>4. CASE NextTask
  <2>1. log' = log /\ open' = [c \in ToolCalls |-> "no"]
    BY <1>4 DEF NextTask, NoneOpen
  <2>2. CallsOK(log') /\ OpenOK(log', open')
    BY <2>1 DEF RecordsInv, OpenOK
  <2>3. Ordered => PairsOK(log', open', Transcript(log'))
    BY <2>1 DEF RecordsInv, PairsOK
  <2>4. QED  BY <1>1, <1>2, <2>2, <2>3 DEF RecordsInv
<1>5. CASE StartExport \/ ExportPage
  <2>1. log' = log /\ open' = open
    BY <1>5 DEF StartExport, ExportPage, logVars
  <2>2. QED  BY <1>1, <1>2, <2>1 DEF RecordsInv
<1>6. QED  BY <1>3, <1>4, <1>5 DEF RecordsNext

\* Every call that is over has its one result, next after its request.
LEMMA RecordsInvPairs == ASSUME RecordsInv PROVE TranscriptPairs
BY DEF RecordsInv, TranscriptPairs, PairsOK, OfCall, At, Ended

\* The input is cut as the budget says, whatever the transcript.
LEMMA ExportInvCompile == ASSUME ExportInv PROVE CompileExact
<1>1. Transcript(log) \in Seq(Msg) /\ Budgets \subseteq Nat
  BY TranscriptIs, RecordsAssumption DEF ExportInv
<1>2. PICK ms \in Seq(Msg) : ms = Transcript(log)
  BY <1>1
<1> SUFFICES ASSUME NEW max \in Budgets
             PROVE  LET c == Compile(ms, max)
                        from == Len(ms) - Cardinality(c.kept) + 1
                    IN  /\ c.kept = from .. Len(ms)
                        /\ c.omitted = 1 .. from - 1
                        /\ ms # << >> => c.kept # {}
                        /\ max # 0 => /\ c.overflow <=> SizeFrom(ms, from) > max
                                      /\ c.overflow => from = Len(ms)
                                      /\ from > 1 => SizeFrom(ms, from - 1) > max
                        /\ max = 0 => from = 1
  BY <1>2 DEF CompileExact
<1> DEFINE c == Compile(ms, max)
           n == Len(ms)
<1>3. PICK from \in 1 .. n + 1 :
                  /\ c.kept = from .. n
                  /\ c.omitted = 1 .. from - 1
                  /\ ms # << >> => from <= n
                  /\ max # 0 => /\ c.overflow <=> SizeFrom(ms, from) > max
                                /\ c.overflow => from = n
                                /\ from > 1 => SizeFrom(ms, from - 1) > max
                  /\ max = 0 => from = 1
  BY <1>1, CompileKeeps
<1>4. n \in Nat
  OBVIOUS
<1> HIDE DEF c, n
<1>5. from = n - Cardinality(c.kept) + 1
  <2>1. Cardinality(from .. n) = IF from > n THEN 0 ELSE n - from + 1
    BY <1>4, FS_Interval
  <2>2. QED  BY <1>3, <1>4, <2>1
<1>6. ASSUME ms # << >>
      PROVE  c.kept # {}
  <2>1. from \in from .. n
    BY <1>3, <1>4, <1>6
  <2>2. QED  BY <1>3, <2>1
<1>7. QED  BY <1>3, <1>5, <1>6 DEF c, n

\* An entry is of the last call under its id, and has what that call has.
LEMMA EntryIs ==
    ASSUME NEW l \in Seq(Event), CallsOK(l), NEW c \in ToolCalls,
           About(l, "tool.call.requested", c) # {}
    PROVE  /\ Entry(l, c).asked \in About(l, "tool.call.requested", c)
           /\ \A j \in About(l, "tool.call.requested", c) : j <= Entry(l, c).asked
           /\ \A k \in 1 .. Len(l) :
                 /\ k = Entry(l, c).result <=>
                      l[k].type = "tool.call.completed" /\ l[k].call = l[Entry(l, c).asked].call
                 /\ k = Entry(l, c).stdout <=>
                      l[k].type = "tool.output.completed" /\ l[k].call = l[Entry(l, c).asked].call
<1> DEFINE n == Len(l)
           A == About(l, "tool.call.requested", c)
           asked == LastReq(l, c)
           After(type) == {i \in About(l, type, c) : i > asked}
<1>1. /\ Entry(l, c).asked = asked
      /\ Entry(l, c).result = Latest(After("tool.call.completed"))
      /\ Entry(l, c).stdout = Latest(After("tool.output.completed"))
  BY DEF Entry, LastReq
<1>2. n \in Nat /\ asked \in A /\ \A i \in A : i <= asked
  BY LastReqIs
<1>3. asked \in 1 .. n /\ l[asked].call = asked /\ l[asked].id = c
  BY <1>2 DEF About, CallsOK
<1>4. ASSUME NEW type \in Once, NEW k \in 1 .. n
      PROVE  k = Latest(After(type)) <=> l[k].type = type /\ l[k].call = asked
  <2>1. After(type) \in SUBSET (1 .. n)
    BY DEF About
  <2>2. ASSUME NEW i \in After(type)
        PROVE  l[i].type = type /\ l[i].call = asked /\ i \in 1 .. n
    <3>1. i \in 1 .. n /\ l[i].type = type /\ l[i].id = c /\ i > asked /\ type \in Outcomes
      BY DEF About, Once, Outcomes
    <3>2. /\ l[i].call \in A /\ l[i].call < i
          /\ \A j \in A : j < i => j <= l[i].call
      BY <3>1 DEF CallsOK
    <3>3. asked <= l[i].call /\ l[i].call <= asked /\ l[i].call \in 1 .. n
      <4>1. l[i].call \in 1 .. n
        BY <3>2 DEF About
      <4> HIDE DEF A, asked, After, n
      <4>2. QED  BY <1>2, <1>3, <3>1, <3>2, <4>1
    <3> HIDE DEF A, asked, After, n
    <3>4. QED  BY <1>3, <3>1, <3>3
  <2>3. ASSUME l[k].type = type, l[k].call = asked
        PROVE  k \in After(type)
    <3>1. /\ type \in Outcomes
          /\ l[k].call \in About(l, "tool.call.requested", l[k].id) /\ l[k].call < k
      BY <2>3 DEF Once, Outcomes, CallsOK
    <3>2. l[k].id = c
      BY <1>3, <2>3, <3>1 DEF About
    <3>3. k \in About(l, type, c)
      BY <2>3, <3>2 DEF About
    <3> HIDE DEF asked
    <3>4. QED  BY <1>2, <1>3, <2>3, <3>1, <3>3
  <2> HIDE DEF A, asked, After
  <2>4. ASSUME k = Latest(After(type))
        PROVE  l[k].type = type /\ l[k].call = asked
    <3>1. k # 0
      BY <1>2
    <3>2. k \in After(type)
      BY <1>2, <2>1, <2>4, <3>1, LatestIs
    <3>3. QED  BY <2>2, <3>2
  <2>5. ASSUME l[k].type = type, l[k].call = asked
        PROVE  k = Latest(After(type))
    <3>1. k \in After(type)
      BY <2>3, <2>5
    <3>2. Latest(After(type)) \in After(type)
      BY <1>2, <2>1, <3>1, LatestIs
    <3>3. \A i, j \in 1 .. n : l[i].type = type /\ l[j].type = type /\ l[i].call = l[j].call => i = j
      BY DEF CallsOK, n
    <3>4. QED  BY <2>2, <2>5, <3>2, <3>3
  <2>6. QED  BY <2>4, <2>5
<1> HIDE DEF A, asked, After
<1>5. QED  BY <1>1, <1>2, <1>3, <1>4 DEF Once, n, A

\* A part of the log, from its beginning, has its calls in order too.
LEMMA CallsOfPrefix ==
    ASSUME NEW l \in Seq(Event), CallsOK(l), NEW n \in 0 .. Len(l)
    PROVE  CallsOK(SubSeq(l, 1, n))
<1> DEFINE s == SubSeq(l, 1, n)
<1>1. /\ n \in Nat /\ Len(s) = n
      /\ \A i \in 1 .. n : s[i] = l[i] /\ i \in 1 .. Len(l)
  OBVIOUS
<1> HIDE DEF s
<1>2. \A c : About(s, "tool.call.requested", c) =
               {i \in About(l, "tool.call.requested", c) : i <= n}
  BY <1>1 DEF About
<1>3. ASSUME NEW i \in 1 .. n, s[i].type \in Outcomes
      PROVE  /\ s[i].id \in ToolCalls
             /\ s[i].call \in About(s, "tool.call.requested", s[i].id)
             /\ s[i].call < i
             /\ \A j \in About(s, "tool.call.requested", s[i].id) : j < i => j <= s[i].call
  <2>1. i \in 1 .. Len(l) /\ l[i].type \in Outcomes /\ s[i] = l[i]
    BY <1>1, <1>3
  <2>2. /\ l[i].id \in ToolCalls
        /\ l[i].call \in About(l, "tool.call.requested", l[i].id)
        /\ l[i].call < i
        /\ \A j \in About(l, "tool.call.requested", l[i].id) : j < i => j <= l[i].call
    BY <2>1 DEF CallsOK
  <2>3. l[i].call \in Nat
    BY <2>2 DEF About
  <2>4. l[i].call <= n
    BY <1>1, <2>2, <2>3
  <2>5. QED  BY <1>2, <2>1, <2>2, <2>4
<1>4. \A i \in 1 .. n : s[i].type = "tool.call.requested" =>
         s[i].id \in ToolCalls /\ s[i].call = i
  BY <1>1 DEF CallsOK
<1>5. \A type \in Once, i, j \in 1 .. n :
         s[i].type = type /\ s[j].type = type /\ s[i].call = s[j].call => i = j
  BY <1>1 DEF CallsOK
<1>6. CallsOK(s)
  BY <1>1, <1>3, <1>4, <1>5 DEF CallsOK
<1>7. QED  BY <1>6 DEF s

\* Every entry of the bundle's tool transcript stands where the first request
\* of its id does, and is of the last.
LEMMA RecordsInvTools == ASSUME RecordsInv PROVE ToolTranscriptExact
<1> SUFFICES ASSUME Ordered
             PROVE  ToolTranscriptExact
  BY DEF ToolTranscriptExact
<1> DEFINE n == Len(exported)
           entries == ToolTranscript(exported)
           shown == {i \in 1 .. n : exported[i].type \in
                       {"tool.call.requested", "tool.call.completed", "tool.output.completed"}}
           inserts == {i \in shown : \A j \in shown : exported[j].id = exported[i].id => i <= j}
           requests == {i \in 1 .. n : exported[i].type = "tool.call.requested"}
           firsts == {i \in requests :
                         \A j \in requests : exported[j].id = exported[i].id => i <= j}
<1>1. exported \in Seq(Event) /\ CallsOK(exported) /\ n \in Nat
  <2>1. /\ log \in Seq(Event) /\ cursor \in 0 .. Len(log)
        /\ exported = SubSeq(log, 1, cursor) /\ CallsOK(log)
    BY DEF RecordsInv, ExportInv
  <2>2. QED  BY <2>1, CallsOfPrefix
<1> HIDE DEF n
<1>2. \A c : About(exported, "tool.call.requested", c) = {i \in requests : exported[i].id = c}
  BY DEF About, n
<1>3. ASSUME NEW i \in shown
      PROVE  \E j \in requests : j <= i /\ exported[j].id = exported[i].id
  <2>1. CASE exported[i].type = "tool.call.requested"
    BY <1>1, <2>1
  <2>2. CASE exported[i].type # "tool.call.requested"
    <3>1. exported[i].type \in Outcomes /\ i \in 1 .. Len(exported)
      BY <2>2 DEF Outcomes, n
    <3>2. /\ exported[i].call \in About(exported, "tool.call.requested", exported[i].id)
          /\ exported[i].call < i
      BY <1>1, <3>1 DEF CallsOK
    <3>3. exported[i].call \in requests /\ exported[exported[i].call].id = exported[i].id
      BY <1>2, <3>2
    <3>4. QED  BY <1>1, <3>2, <3>3
  <2>3. QED  BY <2>1, <2>2
<1>4. inserts = firsts
  <2>1. requests \subseteq shown /\ shown \subseteq Nat
    BY <1>1
  <2>2. ASSUME NEW i \in inserts
        PROVE  i \in firsts
    <3>1. PICK j \in requests : j <= i /\ exported[j].id = exported[i].id
      BY <1>3
    <3>2. j = i
      <4>1. i <= j /\ i \in Nat /\ j \in Nat
        BY <2>1, <3>1
      <4>2. QED  BY <3>1, <4>1
    <3>3. QED  BY <2>1, <3>1, <3>2
  <2>3. ASSUME NEW i \in firsts
        PROVE  i \in inserts
    <3>1. ASSUME NEW j \in shown, exported[j].id = exported[i].id
          PROVE  i <= j
      <4>1. PICK k \in requests : k <= j /\ exported[k].id = exported[j].id
        BY <1>3
      <4>2. i <= k /\ i \in Nat /\ j \in Nat /\ k \in Nat
        BY <2>1, <3>1, <4>1
      <4>3. QED  BY <4>1, <4>2
    <3>2. QED  BY <2>1, <3>1
  <2> HIDE DEF inserts, firsts
  <2>4. QED  BY <2>2, <2>3
<1>5. entries = [i \in firsts |-> Entry(exported, exported[i].id)]
  <2>1. entries = [i \in inserts |-> Entry(exported, exported[i].id)]
    BY DEF ToolTranscript, n
  <2> HIDE DEF inserts, firsts, entries
  <2>2. QED  BY <1>4, <2>1
<1>6. ASSUME NEW i \in firsts
      PROVE  /\ entries[i].asked \in requests
             /\ exported[entries[i].asked].id = exported[i].id
             /\ \A j \in requests : exported[j].id = exported[i].id => j <= entries[i].asked
             /\ \A k \in 1 .. Len(exported) :
                  /\ k = entries[i].result <=>
                       /\ exported[k].type = "tool.call.completed"
                       /\ exported[k].call = exported[entries[i].asked].call
                  /\ k = entries[i].stdout <=>
                       /\ exported[k].type = "tool.output.completed"
                       /\ exported[k].call = exported[entries[i].asked].call
  <2> DEFINE c == exported[i].id
             e == Entry(exported, c)
  <2>1. entries[i] = e
    BY <1>5
  <2>2. c \in ToolCalls
    BY <1>1 DEF CallsOK, n
  <2>3. i \in About(exported, "tool.call.requested", c)
    BY <1>2
  <2>4. /\ e.asked \in About(exported, "tool.call.requested", c)
        /\ \A j \in About(exported, "tool.call.requested", c) : j <= e.asked
        /\ \A k \in 1 .. Len(exported) :
              /\ k = e.result <=>
                   exported[k].type = "tool.call.completed" /\ exported[k].call = exported[e.asked].call
              /\ k = e.stdout <=>
                   exported[k].type = "tool.output.completed" /\ exported[k].call = exported[e.asked].call
    <3> HIDE DEF c, entries
    <3>1. About(exported, "tool.call.requested", c) # {}
      BY <2>3
    <3>2. QED  BY <1>1, <2>2, <3>1, EntryIs
  <2> HIDE DEF e, entries, requests
  <2>5. QED  BY <1>2, <2>1, <2>4
<1>7. DOMAIN entries = firsts
  BY <1>5
<1> HIDE DEF entries
<1>8. QED  BY <1>6, <1>7 DEF ToolTranscriptExact, entries, n

-----------------------------------------------------------------------------
(* The parts together                                                      *)

PartsInv == ToolInv /\ RpcInv /\ ArtifactInv /\ RateInv /\ RecordsInv

\* A part's invariant says nothing of another part's variables.
LEMMA Frames ==
    /\ ToolInv /\ UNCHANGED toolVars => ToolInv'
    /\ RpcInv /\ UNCHANGED rpcVars => RpcInv'
    /\ ArtifactInv /\ UNCHANGED artifactVars => ArtifactInv'
    /\ RateInv /\ UNCHANGED rateVars => RateInv'
    /\ RecordsInv /\ UNCHANGED recordVars => RecordsInv'
<1>1. ToolInv /\ UNCHANGED toolVars => ToolInv'
  BY DEF ToolInv, ToolTypeOK, CallOK, Ran, Refusal, Registered, Decide,
         RegistryRefuses, DockerRefuses, toolVars
<1>2. RpcInv /\ UNCHANGED rpcVars => RpcInv'
  BY DEF RpcInv, RpcTypeOK, FirstAbout, rpcVars
<1>3. ArtifactInv /\ UNCHANGED artifactVars => ArtifactInv'
  BY DEF ArtifactInv, ArtifactTypeOK, ArtifactsWhole, Written, artifactVars
<1>4. RateInv /\ UNCHANGED rateVars => RateInv'
  BY DEF RateInv, rateVars
<1>5. RecordsInv /\ UNCHANGED recordVars => RecordsInv'
  BY DEF RecordsInv, ExportInv, Ordered, recordVars, logVars, exportVars
<1>6. QED  BY <1>1, <1>2, <1>3, <1>4, <1>5

\* The invariants of the parts hold in every state of every behaviour.
LEMMA PartsCorrect == Spec => []PartsInv
<1>1. Init => PartsInv
  BY ToolInitInv, RpcInitInv, ArtifactInitInv, RateInitInv, RecordsInitInv DEF Init, PartsInv
<1>2. PartsInv /\ [Next]_vars => PartsInv'
  <2>1. CASE ToolNext /\ UNCHANGED <<rpcVars, artifactVars, rateVars, recordVars>>
    BY <2>1, ToolStepKeeps, Frames DEF PartsInv
  <2>2. CASE RpcNext /\ UNCHANGED <<toolVars, artifactVars, rateVars, recordVars>>
    BY <2>2, RpcStepKeeps, Frames DEF PartsInv
  <2>3. CASE ArtifactNext /\ UNCHANGED <<toolVars, rpcVars, rateVars, recordVars>>
    BY <2>3, ArtifactStepKeeps, Frames DEF PartsInv
  <2>4. CASE RateNext /\ UNCHANGED <<toolVars, rpcVars, artifactVars, recordVars>>
    BY <2>4, RateStepKeeps, Frames DEF PartsInv
  <2>5. CASE RecordsNext /\ UNCHANGED <<toolVars, rpcVars, artifactVars, rateVars>>
    BY <2>5, RecordsStepKeeps, Frames DEF PartsInv
  <2>6. CASE UNCHANGED vars
    BY <2>6, Frames DEF PartsInv, vars
  <2>7. QED  BY <2>1, <2>2, <2>3, <2>4, <2>5, <2>6 DEF Next
<1>3. QED  BY <1>1, <1>2, PTL DEF Spec

\* No tool runs that the permission policy, the registry or the executor's own
\* checks refuse (executor/policy.ts, tools/registry.ts, executor/docker.ts),
\* whatever the tools, the setups and the calls that overlap.
THEOREM CallsAreAllowed == Spec => []RunsOnlyAllowed
BY PartsCorrect, RanIsAllowed, PTL DEF PartsInv

\* A docker call answers a timeout once its timer has fired, a success only
\* after a whole response, and leaves no process that could be killed
\* (executor/docker.ts).
THEOREM DockerRunsEnd == Spec => []DockerRunEnds
BY PartsCorrect, RunsEnd, PTL DEF PartsInv

\* A caller of a JSON-RPC client gets the first answer to its own request, and
\* nobody waits on a client that is closed (runtime/json-rpc.ts), for any
\* number of requests, answers and lines.
THEOREM CallersAreSettled == Spec => []CallersSettledOnce
BY PartsCorrect, RpcInvSettles, PTL DEF PartsInv

\* A reader of the artifact store gets the whole artifact or nothing, and the
\* whole one if its reference was logged (executor/artifact-store-file.ts).
THEOREM ReadersGetWhole == Spec => []ArtifactsWhole
<1>1. PartsInv => ArtifactsWhole
  BY DEF PartsInv, ArtifactInv
<1>2. QED  BY PartsCorrect, <1>1, PTL

\* No stretch of a window's length, wherever it begins, lets more than twice the
\* limit through, and a client is refused only for as many of its own requests
\* let through within the last one (daemon/server.ts, RateLimiter), for any
\* clients, limit, length of a window and times of the requests.
THEOREM WindowsHold == Spec => []RateWindows
<1>1. PartsInv => RateWindows
  BY RateInvBound, RateInvOpen DEF PartsInv, RateWindows
<1>2. QED  BY PartsCorrect, <1>1, PTL

\* A session's log in SQLite, whoever numbers its events, and one in memory that
\* append numbers, is in order and without a gap (executor/event-store.ts,
\* append); and of such a log the export is the log as it was at some moment
\* since the export began, whatever the size of the pages and whatever is
\* appended meanwhile (support/bundle.ts, collectEvents).
THEOREM ExportIsPrefix == Spec => []ExportExact
<1>1. PartsInv => ExportExact
  BY ExportInvExact DEF PartsInv, RecordsInv
<1>2. QED  BY PartsCorrect, <1>1, PTL

\* And the bundle has one entry per call id that it exports a request of, in the
\* order of the first requests: the last call's, with its result and its output
\* if and only if they are exported, however many tasks and attempts used the
\* id before (buildToolTranscript).
THEOREM BundleIsExact == Spec => []BundleExact
<1>1. PartsInv => BundleExact
  BY ExportInvExact, RecordsInvTools DEF PartsInv, RecordsInv, BundleExact
<1>2. QED  BY PartsCorrect, <1>1, PTL

\* The transcript of an ordered log of any length has a result for each call that
\* was completed or denied, and the last use of the result's id before it is
\* that very call's, however often the id is used (core/transcript.ts); and any
\* budget keeps the newest messages of any log, no fewer than fit, and reports
\* the others (core/context-compiler.ts).
THEOREM InputIsExact == Spec => []InputExact
<1>1. PartsInv => InputExact
  BY RecordsInvPairs, ExportInvCompile DEF PartsInv, RecordsInv, InputExact
<1>2. QED  BY PartsCorrect, <1>1, PTL

\* Once the timer has fired, a process that was not killed has ended the call.
TimerKills == \A r \in Requests : call[r] = "running" /\ timedOut[r] => killed[r] = "sent"

\* The exit of the process closes the client.
ExitCloses == proc = "reported" => rpcClosed

\* Whoever waits for a process has something to come: a docker call with a
\* timeout its timer, or the end of the process that the timer killed; a
\* request the exit of the process, and its answer, if the process gave one, in
\* a line that is still unread.
NobodyForgotten ==
    /\ \A r \in Requests :
          child[r] = "running" /\ call[r] # "answered" =>
              \/ call[r] = "running" /\ ~timedOut[r]
              \/ killed[r] = "sent"
    /\ \A i \in Ids : promise[i] = "waiting" =>
          /\ proc # "reported"
          /\ said[i] # << >> => \E k \in 1 .. Len(lines) : lines[k].id = i

\* The callers of docker (executor/docker.ts) and of a JSON-RPC client
\* (runtime/json-rpc.ts) are never left with nothing to wait for, whatever
\* hangs, repeats itself or exits.
THEOREM NobodyIsForgotten == Spec => []NobodyForgotten
<1>1. Init => TimerKills /\ ExitCloses
  BY DEF Init, ToolInit, RpcInit, TimerKills, ExitCloses
<1>2. PartsInv /\ TimerKills /\ ExitCloses /\ [Next]_vars => (TimerKills /\ ExitCloses)'
  <2> SUFFICES ASSUME PartsInv, TimerKills, ExitCloses, [Next]_vars
               PROVE  TimerKills' /\ ExitCloses'
    OBVIOUS
  <2>1. UNCHANGED toolVars => TimerKills'
    BY DEF TimerKills, toolVars
  <2>2. UNCHANGED rpcVars => ExitCloses'
    BY DEF ExitCloses, rpcVars
  <2>3. ASSUME ToolNext
        PROVE  TimerKills'
    <3>1. PICK r \in Requests :
             \/ Call(r) \/ HandlerDone(r) \/ ChildWrites(r) \/ Timer(r)
             \/ ChildCloses(r) \/ SpawnFails(r) \/ KillFails(r)
      BY <2>3 DEF ToolNext
    <3>2. /\ ToolTypeOK
          /\ \A q \in Requests : call[q] = "idle" => child[q] = "none"
          /\ \A q \in Requests : child[q] = "none" => ~timedOut[q]
      BY DEF PartsInv, ToolInv, CallOK
    <3>3. ASSUME NEW q \in Requests, call'[q] = "running", timedOut'[q]
          PROVE  killed'[q] = "sent"
      <4>1. CASE q # r
        BY <3>1, <3>2, <3>3, <4>1 DEF ToolTypeOK, TimerKills, Call, HandlerDone, ChildWrites,
           Timer, ChildCloses, SpawnFails, KillFails, Return
      <4>2. CASE q = r
        <5>1. CASE Call(r)
          BY <3>2, <3>3, <4>2, <5>1 DEF ToolTypeOK, Call
        <5>2. CASE Timer(r)
          BY <3>2, <4>2, <5>2 DEF ToolTypeOK, Timer
        <5>3. CASE ChildWrites(r)
          BY <3>3, <4>2, <5>3 DEF TimerKills, ChildWrites
        <5>4. CASE HandlerDone(r) \/ ChildCloses(r) \/ SpawnFails(r) \/ KillFails(r)
          BY <3>2, <3>3, <4>2, <5>4 DEF ToolTypeOK, TimerKills, HandlerDone, ChildCloses,
             SpawnFails, KillFails, Return
        <5>5. QED  BY <3>1, <5>1, <5>2, <5>3, <5>4
      <4>3. QED  BY <4>1, <4>2
    <3>4. QED  BY <3>3 DEF TimerKills
  <2>4. ASSUME RpcNext
        PROVE  ExitCloses'
    BY <2>4 DEF ExitCloses, RpcNext, Request, ProcessAnswers, ProcessChatters, Line,
       ProcessExits, ExitEvent, CloseClient, RejectAll
  <2>5. \/ ToolNext /\ UNCHANGED rpcVars
        \/ RpcNext /\ UNCHANGED toolVars
        \/ UNCHANGED toolVars /\ UNCHANGED rpcVars
    BY DEF Next, vars
  <2>6. QED  BY <2>1, <2>2, <2>3, <2>4, <2>5
<1>3. PartsInv /\ TimerKills /\ ExitCloses => NobodyForgotten
  <2> SUFFICES ASSUME PartsInv, TimerKills, ExitCloses
               PROVE  NobodyForgotten
    OBVIOUS
  <2>1. \A i \in Ids : promise[i] = "waiting" =>
           /\ proc # "reported"
           /\ said[i] # << >> => \E k \in 1 .. Len(lines) : lines[k].id = i
    BY DEF PartsInv, RpcInv, ExitCloses
  <2>2. \A r \in Requests :
           child[r] = "running" /\ call[r] # "answered" =>
              (call[r] = "running" /\ ~timedOut[r]) \/ killed[r] = "sent"
    BY DEF PartsInv, ToolInv, ToolTypeOK, CallOK, TimerKills
  <2>3. QED  BY <2>1, <2>2 DEF NobodyForgotten
<1>4. QED  BY <1>1, <1>2, <1>3, PartsCorrect, PTL DEF Spec
==============================================================================
