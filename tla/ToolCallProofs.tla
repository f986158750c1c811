--------------------------- MODULE ToolCallProofs ---------------------------
(***************************************************************************)
(* The events of a tool call: their order (CallLifecycle) and the decision *)
(* that every execution rests on (AuditTrail), for any number of sessions, *)
(* tasks, calls and attempts, whatever interleaves with the handler.       *)
(*                                                                         *)
(* Both follow from what has been logged of a call when its handler is     *)
(* about to log more: only the request while it is queued, the request and *)
(* the policy's question while the user is asked, no completion while it   *)
(* executes.                                                               *)
(***************************************************************************)
EXTENDS ExecutorEngineProofs

\* The types of the events logged for call c of task t.
Said(t, c) == {type \in ToolEvents : Logged(t, c, type)}

Denials == {"policy_deny", "user_deny", "denied"}

\* Nothing is logged of a call before its request.
RequestedFirst ==
    \A t \in Tasks, c \in Calls \cup {NoCall} :
        Said(t, c) # {} => "requested" \in Said(t, c)

\* A queued call is waiting for the first time, and only once.
QueueOK(t) ==
    /\ \A k \in 1 .. Len(toolQueue[t]) :
          /\ Said(t, toolQueue[t][k]) = {"requested"}
          /\ worker[t].pc # "idle" => toolQueue[t][k] # worker[t].call
    /\ \A k, l \in 1 .. Len(toolQueue[t]) :
          toolQueue[t][k] = toolQueue[t][l] => k = l

\* What has been logged of the call that is being handled.
HandledOK(t) ==
    LET c == worker[t].call
    IN  /\ worker[t].pc # "idle" => c \in Calls /\ "requested" \in Said(t, c)
        /\ worker[t].pc \in {"asking", "decided"} =>
               Said(t, c) = {"requested", "policy_ask"}
        /\ worker[t].pc = "decided" /\ worker[t].verdict = "approve" =>
               <<SessionOf[t], c>> \in granted
        /\ worker[t].pc = "executing" => "completed" \notin Said(t, c)

HandlersOK == \A t \in Tasks : QueueOK(t) /\ HandledOK(t)

CallInv == RequestedFirst /\ HandlersOK /\ CallLifecycle /\ AuditTrail

-----------------------------------------------------------------------------
(* Appending to the log.                                                   *)

\* Where the old and the new events of a log are.
LEMMA Appended ==
    ASSUME StreamTypeOK, NEW t \in Tasks, NEW es \in Seq(Event), Emit(t, es)
    PROVE  /\ \A s \in Sessions : s # SessionOf[t] => log'[s] = log[s]
           /\ Len(TaskLog(t)) \in Nat
           /\ Len(TaskLog(t)') = Len(TaskLog(t)) + Len(es)
           /\ \A i \in 1 .. Len(TaskLog(t)) : TaskLog(t)'[i] = TaskLog(t)[i]
           /\ \A k \in 1 .. Len(es) : TaskLog(t)'[Len(TaskLog(t)) + k] = es[k]
           /\ \A i \in 1 .. Len(TaskLog(t)') :
                 \/ i \in 1 .. Len(TaskLog(t))
                 \/ \E k \in 1 .. Len(es) : i = Len(TaskLog(t)) + k
<1> DEFINE old == log[SessionOf[t]]
<1>1. SessionOf[t] \in Sessions /\ old \in Seq(Event) /\ Len(old) \in Nat
  BY EngineAssumption DEF StreamTypeOK
<1>2. /\ log'[SessionOf[t]] = old \o es
      /\ \A s \in Sessions : s # SessionOf[t] => log'[s] = log[s]
  BY <1>1 DEF Emit, StreamTypeOK
<1>3. /\ Len(old \o es) = Len(old) + Len(es)
      /\ \A i \in 1 .. Len(old) : (old \o es)[i] = old[i]
      /\ \A k \in 1 .. Len(es) : (old \o es)[Len(old) + k] = es[k]
  BY <1>1
<1>4. \A i \in 1 .. Len(old \o es) :
          i \in 1 .. Len(old) \/ \E k \in 1 .. Len(es) : i = Len(old) + k
  <2> SUFFICES ASSUME NEW i \in 1 .. Len(old \o es), i \notin 1 .. Len(old)
               PROVE  \E k \in 1 .. Len(es) : i = Len(old) + k
    OBVIOUS
  <2>1. i - Len(old) \in 1 .. Len(es) /\ i = Len(old) + (i - Len(old))
    BY <1>1, <1>3
  <2>2. QED  BY <2>1
<1>5. QED  BY <1>1, <1>2, <1>3, <1>4 DEF TaskLog

\* The same, of the log of a session.
LEMMA AppendedAt ==
    ASSUME StreamTypeOK, NEW t \in Tasks, NEW es \in Seq(Event), Emit(t, es)
    PROVE  LET old == log[SessionOf[t]]
               new == log'[SessionOf[t]]
           IN  /\ Len(old) \in Nat /\ Len(es) \in Nat /\ Len(new) = Len(old) + Len(es)
               /\ \A j \in 1 .. Len(old) : j \in 1 .. Len(new) /\ new[j] = old[j]
               /\ \A k \in 1 .. Len(es) : new[Len(old) + k] = es[k]
               /\ \A j \in 1 .. Len(new) :
                     j \in 1 .. Len(old) \/ \E k \in 1 .. Len(es) : j = Len(old) + k
<1> DEFINE old == log[SessionOf[t]]
           new == log'[SessionOf[t]]
<1>1. Len(old) \in Nat /\ Len(es) \in Nat /\ Len(new) = Len(old) + Len(es)
  BY Appended DEF TaskLog
<1>2. \A j \in 1 .. Len(old) : new[j] = old[j]
  BY Appended DEF TaskLog
<1>3. \A k \in 1 .. Len(es) : new[Len(old) + k] = es[k]
  BY Appended DEF TaskLog
<1>4. \A j \in 1 .. Len(new) :
          j \in 1 .. Len(old) \/ \E k \in 1 .. Len(es) : j = Len(old) + k
  BY Appended DEF TaskLog
<1> HIDE DEF old, new
<1>5. \A j \in 1 .. Len(old) : j \in 1 .. Len(new)
  BY <1>1
<1>6. QED  BY <1>1, <1>2, <1>3, <1>4, <1>5 DEF old, new

\* An event is logged after a step if it was, or if the step appended it.
LEMMA LoggedAfter ==
    ASSUME StreamTypeOK, NEW t \in Tasks, NEW es \in Seq(Event), Emit(t, es),
           NEW u \in Tasks, NEW d, NEW type
    PROVE  Logged(u, d, type)' <=>
               \/ Logged(u, d, type)
               \/ /\ SessionOf[u] = SessionOf[t]
                  /\ \E k \in 1 .. Len(es) : es[k] = ToolEvent(u, d, type)
<1>1. SessionOf[u] \in Sessions
  BY EngineAssumption
<1>2. CASE SessionOf[u] # SessionOf[t]
  <2>1. TaskLog(u)' = TaskLog(u)
    BY <1>1, <1>2, Appended DEF TaskLog
  <2>2. QED  BY <1>2, <2>1 DEF Logged
<1>3. CASE SessionOf[u] = SessionOf[t]
  <2>1. TaskLog(u) = TaskLog(t)
    BY <1>3 DEF TaskLog
  <2>2. ASSUME Logged(u, d, type)
        PROVE  Logged(u, d, type)'
    <3>1. PICK i \in 1 .. Len(TaskLog(t)) : TaskLog(t)[i] = ToolEvent(u, d, type)
      BY <2>1, <2>2 DEF Logged
    <3>2. i \in 1 .. Len(TaskLog(t)') /\ TaskLog(t)'[i] = ToolEvent(u, d, type)
      BY <3>1, Appended
    <3>3. QED  BY <1>3, <3>2 DEF Logged, TaskLog, ToolEvent
  <2>3. ASSUME NEW k \in 1 .. Len(es), es[k] = ToolEvent(u, d, type)
        PROVE  Logged(u, d, type)'
    <3>1. Len(TaskLog(t)) + k \in 1 .. Len(TaskLog(t)')
      BY Appended
    <3>2. TaskLog(t)'[Len(TaskLog(t)) + k] = ToolEvent(u, d, type)
      BY <2>3, Appended
    <3>3. QED  BY <1>3, <3>1, <3>2 DEF Logged, TaskLog, ToolEvent
  <2>4. ASSUME Logged(u, d, type)', ~Logged(u, d, type)
        PROVE  \E k \in 1 .. Len(es) : es[k] = ToolEvent(u, d, type)
    <3>1. PICK i \in 1 .. Len(TaskLog(t)') : TaskLog(t)'[i] = ToolEvent(u, d, type)
      BY <1>3, <2>4 DEF Logged, TaskLog, ToolEvent
    <3>2. i \notin 1 .. Len(TaskLog(t))
      BY <2>1, <2>4, <3>1, Appended DEF Logged
    <3>3. PICK k \in 1 .. Len(es) : i = Len(TaskLog(t)) + k
      BY <3>2, Appended
    <3>4. QED  BY <3>1, <3>3, Appended
  <2>5. QED  BY <1>3, <2>2, <2>3, <2>4
<1>4. QED  BY <1>2, <1>3

\* The events es are all about call c of task t.
About(t, c, es) ==
    /\ es \in Seq(Event)
    /\ \A k \in 1 .. Len(es) : /\ es[k].task = t /\ es[k].call = c
                               /\ es[k].type \in ToolEvents

Types(es) == {es[k].type : k \in 1 .. Len(es)}

\* What has been said of a call after events about one call.
LEMMA SaidAfter ==
    ASSUME StreamTypeOK, NEW t \in Tasks, NEW c, NEW es, About(t, c, es),
           Emit(t, es), NEW u \in Tasks, NEW d
    PROVE  Said(u, d)' = IF u = t /\ d = c THEN Said(u, d) \cup Types(es)
                         ELSE Said(u, d)
<1>1. es \in Seq(Event)
  BY DEF About
<1>2. ASSUME NEW type \in ToolEvents
      PROVE  Logged(u, d, type)' <=>
                 Logged(u, d, type) \/ (u = t /\ d = c /\ type \in Types(es))
  <2>1. ASSUME NEW k \in 1 .. Len(es)
        PROVE  es[k] = ToolEvent(u, d, type) <=> u = t /\ d = c /\ es[k].type = type
    <3>1. es[k] \in Event /\ es[k].task = t /\ es[k].call = c
      BY <1>1 DEF About
    <3>2. es[k] = [type |-> es[k].type, task |-> t, call |-> c]
      BY <3>1 DEF Event
    <3>3. QED  BY <3>1, <3>2 DEF ToolEvent
  <2>2. QED  BY <1>1, <2>1, LoggedAfter DEF Types
<1>3. Types(es) \subseteq ToolEvents
  BY DEF About, Types
<1>4. \A type : type \in Said(u, d)' <=> type \in ToolEvents /\ Logged(u, d, type)'
  BY DEF Said
<1>5. QED  BY <1>2, <1>3, <1>4 DEF Said

\* An event that is no tool's changes nothing of what was said of calls.
LEMMA SaidAfterTaskEvent ==
    ASSUME StreamTypeOK, NEW t \in Tasks, NEW type \in Terminal \cup {"output"},
           Emit(t, <<TaskEvent(t, type)>>), NEW u \in Tasks, NEW d
    PROVE  Said(u, d)' = Said(u, d)
<1> DEFINE es == <<TaskEvent(t, type)>>
<1>1. /\ es \in Seq(Event) /\ Len(es) = 1 /\ es[1] = TaskEvent(t, type)
      /\ Emit(t, es)
  BY DEF TaskEvent, Event, EventTypes
<1> HIDE DEF es
<1>2. ASSUME NEW ty \in ToolEvents
      PROVE  Logged(u, d, ty)' <=> Logged(u, d, ty)
  <2>1. TaskEvent(t, type) # ToolEvent(u, d, ty)
    <3>1. TaskEvent(t, type).type = type /\ ToolEvent(u, d, ty).type = ty
      BY DEF TaskEvent, ToolEvent
    <3>2. type # ty
      BY DEF Terminal, ToolEvents
    <3>3. QED  BY <3>1, <3>2
  <2>2. \A k \in 1 .. Len(es) : es[k] = TaskEvent(t, type)
    BY <1>1
  <2>3. QED  BY <1>1, <2>1, <2>2, LoggedAfter
<1>3. \A ty : ty \in Said(u, d)' <=> ty \in ToolEvents /\ Logged(u, d, ty)'
  BY DEF Said
<1>4. QED  BY <1>2, <1>3 DEF Said

\* An event of the log is among what was said of its call.
LEMMA SaidOf ==
    ASSUME StreamTypeOK, NEW t \in Tasks, NEW i \in 1 .. Len(TaskLog(t)),
           TaskLog(t)[i].task = t, TaskLog(t)[i].type \in ToolEvents
    PROVE  TaskLog(t)[i].type \in Said(t, TaskLog(t)[i].call)
<1> DEFINE e == TaskLog(t)[i]
<1>1. TaskLog(t) \in Seq(Event)
  BY EngineAssumption DEF StreamTypeOK, TaskLog
<1>2. e \in Event
  BY <1>1
<1>3. e = [type |-> e.type, task |-> t, call |-> e.call]
  BY <1>2 DEF Event
<1>4. QED  BY <1>3 DEF Said, Logged, ToolEvent

-----------------------------------------------------------------------------
(* The order of the events of a call.                                      *)

\* The rank of each type.
LEMMA Ranks ==
    /\ Rank("requested") = 1 /\ Rank("policy_allow") = 2 /\ Rank("policy_ask") = 2
    /\ Rank("policy_deny") = 2 /\ Rank("user_allow") = 3 /\ Rank("user_deny") = 3
    /\ Rank("approved") = 4 /\ Rank("denied") = 4 /\ Rank("started") = 5
    /\ Rank("output.delta") = 6 /\ Rank("completed") = 7
    /\ \A type \in Terminal \cup {"output"} : Rank(type) = 0
BY DEF Rank, Terminal

\* Two events of one call may follow each other.
InOrder(d, e) == Rank(d) < Rank(e) \/ (d = "output.delta" /\ e = "output.delta")

Rising(es) ==
    \A k, l \in 1 .. Len(es) : k < l => InOrder(es[k].type, es[l].type)

\* Events of a call that come after all that was said of it, in order
\* themselves, keep the order.
LEMMA OrderKept ==
    ASSUME StreamTypeOK, CallLifecycle, NEW t \in Tasks, NEW c \in Calls, NEW es,
           About(t, c, es), Rising(es), Emit(t, es),
           \A d \in Said(t, c), e \in Types(es) : InOrder(d, e)
    PROVE  CallLifecycle'
<1> SUFFICES ASSUME NEW s \in Sessions,
                    NEW i \in 1 .. Len(log'[s]), NEW j \in 1 .. Len(log'[s]), i < j,
                    log'[s][i].task = log'[s][j].task,
                    log'[s][i].call = log'[s][j].call, log'[s][i].call # NoCall
             PROVE  InOrder(log'[s][i].type, log'[s][j].type)
  BY DEF CallLifecycle, InOrder
<1>0. es \in Seq(Event)
  BY DEF About
<1>1. CASE s # SessionOf[t]
  <2>1. log'[s] = log[s]
    BY <1>0, <1>1, Appended
  <2>2. QED  BY <2>1 DEF CallLifecycle, InOrder
<1>2. CASE s = SessionOf[t]
  <2> DEFINE n == Len(TaskLog(t))
  <2>1. TaskLog(t)' = log'[s] /\ TaskLog(t) = log[s]
    BY <1>2 DEF TaskLog
  <2>2. n \in Nat
    BY <1>0, Appended
  <2>3. CASE j \in 1 .. n
    <3>1. i \in 1 .. n
      BY <2>2, <2>3
    <3>2. log'[s][i] = log[s][i] /\ log'[s][j] = log[s][j]
      BY <1>0, <2>1, <2>3, <3>1, Appended
    <3>3. QED  BY <2>1, <2>3, <3>1, <3>2 DEF CallLifecycle, InOrder
  <2>4. CASE j \notin 1 .. n
    <3>1. PICK l \in 1 .. Len(es) : j = n + l
      BY <1>0, <2>1, <2>4, Appended
    <3>2. log'[s][j] = es[l]
      BY <1>0, <2>1, <3>1, Appended
    <3>3. log'[s][i].task = t /\ log'[s][i].call = c
      BY <3>2 DEF About
    <3>4. CASE i \in 1 .. n
      <4>1. log'[s][i] = TaskLog(t)[i]
        BY <1>0, <2>1, <3>4, Appended
      <4>2. CASE log'[s][i].type \in ToolEvents
        <5>1. log'[s][i].type \in Said(t, c)
          BY <3>3, <3>4, <4>1, <4>2, SaidOf
        <5>2. QED  BY <3>2, <5>1 DEF Types
      <4>3. CASE log'[s][i].type \notin ToolEvents
        <5>1. TaskLog(t)[i] \in Event
          BY <3>4, EngineAssumption DEF StreamTypeOK, TaskLog
        <5>2. Rank(log'[s][i].type) = 0
          BY <4>1, <4>3, <5>1, Ranks DEF Event, EventTypes
        <5>3. es[l].type \in ToolEvents
          BY DEF About
        <5>4. Rank(es[l].type) \in 1 .. 7
          BY <5>3, Ranks DEF ToolEvents
        <5>5. QED  BY <3>2, <5>2, <5>4 DEF InOrder
      <4>4. QED  BY <4>2, <4>3
    <3>5. CASE i \notin 1 .. n
      <4>1. \A m \in 1 .. Len(TaskLog(t)') :
               m \in 1 .. n \/ \E k \in 1 .. Len(es) : m = n + k
        BY <1>0, Appended
      <4>2. i \in 1 .. Len(TaskLog(t)')
        BY <2>1
      <4> HIDE DEF n
      <4>3. PICK k \in 1 .. Len(es) : i = n + k
        BY ONLY <3>5, <4>1, <4>2
      <4> USE DEF n
      <4>4. log'[s][i] = es[k]
        BY <1>0, <2>1, <4>3, Appended
      <4>5. k < l
        BY <2>2, <3>1, <4>3
      <4>6. QED  BY <3>2, <4>4, <4>5 DEF Rising
    <3>6. QED  BY <3>4, <3>5
  <2>5. QED  BY <2>3, <2>4
<1>3. QED  BY <1>1, <1>2

-----------------------------------------------------------------------------
(* The decision behind an execution.                                       *)

\* Who allowed the execution announced at position i of the log of s.
Allowed(s, i) ==
    LET e == log[s][i]
    IN  \/ Before(s, i, e.task, e.call, {"policy_allow"})
        \/ /\ Before(s, i, e.task, e.call, {"policy_ask"})
           /\ Before(s, i, e.task, e.call, {"user_allow"})
           /\ <<s, e.call>> \in granted

\* The same of the k-th of the events es about call c.
AllowedIn(t, c, es, k) ==
    \/ \E l \in 1 .. (k - 1) : es[l].type = "policy_allow"
    \/ /\ "policy_ask" \in Said(t, c)
       /\ \E l \in 1 .. (k - 1) : es[l].type = "user_allow"
       /\ <<SessionOf[t], c>> \in granted

\* A log that nothing is appended to keeps its trail.
LEMMA TrailStays ==
    ASSUME AuditTrail, NEW s \in Sessions, log'[s] = log[s], granted' = granted,
           NEW i \in 1 .. Len(log'[s]), log'[s][i].type = "started"
    PROVE  /\ Allowed(s, i)'
           /\ ~Before(s, Len(log[s]) + 1, log[s][i].task, log[s][i].call, Denials)'
<1>1. i \in 1 .. Len(log[s]) /\ log[s][i].type = "started"
  OBVIOUS
<1>2. /\ Allowed(s, i)
      /\ ~Before(s, Len(log[s]) + 1, log[s][i].task, log[s][i].call, Denials)
  BY <1>1 DEF AuditTrail, Allowed, Denials
<1>3. log'[s] = log[s] /\ granted' = granted
  OBVIOUS
<1>4. QED  BY ONLY <1>2, <1>3 DEF Allowed, Before

\* While nothing is logged, decisions may only be added.
LEMMA SameTrail ==
    ASSUME AuditTrail, UNCHANGED log, \A g \in granted : g \in granted'
    PROVE  AuditTrail'
BY DEF AuditTrail, Before

\* Events of a call that bring no denial after a start, no start after a
\* denial, and no start that nobody allowed, keep the trail.
LEMMA AuditKept ==
    ASSUME StreamTypeOK, AuditTrail, NEW t \in Tasks, NEW c \in Calls, NEW es,
           About(t, c, es), Emit(t, es), granted' = granted,
           "started" \in Said(t, c) => Types(es) \cap Denials = {},
           "started" \in Types(es) => (Said(t, c) \cup Types(es)) \cap Denials = {},
           \A k \in 1 .. Len(es) : es[k].type = "started" => AllowedIn(t, c, es, k)
    PROVE  AuditTrail'
<1> SUFFICES ASSUME NEW s \in Sessions, NEW i \in 1 .. Len(log'[s]),
                    log'[s][i].type = "started"
             PROVE  /\ Allowed(s, i)'
                    /\ ~Before(s, Len(log[s]) + 1, log[s][i].task, log[s][i].call,
                               Denials)'
  BY DEF AuditTrail, Allowed, Before, Denials
<1>0. es \in Seq(Event) /\ SessionOf[t] \in Sessions
  BY EngineAssumption DEF About
<1>1. CASE s # SessionOf[t]
  <2>1. log'[s] = log[s]
    BY <1>0, <1>1, Appended
  <2>2. QED  BY <2>1, TrailStays
<1>2. CASE s = SessionOf[t]
  <2> DEFINE n == Len(log[s])
             e == log'[s][i]
  <2>1. TaskLog(t)' = log'[s] /\ TaskLog(t) = log[s]
    BY <1>2 DEF TaskLog
  <2>2. /\ n \in Nat /\ Len(log'[s]) = n + Len(es) /\ Len(es) \in Nat
        /\ \A j \in 1 .. n : j \in 1 .. Len(log'[s]) /\ log'[s][j] = log[s][j]
        /\ \A k \in 1 .. Len(es) : log'[s][n + k] = es[k]
        /\ \A j \in 1 .. Len(log'[s]) :
              j \in 1 .. n \/ \E k \in 1 .. Len(es) : j = n + k
    BY <1>0, <1>2, AppendedAt
  <2> HIDE DEF n
  <2>3. CASE i \in 1 .. n
    <3>1. e = log[s][i] /\ i \in 1 .. Len(log[s])
      BY <2>1, <2>2, <2>3 DEF n
    <3>2. Allowed(s, i)
      BY <3>1 DEF AuditTrail, Allowed
    <3>3. Allowed(s, i)'
      <4>1. \A j \in 1 .. (i - 1) : log'[s][j] = log[s][j]
        BY <2>2, <2>3
      <4>2. QED  BY <3>1, <3>2, <4>1 DEF Allowed, Before
    <3>4. ASSUME NEW j \in 1 .. Len(log'[s]), log'[s][j].task = e.task,
                 log'[s][j].call = e.call, log'[s][j].type \in Denials
          PROVE  FALSE
      <4>1. CASE j \in 1 .. n
        <5>1. log'[s][j] = log[s][j] /\ j \in 1 .. Len(log[s])
          BY <2>1, <2>2, <4>1 DEF n
        <5>2. ~Before(s, Len(log[s]) + 1, e.task, e.call, Denials)
          BY <3>1 DEF AuditTrail, Denials
        <5>3. QED  BY <3>4, <5>1, <5>2 DEF Before
      <4>2. CASE j \notin 1 .. n
        <5>1. PICK k \in 1 .. Len(es) : j = n + k
          BY <2>2, <4>2
        <5>2. log'[s][j] = es[k]
          BY <2>2, <5>1
        <5>3. e.task = t /\ e.call = c
          BY <3>4, <5>2 DEF About
        <5>4. "started" \in Said(t, c)
          BY <2>1, <3>1, <5>3, SaidOf DEF ToolEvents
        <5>5. es[k].type \in Types(es)
          BY DEF Types
        <5>6. QED  BY <3>4, <5>2, <5>4, <5>5
      <4>3. QED  BY <4>1, <4>2
    <3>5. QED  BY <3>3, <3>4 DEF Before
  <2>4. CASE i \notin 1 .. n
    <3>1. PICK k \in 1 .. Len(es) : i = n + k
      BY <2>2, <2>4
    <3>2. e = es[k] /\ e.task = t /\ e.call = c /\ es[k].type = "started"
      BY <2>2, <3>1 DEF About
    <3>3. AllowedIn(t, c, es, k) /\ "started" \in Types(es)
      BY <3>2 DEF Types
    <3>4. ASSUME NEW l \in 1 .. (k - 1)
          PROVE  /\ n + l \in 1 .. (i - 1) /\ log'[s][n + l] = es[l]
                 /\ es[l].task = t /\ es[l].call = c
      BY <2>2, <3>1 DEF About
    <3>5. ASSUME "policy_ask" \in Said(t, c)
          PROVE  Before(s, i, t, c, {"policy_ask"})'
      <4>1. PICK j \in 1 .. n : log[s][j] = ToolEvent(t, c, "policy_ask")
        BY <2>1, <3>5 DEF Said, Logged, n
      <4>2. j \in 1 .. (i - 1) /\ log'[s][j] = ToolEvent(t, c, "policy_ask")
        BY <2>2, <3>1, <4>1
      <4>3. QED  BY <4>2 DEF Before, ToolEvent
    <3>6. Allowed(s, i)'
      <4>1. CASE \E l \in 1 .. (k - 1) : es[l].type = "policy_allow"
        <5>1. Before(s, i, t, c, {"policy_allow"})'
          BY <3>4, <4>1 DEF Before
        <5>2. QED  BY <3>2, <5>1 DEF Allowed, Before
      <4>2. CASE /\ "policy_ask" \in Said(t, c)
                 /\ \E l \in 1 .. (k - 1) : es[l].type = "user_allow"
                 /\ <<SessionOf[t], c>> \in granted
        <5>1. Before(s, i, t, c, {"user_allow"})'
          BY <3>4, <4>2 DEF Before
        <5>2. QED  BY <1>2, <3>2, <3>5, <4>2, <5>1 DEF Allowed, Before
      <4>3. QED  BY <3>3, <4>1, <4>2 DEF AllowedIn
    <3>7. ASSUME NEW j \in 1 .. Len(log'[s]), log'[s][j].task = t,
                 log'[s][j].call = c, log'[s][j].type \in Denials
          PROVE  FALSE
      <4>1. CASE j \in 1 .. n
        <5>1. log'[s][j] = TaskLog(t)[j] /\ j \in 1 .. Len(TaskLog(t))
          BY <2>1, <2>2, <4>1 DEF n
        <5>2. log'[s][j].type \in Said(t, c)
          BY <3>7, <5>1, SaidOf DEF ToolEvents, Denials
        <5>3. QED  BY <3>3, <3>7, <5>2
      <4>2. CASE j \notin 1 .. n
        <5>1. PICK l \in 1 .. Len(es) : j = n + l
          BY <2>2, <4>2
        <5>2. log'[s][j].type \in Types(es)
          BY <2>2, <5>1 DEF Types
        <5>3. QED  BY <3>3, <3>7, <5>2
      <4>3. QED  BY <4>1, <4>2
    <3>8. QED  BY <3>2, <3>6, <3>7 DEF Before
  <2>5. QED  BY <2>3, <2>4
<1>3. QED  BY <1>1, <1>2

-----------------------------------------------------------------------------
(* Frames.                                                                 *)

\* The event of a task, and not of a call, keeps order and trail.
LEMMA TaskEventKeeps ==
    ASSUME StreamTypeOK, CallLifecycle, AuditTrail, NEW t \in Tasks,
           NEW type \in Terminal \cup {"output"}, Emit(t, <<TaskEvent(t, type)>>),
           granted' = granted
    PROVE  CallLifecycle' /\ AuditTrail'
<1> DEFINE es == <<TaskEvent(t, type)>>
           S == SessionOf[t]
           n == Len(log[S])
<1>1. /\ es \in Seq(Event) /\ Len(es) = 1 /\ es[1] = TaskEvent(t, type)
      /\ Emit(t, es)
  BY DEF TaskEvent, Event, EventTypes
<1> HIDE DEF es
<1>2. /\ n \in Nat /\ Len(log'[S]) = n + 1
      /\ \A j \in 1 .. n : log'[S][j] = log[S][j]
      /\ log'[S][n + 1] = TaskEvent(t, type)
      /\ \A s \in Sessions : s # S => log'[s] = log[s]
  <2>1. 1 \in 1 .. Len(es)
    BY <1>1
  <2>2. n \in Nat /\ Len(log'[S]) = n + 1 /\ \A j \in 1 .. n : log'[S][j] = log[S][j]
    BY <1>1, AppendedAt
  <2>3. log'[S][n + 1] = TaskEvent(t, type)
    BY <1>1, <2>1, AppendedAt
  <2>4. QED  BY <1>1, <2>2, <2>3, Appended
<1>3. /\ TaskEvent(t, type).call = NoCall /\ TaskEvent(t, type).type = type
      /\ type # "started" /\ type \notin Denials
  BY DEF TaskEvent, Terminal, Denials
<1> HIDE DEF n, S
<1>4. CallLifecycle'
  <2> SUFFICES ASSUME NEW s \in Sessions, NEW i \in 1 .. Len(log'[s]),
                      NEW j \in 1 .. Len(log'[s]), i < j,
                      log'[s][i].task = log'[s][j].task,
                      log'[s][i].call = log'[s][j].call, log'[s][i].call # NoCall
               PROVE  InOrder(log'[s][i].type, log'[s][j].type)
    BY DEF CallLifecycle, InOrder
  <2>1. CASE s # S
    <3>1. log'[s] = log[s]
      BY <1>2, <2>1
    <3>2. QED  BY <3>1 DEF CallLifecycle, InOrder
  <2>2. CASE s = S
    <3>1. j # n + 1
      BY <1>2, <1>3, <2>2
    <3>2. i \in 1 .. n /\ j \in 1 .. n
      BY <1>2, <2>2, <3>1
    <3>3. log'[s][i] = log[s][i] /\ log'[s][j] = log[s][j]
      BY <1>2, <2>2, <3>2
    <3>4. i \in 1 .. Len(log[s]) /\ j \in 1 .. Len(log[s])
      BY <2>2, <3>2 DEF n
    <3>5. QED  BY <3>3, <3>4 DEF CallLifecycle, InOrder
  <2>3. QED  BY <2>1, <2>2
<1>5. AuditTrail'
  <2> SUFFICES ASSUME NEW s \in Sessions, NEW i \in 1 .. Len(log'[s]),
                      log'[s][i].type = "started"
               PROVE  /\ Allowed(s, i)'
                      /\ ~Before(s, Len(log[s]) + 1, log[s][i].task, log[s][i].call,
                                 Denials)'
    BY DEF AuditTrail, Allowed, Before, Denials
  <2>1. CASE s # S
    <3>1. log'[s] = log[s]
      BY <1>2, <2>1
    <3>2. QED  BY <3>1, TrailStays
  <2>2. CASE s = S
    <3>1. i \in 1 .. n
      BY <1>2, <1>3, <2>2
    <3>2. log'[s][i] = log[s][i] /\ i \in 1 .. Len(log[s])
      BY <1>2, <2>2, <3>1 DEF n
    <3>3. /\ Allowed(s, i)
          /\ ~Before(s, Len(log[s]) + 1, log[s][i].task, log[s][i].call, Denials)
      BY <3>2 DEF AuditTrail, Allowed, Denials
    <3>4. Allowed(s, i)'
      <4>1. \A j \in 1 .. (i - 1) : log'[s][j] = log[s][j]
        BY <1>2, <2>2, <3>1
      <4>2. QED  BY <3>2, <3>3, <4>1 DEF Allowed, Before
    <3>5. ASSUME NEW j \in 1 .. Len(log'[s]), log'[s][j].task = log[s][i].task,
                 log'[s][j].call = log[s][i].call, log'[s][j].type \in Denials
          PROVE  FALSE
      <4>1. j \in 1 .. n
        BY <1>2, <1>3, <2>2, <3>5
      <4>2. log'[s][j] = log[s][j] /\ j \in 1 .. Len(log[s])
        BY <1>2, <2>2, <4>1 DEF n
      <4>3. QED  BY <3>3, <3>5, <4>2 DEF Before
    <3>6. QED  BY <3>2, <3>4, <3>5 DEF Before
  <2>3. QED  BY <2>1, <2>2
<1>6. QED  BY <1>4, <1>5

\* The handlers of the tasks that a step leaves alone.
LEMMA OtherHandlers ==
    ASSUME HandlersOK, NEW t, \A s \in granted : s \in granted',
           \A u \in Tasks \ {t} : /\ worker'[u] = worker[u]
                                  /\ toolQueue'[u] = toolQueue[u]
                                  /\ \A d : Said(u, d)' = Said(u, d)
    PROVE  \A u \in Tasks \ {t} : QueueOK(u)' /\ HandledOK(u)'
<1> TAKE u \in Tasks \ {t}
<1>1. QueueOK(u) /\ HandledOK(u)
  BY DEF HandlersOK
<1>2. /\ Said(u, worker[u].call)' = Said(u, worker[u].call)
      /\ \A k : Said(u, toolQueue[u][k])' = Said(u, toolQueue[u][k])
  <2>1. \A d : Said(u, d)' = Said(u, d)
    OBVIOUS
  <2>2. QED  BY <2>1 DEF Said, Logged, TaskLog, ToolEvent
<1>3. QED  BY <1>1, <1>2 DEF QueueOK, HandledOK

\* Steps that log nothing and leave the handlers alone.
LEMMA QuietStep ==
    ASSUME CallInv, UNCHANGED <<log, toolQueue, worker>>, \A g \in granted : g \in granted'
    PROVE  CallInv'
<1>1. \A u \in Tasks : \A d : Said(u, d)' = Said(u, d)
  BY DEF Said, Logged, TaskLog
<1>2. RequestedFirst'
  BY <1>1 DEF CallInv, RequestedFirst
<1>3. HandlersOK'
  BY OtherHandlers, <1>1, EngineAssumption, Tasks \ {NoTask} = Tasks
     DEF CallInv, HandlersOK
<1>4. CallLifecycle'
  BY DEF CallInv, CallLifecycle
<1>5. AuditTrail'
  BY SameTrail DEF CallInv
<1>6. QED  BY <1>2, <1>3, <1>4, <1>5 DEF CallInv

\* Steps that log an event of the task and leave the handlers alone.
LEMMA TaskEventStep ==
    ASSUME TypeOK, CallInv, NEW t \in Tasks, NEW type \in Terminal \cup {"output"},
           Emit(t, <<TaskEvent(t, type)>>), UNCHANGED <<toolQueue, worker, granted>>
    PROVE  CallInv'
<1>1. \A u \in Tasks : \A d : Said(u, d)' = Said(u, d)
  BY SaidAfterTaskEvent DEF TypeOK
<1>2. RequestedFirst'
  BY <1>1 DEF CallInv, RequestedFirst
<1>3. HandlersOK'
  BY OtherHandlers, <1>1, EngineAssumption, Tasks \ {NoTask} = Tasks
     DEF CallInv, HandlersOK
<1>4. CallLifecycle' /\ AuditTrail'
  BY TaskEventKeeps DEF CallInv, TypeOK
<1>5. QED  BY <1>2, <1>3, <1>4 DEF CallInv

\* Steps that log nothing and move one handler.
LEMMA HandlerStep ==
    ASSUME CallInv, NEW t \in Tasks, UNCHANGED <<log, toolQueue>>,
           \A g \in granted : g \in granted',
           \A u \in Tasks \ {t} : worker'[u] = worker[u],
           QueueOK(t)', HandledOK(t)'
    PROVE  CallInv'
<1>1. \A u \in Tasks : \A d : Said(u, d)' = Said(u, d)
  BY DEF Said, Logged, TaskLog
<1>2. RequestedFirst'
  BY <1>1 DEF CallInv, RequestedFirst
<1>3. HandlersOK'
  <2>1. \A u \in Tasks \ {t} : QueueOK(u)' /\ HandledOK(u)'
    BY OtherHandlers, <1>1 DEF CallInv
  <2>2. QED  BY <2>1 DEF HandlersOK
<1>4. CallLifecycle'
  BY DEF CallInv, CallLifecycle
<1>5. AuditTrail'
  BY SameTrail DEF CallInv
<1>6. QED  BY <1>2, <1>3, <1>4, <1>5 DEF CallInv

\* Steps that log events of one call, of the handler that moves.
LEMMA CallEventsStep ==
    ASSUME TypeOK, CallInv, NEW t \in Tasks, NEW c \in Calls, NEW es,
           About(t, c, es), Rising(es), Emit(t, es), granted' = granted,
           "requested" \in Said(t, c) \cup Types(es),
           \A d \in Said(t, c), e \in Types(es) : InOrder(d, e),
           "started" \in Said(t, c) => Types(es) \cap Denials = {},
           "started" \in Types(es) => (Said(t, c) \cup Types(es)) \cap Denials = {},
           \A k \in 1 .. Len(es) : es[k].type = "started" => AllowedIn(t, c, es, k),
           \A u \in Tasks \ {t} : worker'[u] = worker[u] /\ toolQueue'[u] = toolQueue[u],
           QueueOK(t)', HandledOK(t)'
    PROVE  CallInv'
<1>1. \A u \in Tasks : \A d :
          Said(u, d)' = IF u = t /\ d = c THEN Said(u, d) \cup Types(es) ELSE Said(u, d)
  BY SaidAfter DEF TypeOK
<1>2. RequestedFirst'
  BY <1>1 DEF CallInv, RequestedFirst
<1>3. HandlersOK'
  <2>1. \A u \in Tasks \ {t} : \A d : Said(u, d)' = Said(u, d)
    BY <1>1
  <2>2. \A u \in Tasks \ {t} : QueueOK(u)' /\ HandledOK(u)'
    BY OtherHandlers, <2>1 DEF CallInv
  <2>3. QED  BY <2>2 DEF HandlersOK
<1>4. CallLifecycle'
  BY OrderKept DEF CallInv, TypeOK
<1>5. AuditTrail'
  BY AuditKept DEF CallInv, TypeOK
<1>6. QED  BY <1>2, <1>3, <1>4, <1>5 DEF CallInv

\* One event, and two, and Execute's three, as events about a call.
LEMMA OneEvent ==
    ASSUME NEW t \in Tasks, NEW c \in Calls, NEW a \in ToolEvents
    PROVE  LET es == <<ToolEvent(t, c, a)>>
           IN  About(t, c, es) /\ Rising(es) /\ Types(es) = {a}
<1> DEFINE es == <<ToolEvent(t, c, a)>>
<1>1. ToolEvent(t, c, a) \in Event /\ ToolEvent(t, c, a).type = a
      /\ ToolEvent(t, c, a).task = t /\ ToolEvent(t, c, a).call = c
  BY DEF ToolEvent, Event, EventTypes
<1>2. es \in Seq(Event) /\ Len(es) = 1 /\ es[1] = ToolEvent(t, c, a)
  BY <1>1
<1> HIDE DEF es
<1>3. 1 .. Len(es) = {1}
  BY <1>2
<1>4. About(t, c, es) /\ Types(es) = {a}
  BY <1>1, <1>2, <1>3 DEF About, Types
<1>5. Rising(es)
  BY <1>3 DEF Rising
<1>6. QED  BY <1>4, <1>5 DEF es

\* Two events of a call in their order are a rising piece of its log.
LEMMA TwoEvents ==
    ASSUME NEW t \in Tasks, NEW c \in Calls, NEW a \in ToolEvents, NEW b \in ToolEvents,
           InOrder(a, b)
    PROVE  LET es == <<ToolEvent(t, c, a), ToolEvent(t, c, b)>>
           IN  About(t, c, es) /\ Rising(es) /\ Types(es) = {a, b}
<1> DEFINE es == <<ToolEvent(t, c, a), ToolEvent(t, c, b)>>
<1>1. \A x \in {a, b} : /\ ToolEvent(t, c, x) \in Event /\ ToolEvent(t, c, x).type = x
                        /\ ToolEvent(t, c, x).task = t /\ ToolEvent(t, c, x).call = c
  BY DEF ToolEvent, Event, EventTypes
<1>2. /\ es \in Seq(Event) /\ Len(es) = 2
      /\ es[1] = ToolEvent(t, c, a) /\ es[2] = ToolEvent(t, c, b)
  BY <1>1
<1> HIDE DEF es
<1>3. 1 .. Len(es) = {1, 2}
  BY <1>2
<1>4. About(t, c, es) /\ Types(es) = {a, b}
  BY <1>1, <1>2, <1>3 DEF About, Types
<1>5. Rising(es)
  BY <1>1, <1>2, <1>3 DEF Rising
<1>6. QED  BY <1>4, <1>5 DEF es

\* An allowed call is logged as allowed, approved and started, in that order.
LEMMA ThreeEvents ==
    ASSUME NEW t \in Tasks, NEW c \in Calls, NEW a \in {"policy_allow", "user_allow"}
    PROVE  LET es == <<ToolEvent(t, c, a)>> \o <<ToolEvent(t, c, "approved"),
                                                 ToolEvent(t, c, "started")>>
           IN  /\ About(t, c, es) /\ Rising(es) /\ Types(es) = {a, "approved", "started"}
               /\ \A k \in 1 .. Len(es) : es[k].type = "started" =>
                      \E l \in 1 .. (k - 1) : es[l].type = a
<1> DEFINE es == <<ToolEvent(t, c, a)>> \o <<ToolEvent(t, c, "approved"),
                                             ToolEvent(t, c, "started")>>
<1>1. \A x \in {a, "approved", "started"} :
          /\ ToolEvent(t, c, x) \in Event /\ ToolEvent(t, c, x).type = x
          /\ ToolEvent(t, c, x).task = t /\ ToolEvent(t, c, x).call = c
          /\ x \in ToolEvents
  BY DEF ToolEvent, Event, EventTypes, ToolEvents
<1>2. /\ es \in Seq(Event) /\ Len(es) = 3
      /\ es[1] = ToolEvent(t, c, a) /\ es[2] = ToolEvent(t, c, "approved")
      /\ es[3] = ToolEvent(t, c, "started")
  BY <1>1
<1> HIDE DEF es
<1>3. 1 .. Len(es) = {1, 2, 3}
  BY <1>2
<1>4. About(t, c, es) /\ Types(es) = {a, "approved", "started"}
  BY <1>1, <1>2, <1>3 DEF About, Types
<1>5. InOrder(a, "approved") /\ InOrder(a, "started") /\ InOrder("approved", "started")
  BY Ranks DEF InOrder
<1>6. Rising(es)
  BY <1>1, <1>2, <1>3, <1>5 DEF Rising
<1>7. \A k \in 1 .. Len(es) : es[k].type = "started" =>
          \E l \in 1 .. (k - 1) : es[l].type = a
  <2>1. 1 \in 1 .. (3 - 1) /\ es[1].type = a
    BY <1>1, <1>2
  <2>2. \A k \in {1, 2, 3} : es[k].type = "started" => k = 3
    BY <1>1, <1>2
  <2>3. QED  BY <1>3, <2>1, <2>2
<1>8. QED  BY <1>4, <1>6, <1>7 DEF es

-----------------------------------------------------------------------------
(* The steps.                                                              *)

\* The stream requests a tool: nothing was said of that call before.
LEMMA RequestStep ==
    ASSUME TypeOK, CallInv, NEW t \in Tasks, NEW c \in Calls, StreamToolRequest(t, c)
    PROVE  CallInv'
<1> DEFINE es == <<ToolEvent(t, c, "requested")>>
<1>1. About(t, c, es) /\ Rising(es) /\ Types(es) = {"requested"} /\ Emit(t, es)
  BY OneEvent DEF StreamToolRequest, ToolEvents
<1> HIDE DEF es
<1>2. Said(t, c) = {}
  BY DEF CallInv, RequestedFirst, StreamToolRequest, Said
<1>3. \A d : Said(t, d)' = IF d = c THEN {"requested"} ELSE Said(t, d)
  BY <1>1, <1>2, SaidAfter DEF TypeOK
<1>4. UNCHANGED <<worker, granted>> /\ toolQueue \in [Tasks -> Seq(Calls)]
  BY DEF StreamToolRequest, TypeOK, ToolTypeOK
<1>5. QueueOK(t) /\ HandledOK(t)
  BY DEF CallInv, HandlersOK
<1>6. worker[t].pc # "idle" => worker[t].call # c
  BY <1>2, <1>5 DEF HandledOK
<1>7. HandledOK(t)'
  <2>1. worker[t].pc # "idle" => Said(t, worker[t].call)' = Said(t, worker[t].call)
    BY <1>3, <1>4, <1>6
  <2>2. QED  BY <1>4, <1>5, <2>1 DEF HandledOK
<1>8. \A k \in 1 .. Len(toolQueue[t]) : toolQueue[t][k] # c
  BY <1>2, <1>5 DEF QueueOK
<1>9. QueueOK(t)'
  <2>1. CASE toolQueue' = toolQueue
    BY <1>3, <1>4, <1>5, <1>8, <2>1 DEF QueueOK
  <2>2. CASE toolQueue' = [toolQueue EXCEPT ![t] = Append(@, c)]
    <3>1. PICK q \in Seq(Calls) : q = toolQueue[t]
      BY <1>4
    <3>2. PICK r \in Seq(Calls) : r = toolQueue'[t] /\ r = Append(q, c)
      <4>1. toolQueue'[t] = Append(q, c)
        BY <1>4, <2>2, <3>1
      <4>2. Append(q, c) \in Seq(Calls)
        OBVIOUS
      <4>3. QED  BY <4>1, <4>2
    <3>3. /\ Len(q) \in Nat /\ Len(r) = Len(q) + 1
          /\ \A k \in 1 .. Len(q) : r[k] = q[k]
          /\ r[Len(q) + 1] = c
      BY <3>2
    <3>4. \A k \in 1 .. Len(r) : k \in 1 .. Len(q) \/ k = Len(q) + 1
      BY <3>3
    <3>5. /\ \A k \in 1 .. Len(q) : /\ Said(t, q[k]) = {"requested"} /\ q[k] # c
                                    /\ worker[t].pc # "idle" => q[k] # worker[t].call
          /\ \A k, l \in 1 .. Len(q) : q[k] = q[l] => k = l
      BY <1>5, <1>8, <3>1 DEF QueueOK
    <3>6. \A k \in 1 .. Len(r) : /\ Said(t, r[k])' = {"requested"}
                                 /\ worker'[t].pc # "idle" => r[k] # worker'[t].call
      <4> TAKE k \in 1 .. Len(r)
      <4>1. CASE k \in 1 .. Len(q)
        BY <1>3, <1>4, <3>3, <3>5, <4>1
      <4>2. CASE k = Len(q) + 1
        BY <1>3, <1>4, <1>6, <3>3, <4>2
      <4>3. QED  BY <3>4, <4>1, <4>2
    <3>7. \A k, l \in 1 .. Len(r) : r[k] = r[l] => k = l
      BY <3>3, <3>4, <3>5
    <3>8. QED  BY <3>2, <3>6, <3>7 DEF QueueOK
  <2>3. QED  BY <2>1, <2>2 DEF StreamToolRequest
<1>10. \A u \in Tasks \ {t} : worker'[u] = worker[u] /\ toolQueue'[u] = toolQueue[u]
  BY <1>4 DEF StreamToolRequest
<1>11. \A k \in 1 .. Len(es) : es[k].type # "started"
  BY <1>1 DEF Types
<1>12. QED
  BY <1>1, <1>2, <1>4, <1>7, <1>9, <1>10, <1>11, CallEventsStep DEF Denials

\* Denying the pending calls of a task moves at most its own handler, from
\* "asking" to "decided".
LEMMA CancelStep ==
    ASSUME TypeOK, ToolInv, CallInv, NEW t \in Tasks, CancelPending(t),
           UNCHANGED <<log, toolQueue, granted>>
    PROVE  CallInv'
<1>1. CASE worker' = worker
  BY <1>1, QuietStep
<1>2. CASE /\ worker[t].pc = "asking"
           /\ worker' = [worker EXCEPT ![t].pc = "decided", ![t].verdict = "deny"]
  <2>1. /\ \A u \in Tasks \ {t} : worker'[u] = worker[u]
        /\ worker'[t].pc = "decided" /\ worker'[t].verdict = "deny"
        /\ worker'[t].call = worker[t].call
    BY <1>2 DEF TypeOK, ToolTypeOK
  <2>2. QueueOK(t) /\ HandledOK(t)
    BY DEF CallInv, HandlersOK
  <2>3. \A d : Said(t, d)' = Said(t, d)
    BY DEF Said, Logged, TaskLog
  <2>4. QueueOK(t)' /\ HandledOK(t)'
    BY <1>2, <2>1, <2>2, <2>3 DEF QueueOK, HandledOK
  <2>5. QED  BY <2>1, <2>4, HandlerStep
<1>3. QED  BY <1>1, <1>2, CancelWakes

\* The steps of the tasks.
LEMMA TaskKeepsCalls ==
    ASSUME TypeOK, ToolInv, CallInv, NEW t \in Tasks, TaskStep(t) \/ StopStep(t)
    PROVE  CallInv'
<1>1. CASE \/ StartTask(t) \/ RunTask(t) \/ SkipTask(t) \/ Settle(t)
           \/ RuntimeStarted(t) \/ RuntimeStartFailed(t) \/ DrainRejected(t)
           \/ StopFailed(t)
  BY <1>1, QuietStep DEF StartTask, RunTask, SkipTask, Settle, RuntimeStarted,
     RuntimeStartFailed, DrainRejected, StopFailed, toolVars
<1>2. CASE StreamOutput(t)
  BY <1>2, TaskEventStep DEF StreamOutput, toolVars
<1>3. CASE StreamTerminal(t)
  <2>1. PICK type \in Terminal : Emit(t, <<TaskEvent(t, type)>>)
    BY <1>3, EngineAssumption DEF StreamTerminal, Terminal
  <2>2. QED  BY <1>3, <2>1, TaskEventStep DEF StreamTerminal, toolVars
<1>4. ASSUME NEW c \in Calls, StreamToolRequest(t, c)
      PROVE  CallInv'
  BY <1>4, RequestStep
<1>5. CASE StreamEnded(t) \/ StreamFailed(t) \/ Stop(t)
  BY <1>5, CancelStep DEF StreamEnded, StreamFailed, Stop, LeaveLoop
<1>6. ASSUME NEW type \in Terminal, EmitTerminal(t, type), UNCHANGED toolVars
      PROVE  CallInv'
  BY <1>6, QuietStep, TaskEventStep DEF EmitTerminal, toolVars
<1>7. CASE Drained(t)
  <2>1. UNCHANGED toolVars
    BY <1>7 DEF Drained
  <2>2. \/ log' = log
        \/ \E type \in Terminal : EmitTerminal(t, type)
    BY <1>7 DEF Drained, Terminal
  <2>3. QED  BY <1>6, <2>1, <2>2, QuietStep DEF toolVars
<1>8. CASE StopReturned(t)
  BY <1>6, <1>8 DEF StopReturned, Terminal
<1>9. QED
  BY <1>1, <1>2, <1>3, <1>4, <1>5, <1>7, <1>8 DEF TaskStep, StopStep

\* The user's answer moves the handler that waits for it; an approval is of
\* the very call that handler has.
LEMMA UserKeepsCalls ==
    ASSUME TypeOK, ToolInv, CallInv, UserStep
    PROVE  CallInv'
<1>1. PICK s \in Sessions, c \in Calls : Approve(s, c) \/ Deny(s, c)
  BY DEF UserStep
<1> DEFINE p == pendingToolCalls[s][c.id]
<1>2. /\ c.id \in Ids /\ p # NoPending /\ p.call = c
      /\ UNCHANGED <<log, toolQueue>>
  BY <1>1 DEF Approve, Deny, Matches, IsPending, Calls
<1>3. PICK t \in Tasks : t = p.task
  BY <1>2, EntryOwner DEF TypeOK, ToolInv
<1>4. /\ SessionOf[t] = s
      /\ worker[t] = At("asking", c, "ask")
  BY <1>2, <1>3 DEF ToolInv, PendingIffAsking
<1>5. worker \in [Tasks -> Workers]
  BY DEF TypeOK, ToolTypeOK, Workers
<1>6. PICK v \in Verdicts :
        /\ worker' = [worker EXCEPT ![t] = At("decided", c, v)]
        /\ \/ v = "approve" /\ granted' = granted \cup {<<s, c>>}
           \/ v = "deny" /\ granted' = granted
  BY <1>1, <1>2, <1>3 DEF Approve, Deny, Resolve, Verdicts
<1>7. /\ worker'[t] = At("decided", c, v)
      /\ \A u \in Tasks \ {t} : worker'[u] = worker[u]
      /\ \A g \in granted : g \in granted'
      /\ v = "approve" => <<SessionOf[t], c>> \in granted'
  BY <1>4, <1>5, <1>6
<1>8. \A d : Said(t, d)' = Said(t, d)
  BY <1>2 DEF Said, Logged, TaskLog
<1>9. QueueOK(t) /\ HandledOK(t)
  BY DEF CallInv, HandlersOK
<1>10. QueueOK(t)' /\ HandledOK(t)'
  BY <1>2, <1>4, <1>7, <1>8, <1>9 DEF QueueOK, HandledOK, At
<1>11. QED  BY <1>2, <1>7, <1>10, HandlerStep

\* The handler whose events come from the call it has, and is still to have.
LEMMA HandlerEvents ==
    ASSUME TypeOK, CallInv, NEW t \in Tasks, worker[t].pc # "idle",
           NEW es, About(t, worker[t].call, es), Rising(es), Emit(t, es),
           UNCHANGED <<toolQueue, granted>>,
           \A d \in Said(t, worker[t].call), e \in Types(es) : InOrder(d, e),
           "started" \in Said(t, worker[t].call) => Types(es) \cap Denials = {},
           "started" \in Types(es) =>
               (Said(t, worker[t].call) \cup Types(es)) \cap Denials = {},
           \A k \in 1 .. Len(es) :
               es[k].type = "started" => AllowedIn(t, worker[t].call, es, k),
           \A u \in Tasks \ {t} : worker'[u] = worker[u],
           \/ worker'[t].pc = "idle"
           \/ /\ worker'[t].call = worker[t].call
              /\ worker'[t].pc \notin {"idle", "asking", "decided"}
              /\ worker'[t].pc = "executing" =>
                    "completed" \notin Said(t, worker[t].call) \cup Types(es)
    PROVE  CallInv'
<1>1. PICK c \in Calls : c = worker[t].call
  BY DEF CallInv, HandlersOK, HandledOK
<1>2. QueueOK(t) /\ HandledOK(t) /\ "requested" \in Said(t, c)
  BY <1>1 DEF CallInv, HandlersOK, HandledOK
<1>3. \A d : Said(t, d)' = IF d = c THEN Said(t, d) \cup Types(es) ELSE Said(t, d)
  BY <1>1, SaidAfter DEF TypeOK
<1>4. QueueOK(t)'
  <2>1. PICK q : q = toolQueue[t] /\ q = toolQueue'[t]
    OBVIOUS
  <2>2. \A k \in 1 .. Len(q) : Said(t, q[k]) = {"requested"} /\ q[k] # c
    BY <1>1, <1>2, <2>1 DEF QueueOK
  <2>3. \A k \in 1 .. Len(q) : Said(t, q[k])' = {"requested"}
    BY <1>3, <2>2
  <2>4. QED  BY <1>1, <1>2, <2>1, <2>2, <2>3 DEF QueueOK
<1>5. HandledOK(t)'
  <2>1. CASE worker'[t].pc = "idle"
    BY <2>1 DEF HandledOK
  <2>2. CASE worker'[t].pc # "idle"
    <3>1. worker'[t].call = c
      BY <1>1, <2>2
    <3>2. Said(t, c)' = Said(t, c) \cup Types(es)
      BY <1>3
    <3>3. QED  BY <1>1, <1>2, <2>2, <3>1, <3>2 DEF HandledOK
  <2>3. QED  BY <2>1, <2>2
<1>6. QED  BY <1>1, <1>2, <1>4, <1>5, CallEventsStep

\* The head of the queue and the rest of it.
LEMMA HeadOfQueue ==
    ASSUME TypeOK, CallInv, NEW t \in Tasks, toolQueue[t] # << >>
    PROVE  \E c \in Calls, r \in Seq(Calls) :
              /\ c = Head(toolQueue[t]) /\ r = Tail(toolQueue[t])
              /\ Said(t, c) = {"requested"}
              /\ \A k \in 1 .. Len(r) : Said(t, r[k]) = {"requested"} /\ r[k] # c
              /\ \A k, l \in 1 .. Len(r) : r[k] = r[l] => k = l
<1> DEFINE q == toolQueue[t]
           c == Head(q)
           r == Tail(q)
<1>1. q \in Seq(Calls) /\ q # << >>
  BY DEF TypeOK, ToolTypeOK
<1>2. /\ \A k \in 1 .. Len(q) : Said(t, q[k]) = {"requested"}
      /\ \A k, l \in 1 .. Len(q) : q[k] = q[l] => k = l
  BY DEF CallInv, HandlersOK, QueueOK
<1> HIDE DEF q
<1>3. /\ c \in Calls /\ c = q[1] /\ 1 \in 1 .. Len(q)
      /\ r \in Seq(Calls) /\ Len(r) = Len(q) - 1 /\ Len(q) \in Nat
      /\ \A k \in 1 .. Len(r) : r[k] = q[k + 1]
  BY <1>1
<1>4. \A k \in 1 .. Len(r) : k + 1 \in 1 .. Len(q) /\ k + 1 # 1
  BY <1>3
<1> HIDE DEF c, r
<1>5. \A k \in 1 .. Len(r) : Said(t, r[k]) = {"requested"} /\ r[k] # c
  BY <1>2, <1>3, <1>4
<1>6. \A k, l \in 1 .. Len(r) : r[k] = r[l] => k = l
  <2> TAKE k, l \in 1 .. Len(r)
  <2>1. r[k] = r[l] => k + 1 = l + 1
    BY <1>2, <1>3, <1>4
  <2>2. k \in Int /\ l \in Int
    OBVIOUS
  <2>3. QED  BY <2>1, <2>2
<1>7. Said(t, c) = {"requested"}
  BY <1>2, <1>3
<1>8. QED  BY <1>3, <1>5, <1>6, <1>7 DEF c, r, q

\* The next handler begins, and has something to say of its call.
LEMMA BeginEvents ==
    ASSUME TypeOK, CallInv, NEW t \in Tasks, worker[t].pc = "idle",
           toolQueue[t] # << >>, toolQueue' = [toolQueue EXCEPT ![t] = Tail(@)],
           NEW c, c = Head(toolQueue[t]),
           NEW es, About(t, c, es), Rising(es), Emit(t, es), granted' = granted,
           \A e \in Types(es) : InOrder("requested", e),
           "started" \in Types(es) => Types(es) \cap Denials = {},
           \A k \in 1 .. Len(es) :
               es[k].type = "started" => \E l \in 1 .. (k - 1) : es[l].type = "policy_allow",
           \A u \in Tasks \ {t} : worker'[u] = worker[u],
           worker'[t].call = c,
           worker'[t].pc \in {"asking", "executing", "denying", "broken"},
           worker'[t].pc = "asking" => Types(es) = {"policy_ask"},
           worker'[t].pc = "executing" => "completed" \notin Types(es)
    PROVE  CallInv'
<1>1. PICK r \in Seq(Calls) :
              /\ c \in Calls /\ r = Tail(toolQueue[t])
              /\ Said(t, c) = {"requested"}
              /\ \A k \in 1 .. Len(r) : Said(t, r[k]) = {"requested"} /\ r[k] # c
              /\ \A k, l \in 1 .. Len(r) : r[k] = r[l] => k = l
  <2>1. PICK d \in Calls, r \in Seq(Calls) :
              /\ d = Head(toolQueue[t]) /\ r = Tail(toolQueue[t])
              /\ Said(t, d) = {"requested"}
              /\ \A k \in 1 .. Len(r) : Said(t, r[k]) = {"requested"} /\ r[k] # d
              /\ \A k, l \in 1 .. Len(r) : r[k] = r[l] => k = l
    BY HeadOfQueue
  <2>2. d = c
    BY <2>1
  <2>3. QED  BY <2>1, <2>2
<1>2. /\ toolQueue'[t] = r
      /\ \A u \in Tasks \ {t} : toolQueue'[u] = toolQueue[u]
  BY <1>1 DEF TypeOK, ToolTypeOK
<1>3. \A d : Said(t, d)' = IF d = c THEN Said(t, d) \cup Types(es) ELSE Said(t, d)
  BY SaidAfter DEF TypeOK
<1>4. QueueOK(t)'
  <2>1. \A k \in 1 .. Len(r) : Said(t, r[k])' = {"requested"}
    BY <1>1, <1>3
  <2>2. \A k, l \in 1 .. Len(r) : r[k] = r[l] => k = l
    BY <1>1
  <2>3. toolQueue'[t] = r /\ \A k \in 1 .. Len(r) : r[k] # worker'[t].call
    BY <1>1, <1>2
  <2>4. QED  BY ONLY <2>1, <2>2, <2>3 DEF QueueOK
<1>5. HandledOK(t)'
  <2>1. Said(t, c)' = {"requested"} \cup Types(es)
    BY <1>1, <1>3
  <2>2. QED  BY <1>1, <2>1 DEF HandledOK
<1>6. \A k \in 1 .. Len(es) : es[k].type = "started" => AllowedIn(t, c, es, k)
  BY DEF AllowedIn
<1>7. "started" \in Types(es) => (Said(t, c) \cup Types(es)) \cap Denials = {}
  BY <1>1 DEF Denials
<1>8. QED  BY <1>1, <1>2, <1>4, <1>5, <1>6, <1>7, CallEventsStep

\* The steps of the handlers.
LEMMA ToolKeepsCalls ==
    ASSUME TypeOK, CallInv, NEW t \in Tasks, ToolStep(t)
    PROVE  CallInv'
<1>1. worker \in [Tasks -> Workers] /\ granted' = granted
  BY DEF TypeOK, ToolTypeOK, Workers, ToolStep, BeginToolCall, AfterDecision,
         ToolOutput, ToolReturned, ToolCallThrows, ToolCallDone, toolVars
<1>2. \A u \in Tasks \ {t} : worker'[u] = worker[u]
  <2>1. CASE BeginToolCall(t)
    BY <1>1, <2>1 DEF BeginToolCall, Execute
  <2>2. CASE AfterDecision(t)
    BY <1>1, <2>2 DEF AfterDecision, Execute
  <2>3. CASE ToolOutput(t)
    BY <2>3 DEF ToolOutput, toolVars
  <2>4. CASE ToolReturned(t) \/ ToolCallThrows(t) \/ ToolCallDone(t)
    BY <1>1, <2>4 DEF ToolReturned, ToolCallThrows, ToolCallDone
  <2>5. QED  BY <2>1, <2>2, <2>3, <2>4 DEF ToolStep
<1>3. CASE BeginToolCall(t)
  <2> DEFINE h == Head(toolQueue[t])
  <2>1. PICK c \in Calls, r \in Seq(Calls) :
              /\ c = h /\ r = Tail(toolQueue[t])
              /\ Said(t, c) = {"requested"}
              /\ \A k \in 1 .. Len(r) : Said(t, r[k]) = {"requested"} /\ r[k] # c
              /\ \A k, l \in 1 .. Len(r) : r[k] = r[l] => k = l
    <3>1. worker[t].pc = "idle" /\ toolQueue[t] # << >>
      BY <1>3 DEF BeginToolCall
    <3> HIDE DEF h
    <3>2. QED  BY <3>1, HeadOfQueue DEF h
  <2>2. /\ worker[t].pc = "idle" /\ toolQueue[t] # << >>
        /\ toolQueue' = [toolQueue EXCEPT ![t] = Tail(@)]
    BY <1>3 DEF BeginToolCall
  <2>3. CASE UNCHANGED <<worker, log>>
    <3>1. \A d : Said(t, d)' = Said(t, d)
      BY <2>3 DEF Said, Logged, TaskLog
    <3>2. toolQueue'[t] = r /\ \A u \in Tasks \ {t} : toolQueue'[u] = toolQueue[u]
      BY <2>1, <2>2 DEF TypeOK, ToolTypeOK
    <3>3. QueueOK(t)' /\ HandledOK(t)'
      <4>1. \A k \in 1 .. Len(r) : Said(t, r[k])' = {"requested"}
        BY <2>1, <3>1
      <4>2. worker'[t].pc = "idle"
        BY <2>2, <2>3
      <4>3. \A k, l \in 1 .. Len(r) : r[k] = r[l] => k = l
        BY <2>1
      <4>4. QueueOK(t)'
        BY <3>2, <4>1, <4>2, <4>3 DEF QueueOK
      <4>5. HandledOK(t)'
        BY <4>2 DEF HandledOK
      <4>6. QED  BY <4>4, <4>5
    <3>4. \A u \in Tasks : \A d : Said(u, d)' = Said(u, d)
      BY <2>3 DEF Said, Logged, TaskLog
    <3>5. HandlersOK'
      <4>1. \A u \in Tasks \ {t} : QueueOK(u)' /\ HandledOK(u)'
        BY <1>1, <1>2, <3>2, <3>4, OtherHandlers DEF CallInv
      <4>2. QED  BY <3>3, <4>1 DEF HandlersOK
    <3>6. RequestedFirst' /\ CallLifecycle' /\ AuditTrail'
      <4>1. RequestedFirst'
        BY <3>4 DEF CallInv, RequestedFirst
      <4>2. CallLifecycle'
        BY <2>3 DEF CallInv, CallLifecycle
      <4>3. AuditTrail'
        BY <1>1, <2>3, SameTrail DEF CallInv
      <4>4. QED  BY <4>1, <4>2, <4>3
    <3>7. QED  BY <3>5, <3>6 DEF CallInv
  <2>4. CASE /\ Emit(t, <<ToolEvent(t, c, "policy_deny"), ToolEvent(t, c, "denied")>>)
             /\ worker' = [worker EXCEPT ![t] = At("denying", c, "deny")]
    <3> DEFINE es == <<ToolEvent(t, c, "policy_deny"), ToolEvent(t, c, "denied")>>
    <3>1. /\ About(t, c, es) /\ Rising(es) /\ Types(es) = {"policy_deny", "denied"}
          /\ InOrder("requested", "policy_deny") /\ InOrder("requested", "denied")
      <4>1. /\ InOrder("policy_deny", "denied")
            /\ InOrder("requested", "policy_deny") /\ InOrder("requested", "denied")
        BY Ranks DEF InOrder
      <4>2. "policy_deny" \in ToolEvents /\ "denied" \in ToolEvents
        BY DEF ToolEvents
      <4>3. QED  BY <4>1, <4>2, TwoEvents
    <3>2. worker'[t].call = c /\ worker'[t].pc = "denying"
      BY <1>1, <2>4 DEF At
    <3>3. Emit(t, es)
      BY <2>4
    <3> HIDE DEF es
    <3>4. \A k \in 1 .. Len(es) : es[k].type # "started"
      BY <3>1 DEF Types
    <3>5. QED  BY <1>1, <1>2, <2>1, <2>2, <3>1, <3>2, <3>3, <3>4, BeginEvents
  <2>5. CASE /\ Emit(t, <<ToolEvent(t, c, "policy_ask")>>)
             /\ \/ worker' = [worker EXCEPT ![t] = At("broken", c, "ask")]
                \/ worker' = [worker EXCEPT ![t] = At("asking", c, "ask")]
    <3> DEFINE es == <<ToolEvent(t, c, "policy_ask")>>
    <3>1. /\ About(t, c, es) /\ Rising(es) /\ Types(es) = {"policy_ask"}
          /\ InOrder("requested", "policy_ask")
      <4>1. InOrder("requested", "policy_ask")
        BY Ranks DEF InOrder
      <4>2. "policy_ask" \in ToolEvents
        BY DEF ToolEvents
      <4>3. QED  BY <4>1, <4>2, OneEvent
    <3>2. worker'[t].call = c /\ worker'[t].pc \in {"asking", "broken"}
      BY <1>1, <2>5 DEF At
    <3>3. Emit(t, es)
      BY <2>5
    <3> HIDE DEF es
    <3>4. \A k \in 1 .. Len(es) : es[k].type # "started"
      BY <3>1 DEF Types
    <3>5. QED  BY <1>1, <1>2, <2>1, <2>2, <3>1, <3>2, <3>3, <3>4, BeginEvents
  <2>6. CASE Execute(t, c, "allow", <<ToolEvent(t, c, "policy_allow")>>)
    <3> DEFINE es == <<ToolEvent(t, c, "policy_allow")>>
                         \o <<ToolEvent(t, c, "approved"), ToolEvent(t, c, "started")>>
    <3>1. /\ About(t, c, es) /\ Rising(es)
          /\ Types(es) = {"policy_allow", "approved", "started"}
          /\ \A k \in 1 .. Len(es) : es[k].type = "started" =>
                 \E l \in 1 .. (k - 1) : es[l].type = "policy_allow"
      BY ThreeEvents
    <3>2. /\ InOrder("requested", "policy_allow") /\ InOrder("requested", "approved")
          /\ InOrder("requested", "started")
      BY Ranks DEF InOrder
    <3>3. worker'[t].call = c /\ worker'[t].pc = "executing"
      BY <1>1, <2>6 DEF Execute, At
    <3>4. Emit(t, es)
      BY <2>6 DEF Execute
    <3> HIDE DEF es
    <3>5. Types(es) \cap Denials = {} /\ "completed" \notin Types(es)
      BY <3>1 DEF Denials
    <3>6. QED
      BY <1>1, <1>2, <2>1, <2>2, <3>1, <3>2, <3>3, <3>4, <3>5, BeginEvents
  <2>7. QED  BY <1>3, <2>1, <2>3, <2>4, <2>5, <2>6 DEF BeginToolCall
<1>4. QueueOK(t) /\ HandledOK(t)
  BY DEF CallInv, HandlersOK
<1>5. CASE AfterDecision(t)
  <2>1. PICK c \in Calls : c = worker[t].call
    BY <1>4, <1>5 DEF AfterDecision, HandledOK
  <2>2. /\ worker[t].pc = "decided" /\ toolQueue' = toolQueue
        /\ Said(t, c) = {"requested", "policy_ask"}
        /\ worker[t].verdict = "approve" => <<SessionOf[t], c>> \in granted
    BY <1>4, <1>5, <2>1 DEF AfterDecision, HandledOK
  <2>3. CASE /\ Emit(t, <<ToolEvent(t, c, "user_deny"), ToolEvent(t, c, "denied")>>)
             /\ worker' = [worker EXCEPT ![t] = At("denying", c, "deny")]
    <3> DEFINE es == <<ToolEvent(t, c, "user_deny"), ToolEvent(t, c, "denied")>>
    <3>1. /\ About(t, c, es) /\ Rising(es) /\ Types(es) = {"user_deny", "denied"}
          /\ \A d \in {"requested", "policy_ask"}, x \in {"user_deny", "denied"} :
                InOrder(d, x)
      <4>1. /\ InOrder("user_deny", "denied")
            /\ \A d \in {"requested", "policy_ask"}, x \in {"user_deny", "denied"} :
                  InOrder(d, x)
        BY Ranks DEF InOrder
      <4>2. "user_deny" \in ToolEvents /\ "denied" \in ToolEvents
        BY DEF ToolEvents
      <4>3. QED  BY <4>1, <4>2, TwoEvents
    <3>2. worker'[t].call = c /\ worker'[t].pc = "denying"
      BY <1>1, <2>3 DEF At
    <3>3. Emit(t, es)
      BY <2>3
    <3> HIDE DEF es
    <3>4. \A k \in 1 .. Len(es) : es[k].type # "started"
      BY <3>1 DEF Types
    <3>5. QED
      BY <1>1, <1>2, <2>1, <2>2, <3>1, <3>2, <3>3, <3>4, HandlerEvents
  <2>4. CASE /\ Emit(t, <<ToolEvent(t, c, "user_allow")>>)
             /\ worker' = [worker EXCEPT ![t] = Idle]
    <3> DEFINE es == <<ToolEvent(t, c, "user_allow")>>
    <3>1. /\ About(t, c, es) /\ Rising(es) /\ Types(es) = {"user_allow"}
          /\ \A d \in {"requested", "policy_ask"} : InOrder(d, "user_allow")
      <4>1. \A d \in {"requested", "policy_ask"} : InOrder(d, "user_allow")
        BY Ranks DEF InOrder
      <4>2. "user_allow" \in ToolEvents
        BY DEF ToolEvents
      <4>3. QED  BY <4>1, <4>2, OneEvent
    <3>2. worker'[t].pc = "idle"
      BY <1>1, <2>4 DEF Idle
    <3>3. Emit(t, es)
      BY <2>4
    <3> HIDE DEF es
    <3>4. \A k \in 1 .. Len(es) : es[k].type # "started"
      BY <3>1 DEF Types
    <3>5. QED
      BY <1>1, <1>2, <2>1, <2>2, <3>1, <3>2, <3>3, <3>4, HandlerEvents
  <2>5. CASE /\ worker[t].verdict = "approve"
             /\ Execute(t, c, "approve", <<ToolEvent(t, c, "user_allow")>>)
    <3> DEFINE es == <<ToolEvent(t, c, "user_allow")>>
                         \o <<ToolEvent(t, c, "approved"), ToolEvent(t, c, "started")>>
    <3>1. /\ About(t, c, es) /\ Rising(es)
          /\ Types(es) = {"user_allow", "approved", "started"}
          /\ \A k \in 1 .. Len(es) : es[k].type = "started" =>
                 \E l \in 1 .. (k - 1) : es[l].type = "user_allow"
      BY ThreeEvents
    <3>2. \A d \in {"requested", "policy_ask"}, x \in {"user_allow", "approved", "started"} :
              InOrder(d, x)
      BY Ranks DEF InOrder
    <3>3. worker'[t].call = c /\ worker'[t].pc = "executing"
      BY <1>1, <2>5 DEF Execute, At
    <3>4. Emit(t, es)
      BY <2>5 DEF Execute
    <3> HIDE DEF es
    <3>5. /\ (Said(t, c) \cup Types(es)) \cap Denials = {}
          /\ "completed" \notin Said(t, c) \cup Types(es)
      BY <2>2, <3>1 DEF Denials
    <3>6. \A k \in 1 .. Len(es) : es[k].type = "started" => AllowedIn(t, c, es, k)
      BY <2>2, <2>5, <3>1 DEF AllowedIn
    <3>7. QED
      BY <1>1, <1>2, <2>1, <2>2, <3>1, <3>2, <3>3, <3>4, <3>5, <3>6, HandlerEvents
  <2>6. QED  BY <1>5, <2>1, <2>3, <2>4, <2>5 DEF AfterDecision
<1>6. CASE ToolOutput(t) \/ ToolReturned(t)
  <2>1. PICK c \in Calls : c = worker[t].call
    BY <1>4, <1>6 DEF ToolOutput, ToolReturned, HandledOK
  <2>2. /\ worker[t].pc = "executing" /\ toolQueue' = toolQueue
        /\ "completed" \notin Said(t, c)
    BY <1>4, <1>6, <2>1 DEF ToolOutput, ToolReturned, HandledOK, toolVars
  <2>3. PICK x \in {"output.delta", "completed"} :
              /\ Emit(t, <<ToolEvent(t, c, x)>>)
              /\ x = "output.delta" => worker' = worker
              /\ x = "completed" => worker' = [worker EXCEPT ![t].pc = "reporting"]
    BY <1>6, <2>1 DEF ToolOutput, ToolReturned, toolVars
  <2> DEFINE es == <<ToolEvent(t, c, x)>>
  <2>4. About(t, c, es) /\ Rising(es) /\ Types(es) = {x} /\ Emit(t, es)
    BY <2>3, OneEvent DEF ToolEvents
  <2>5. \A d \in Said(t, c) : InOrder(d, x)
    <3>1. \A d \in ToolEvents \ {"completed"} : InOrder(d, x)
      BY Ranks DEF InOrder, ToolEvents
    <3>2. QED  BY <2>2, <3>1 DEF Said
  <2>6. /\ worker'[t].call = c
        /\ worker'[t].pc = IF x = "completed" THEN "reporting" ELSE "executing"
    BY <1>1, <2>1, <2>2, <2>3 DEF Workers
  <2> HIDE DEF es
  <2>7. \A k \in 1 .. Len(es) : es[k].type # "started"
    BY <2>4 DEF Types
  <2>8. Types(es) \cap Denials = {} /\ "started" \notin Types(es)
    BY <2>4 DEF Denials
  <2>9. QED
    BY <1>1, <1>2, <2>1, <2>2, <2>4, <2>5, <2>6, <2>7, <2>8, HandlerEvents
<1>7. CASE ToolCallThrows(t) \/ ToolCallDone(t)
  <2>1. /\ \/ worker'[t].pc = "idle"
           \/ /\ worker[t].pc # "idle"
              /\ worker'[t].pc = "broken" /\ worker'[t].call = worker[t].call
        /\ UNCHANGED <<log, toolQueue>>
    BY <1>1, <1>7 DEF ToolCallThrows, ToolCallDone, Workers, Idle
  <2>2. \A d : Said(t, d)' = Said(t, d)
    BY <2>1 DEF Said, Logged, TaskLog
  <2>3. QueueOK(t)' /\ HandledOK(t)'
    BY <1>4, <2>1, <2>2 DEF QueueOK, HandledOK
  <2>4. QED  BY <1>1, <1>2, <2>1, <2>3, HandlerStep
<1>8. QED  BY <1>3, <1>5, <1>6, <1>7 DEF ToolStep

-----------------------------------------------------------------------------
\* Nothing is logged or queued at first.
LEMMA InitCalls == ASSUME Init PROVE CallInv
<1>1. \A s \in Sessions : Len(log[s]) = 0
  BY DEF Init
<1>2. \A t \in Tasks : \A d : Said(t, d) = {}
  BY <1>1, EngineAssumption DEF Said, Logged, TaskLog
<1>3. RequestedFirst
  BY <1>2 DEF RequestedFirst
<1>4. HandlersOK
  BY DEF Init, HandlersOK, QueueOK, HandledOK, Idle
<1>5. CallLifecycle /\ AuditTrail
  BY <1>1 DEF CallLifecycle, AuditTrail
<1>6. QED  BY <1>3, <1>4, <1>5 DEF CallInv

\* CallInv is inductive, on top of the types and the approvals.
THEOREM CallsCorrect == Spec => []CallInv
<1>1. TypeOK /\ ToolInv /\ CallInv /\ [Next]_vars => CallInv'
  <2> SUFFICES ASSUME TypeOK, ToolInv, CallInv, [Next]_vars
               PROVE  CallInv'
    OBVIOUS
  <2>1. CASE UNCHANGED vars
    BY <2>1, QuietStep DEF vars, toolVars
  <2>2. QED
    BY <2>1, UserKeepsCalls, TaskKeepsCalls, ToolKeepsCalls DEF Next
<1>2. Init => CallInv
  BY InitCalls
<1>3. QED  BY <1>1, <1>2, ToolsCorrect, PTL DEF Spec

\* The events of one tool call come in the documented order, each at most once
\* (output deltas aside), with at most one decision: handleToolCall of
\* src/src/executor/engine.ts, whatever interleaves with it.
THEOREM CallsAreOrdered == Spec => []CallLifecycle
<1>1. CallInv => CallLifecycle
  BY DEF CallInv
<1>2. QED  BY <1>1, CallsCorrect, PTL

\* No tool is started but on the policy's word or on the user's approval of
\* that very attempt, and none that was ever denied.
THEOREM ExecutionsAreAllowed == Spec => []AuditTrail
<1>1. CallInv => AuditTrail
  BY DEF CallInv
<1>2. QED  BY <1>1, CallsCorrect, PTL
=============================================================================
