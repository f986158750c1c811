------------------------ MODULE RuntimeAdaptersProofs ------------------------
(***************************************************************************)
(* The runtime adapters for any number of tasks, sessions and calls: the   *)
(* types; what each of them sends is a runtime stream; what it reports of  *)
(* the end, the output and the usage is what the vendor said; its tool     *)
(* events follow the attempts of each call; the answers Claude and Gemini  *)
(* are given are the results of the calls they asked for; and what tasks   *)
(* share (the process environment, OpenCode's MCP entry and the Codex      *)
(* configuration file) is as each of them expects, with the exceptions the *)
(* properties name.                                                        *)
(***************************************************************************)
EXTENDS RuntimeAdapters, FiniteSetTheorems, SequenceTheorems, TLAPS

-----------------------------------------------------------------------------
(* The streams                                                             *)

PlainTypes == EventTypes \ CallTypes

\* An event about a tool call has its id, the others have none.
SentEvents == [type : CallTypes, id : Calls, n : Nat]
                \cup [type : PlainTypes, id : {0}, n : Nat]

\* Where startTask is before it has pushed model.input, and after it.
Before == {"new", "starting", "adding", "connecting", "capturing", "configuring",
           "reading", "writing", "truncated"}
After == {"joining", "auth", "init", "subscribing", "running", "streaming", "tools",
          "ended"}
Handled == {"streaming", "tools", "ended"}

StreamTypeOK ==
    /\ adapter \in Adapters
    /\ sessionOf \in [Tasks -> Sessions]
    /\ loop \in [Tasks -> Before \cup After \cup {"rejected"}]
    /\ queue \in [Tasks -> Seq(SentEvents)]
    /\ got \in [Tasks -> Seq(SentEvents)]
    /\ closed \in [Tasks -> BOOLEAN]
    /\ done \in [Tasks -> BOOLEAN]
    /\ stopped \in [Tasks -> BOOLEAN]

\* Nothing is sent before model.input, which is sent once; and a queue is
\* closed, and a task stopped, only when there is a handle.
StreamShape ==
    \A t \in Tasks :
        /\ loop[t] \in Before => Sent(t) = << >>
        /\ loop[t] \in After => Sent(t) # << >>
        /\ Stream!WellBegun(Sent(t))
        /\ closed[t] => loop[t] \in Handled
        /\ stopped[t] => loop[t] \in Handled

StreamInv == StreamTypeOK /\ StreamShape

\* A step of task t's side: it goes on to `to` and emits some events.
Moves(t, to, events, shut) ==
    /\ UNCHANGED <<adapter, sessionOf>>
    /\ loop' = [loop EXCEPT ![t] = to]
    /\ Emit(t, events, shut)
    /\ \/ UNCHANGED stopped
       \/ HasHandle(t) /\ stopped' = [stopped EXCEPT ![t] = TRUE]

\* What a step from `from` may emit.
Fits(from, to, events, shut) ==
    /\ to \in Before \cup After \cup {"rejected"}
    /\ events \in Seq(SentEvents)
    /\ shut \in BOOLEAN
    /\ \/ from = to /\ events = << >> /\ ~shut
       \/ from \in Before /\ to \in Before \cup {"rejected"} /\ events = << >> /\ ~shut
       \/ from \in Before /\ to \in After /\ events = <<Plain("model.input")>> /\ ~shut
       \/ /\ from \in After /\ to \in After \cup {"rejected"}
          /\ from \in Handled => to \in Handled
          /\ shut => to \in Handled
          /\ \A i \in 1 .. Len(events) : events[i].type # "model.input"

\* What a step emits comes after all that was sent, unless the queue is closed.
LEMMA SentAfter ==
    ASSUME StreamTypeOK, NEW t \in Tasks, NEW events \in Seq(SentEvents), NEW shut,
           Emit(t, events, shut)
    PROVE  /\ Sent(t)' = IF closed[t] THEN Sent(t) ELSE Sent(t) \o events
           /\ \A u \in Tasks \ {t} : Sent(u)' = Sent(u) /\ closed'[u] = closed[u]
           /\ closed'[t] = (closed[t] \/ shut)
           /\ queue' \in [Tasks -> Seq(SentEvents)]
           /\ closed' \in [Tasks -> BOOLEAN]
           /\ UNCHANGED <<got, done>>
<1>1. /\ got[t] \in Seq(SentEvents) /\ queue[t] \in Seq(SentEvents)
      /\ UNCHANGED <<got, done>>
  BY DEF StreamTypeOK, Emit
<1>2. queue[t] \o events \in Seq(SentEvents)
  BY <1>1
<1>3. /\ queue' = [queue EXCEPT ![t] = IF closed[t] THEN queue[t] ELSE queue[t] \o events]
      /\ closed' = [closed EXCEPT ![t] = closed[t] \/ shut]
  BY DEF Emit
<1>4. /\ queue'[t] = IF closed[t] THEN queue[t] ELSE queue[t] \o events
      /\ closed'[t] = (closed[t] \/ shut)
      /\ \A u \in Tasks \ {t} : queue'[u] = queue[u] /\ closed'[u] = closed[u]
  BY <1>3 DEF StreamTypeOK
<1>5. closed' \in [Tasks -> BOOLEAN]
  BY <1>3 DEF StreamTypeOK
<1>6. queue' \in [Tasks -> Seq(SentEvents)]
  BY <1>2, <1>3 DEF StreamTypeOK
<1>7. got[t] \o (queue[t] \o events) = (got[t] \o queue[t]) \o events
  <2>1. \A a, b, c \in Seq(SentEvents) : a \o (b \o c) = (a \o b) \o c
    <3> SUFFICES ASSUME NEW a \in Seq(SentEvents), NEW b \in Seq(SentEvents),
                        NEW c \in Seq(SentEvents)
                 PROVE  a \o (b \o c) = (a \o b) \o c
      OBVIOUS
    <3>1. QED  BY ONLY ConcatAssociative, a \in Seq(SentEvents), b \in Seq(SentEvents),
                       c \in Seq(SentEvents)
  <2>2. QED  BY <1>1, <2>1
<1>8. QED  BY <1>1, <1>4, <1>5, <1>6, <1>7 DEF Sent

\* Reading takes nothing from what was sent.
LEMMA SentRead ==
    ASSUME StreamTypeOK, NEW t \in Tasks, Shift(t) \/ TurnAway(t)
    PROVE  /\ \A u \in Tasks : Sent(u)' = Sent(u)
           /\ StreamTypeOK'
           /\ UNCHANGED <<loop, closed, stopped>>
<1>1. UNCHANGED <<callerVars, loop, closed>>
  BY DEF Shift, TurnAway
<1>2. CASE UNCHANGED <<got, queue>>
  <2>1. done' \in [Tasks -> BOOLEAN]
    BY DEF Shift, TurnAway, StreamTypeOK
  <2>2. QED  BY <1>1, <1>2, <2>1 DEF StreamTypeOK, Sent, callerVars
<1>3. CASE /\ queue[t] # << >>
           /\ got' = [got EXCEPT ![t] = Append(got[t], Head(queue[t]))]
           /\ queue' = [queue EXCEPT ![t] = Tail(queue[t])]
           /\ UNCHANGED done
  <2>1. got[t] \in Seq(SentEvents) /\ queue[t] \in Seq(SentEvents)
    BY DEF StreamTypeOK
  <2>2. ASSUME NEW g \in Seq(SentEvents), NEW q \in Seq(SentEvents), q # << >>
        PROVE  /\ Append(g, Head(q)) \in Seq(SentEvents) /\ Tail(q) \in Seq(SentEvents)
               /\ Append(g, Head(q)) \o Tail(q) = g \o q
    <3>1. Head(q) \in SentEvents /\ Tail(q) \in Seq(SentEvents) /\ Len(q) > 0
          /\ Len(Tail(q)) = Len(q) - 1 /\ Head(q) = q[1]
          /\ \A i \in 1 .. Len(q) - 1 : Tail(q)[i] = q[i + 1]
      BY <2>2
    <3> DEFINE h == Head(q)
               r == Tail(q)
               a == Append(g, h)
    <3> HIDE DEF h, r
    <3>2. /\ a \in Seq(SentEvents) /\ Len(a) = Len(g) + 1 /\ a[Len(g) + 1] = h
          /\ \A i \in 1 .. Len(g) : a[i] = g[i]
      BY <3>1 DEF h, r
    <3> HIDE DEF a
    <3>3. /\ a \o r \in Seq(SentEvents) /\ Len(a \o r) = Len(a) + Len(r)
          /\ \A i \in 1 .. Len(a) + Len(r) : (a \o r)[i] = IF i <= Len(a) THEN a[i] ELSE r[i - Len(a)]
      BY <3>1, <3>2, ConcatProperties DEF h, r
    <3>4. /\ g \o q \in Seq(SentEvents) /\ Len(g \o q) = Len(g) + Len(q)
          /\ \A i \in 1 .. Len(g) + Len(q) : (g \o q)[i] = IF i <= Len(g) THEN g[i] ELSE q[i - Len(g)]
      BY ConcatProperties
    <3>5. Len(a \o r) = Len(g \o q) /\ Len(g) \in Nat /\ Len(q) \in Nat
      BY <3>1, <3>2, <3>3, <3>4 DEF r
    <3>6. \A i \in 1 .. Len(a \o r) : (a \o r)[i] = (g \o q)[i]
      <4> SUFFICES ASSUME NEW i \in 1 .. Len(a \o r) PROVE (a \o r)[i] = (g \o q)[i]
        OBVIOUS
      <4>1. CASE i <= Len(g)
        BY <3>2, <3>3, <3>4, <3>5, <4>1
      <4>2. CASE i = Len(g) + 1
        BY <3>1, <3>2, <3>3, <3>4, <3>5, <4>2 DEF h
      <4>3. CASE i > Len(g) + 1
        <5>1. i - Len(a) \in 1 .. Len(q) - 1 /\ i - Len(a) + 1 = i - Len(g)
          BY <3>1, <3>2, <3>3, <3>5, <4>3 DEF r
        <5>2. (a \o r)[i] = r[i - Len(a)] /\ (g \o q)[i] = q[i - Len(g)]
          BY <3>2, <3>3, <3>4, <3>5, <4>3
        <5>3. r[i - Len(a)] = q[i - Len(a) + 1]
          BY <3>1, <5>1 DEF r
        <5>4. QED  BY <5>1, <5>2, <5>3
      <4>4. QED  BY <3>5, <4>1, <4>2, <4>3
    <3>7. a \o r = g \o q
      BY <3>3, <3>4, <3>5, <3>6, SeqEqual
    <3>8. QED  BY <3>1, <3>2, <3>7 DEF a, h, r
  <2>3. /\ got' \in [Tasks -> Seq(SentEvents)] /\ queue' \in [Tasks -> Seq(SentEvents)]
        /\ got'[t] \o queue'[t] = got[t] \o queue[t]
        /\ \A u \in Tasks \ {t} : got'[u] = got[u] /\ queue'[u] = queue[u]
    BY <1>3, <2>1, <2>2 DEF StreamTypeOK
  <2>4. QED  BY <1>1, <1>3, <2>3 DEF StreamTypeOK, Sent, callerVars
<1>4. QED  BY <1>1, <1>2, <1>3 DEF Shift, TurnAway, callerVars

\* A step that fits keeps the shape of the streams.
LEMMA MovesKeep ==
    ASSUME StreamInv, NEW t \in Tasks, NEW to, NEW events, NEW shut,
           Moves(t, to, events, shut), Fits(loop[t], to, events, shut)
    PROVE  StreamInv'
<1>1. /\ to \in Before \cup After \cup {"rejected"} /\ events \in Seq(SentEvents)
      /\ shut \in BOOLEAN
  BY DEF Fits
<1>2. /\ Sent(t)' = IF closed[t] THEN Sent(t) ELSE Sent(t) \o events
      /\ \A u \in Tasks \ {t} : Sent(u)' = Sent(u) /\ closed'[u] = closed[u]
      /\ closed'[t] = (closed[t] \/ shut)
      /\ queue' \in [Tasks -> Seq(SentEvents)]
      /\ closed' \in [Tasks -> BOOLEAN]
      /\ UNCHANGED <<got, done>>
  BY <1>1, SentAfter DEF StreamInv, Moves
<1>3. /\ loop' \in [Tasks -> Before \cup After \cup {"rejected"}]
      /\ loop'[t] = to /\ \A u \in Tasks \ {t} : loop'[u] = loop[u]
  BY <1>1 DEF Moves, StreamInv, StreamTypeOK
<1>4. /\ stopped' \in [Tasks -> BOOLEAN]
      /\ stopped'[t] => stopped[t] \/ loop[t] \in Handled
      /\ \A u \in Tasks \ {t} : stopped'[u] = stopped[u]
  BY DEF Moves, StreamInv, StreamTypeOK, HasHandle, Handled
<1>5. StreamTypeOK'
  BY <1>2, <1>3, <1>4 DEF StreamInv, StreamTypeOK, Moves
<1>6. Sent(t) \in Seq(SentEvents)
  BY DEF StreamInv, StreamTypeOK, Sent
<1>7. ASSUME NEW u \in Tasks \ {t}
      PROVE  /\ loop'[u] \in Before => Sent(u)' = << >>
             /\ loop'[u] \in After => Sent(u)' # << >>
             /\ Stream!WellBegun(Sent(u))'
             /\ closed'[u] => loop'[u] \in Handled
             /\ stopped'[u] => loop'[u] \in Handled
  <2>1. /\ Sent(u)' = Sent(u) /\ closed'[u] = closed[u] /\ loop'[u] = loop[u]
        /\ stopped'[u] = stopped[u]
    BY <1>2, <1>3, <1>4
  <2>2. /\ loop[u] \in Before => Sent(u) = << >>
        /\ loop[u] \in After => Sent(u) # << >>
        /\ closed[u] => loop[u] \in Handled
        /\ stopped[u] => loop[u] \in Handled
        /\ Stream!WellBegun(Sent(u))
    BY DEF StreamInv, StreamShape
  <2>3. Stream!WellBegun(Sent(u))'
    BY <2>1, <2>2 DEF Stream!WellBegun
  <2>4. QED  BY <2>1, <2>2, <2>3
<1>8. /\ loop[t] \in Before => Sent(t) = << >> /\ ~closed[t] /\ ~stopped[t]
      /\ loop[t] \in After => Sent(t) # << >>
      /\ Stream!WellBegun(Sent(t))
      /\ closed[t] => loop[t] \in Handled
      /\ stopped[t] => loop[t] \in Handled
  BY DEF StreamInv, StreamTypeOK, StreamShape, Before, Handled
<1>9. (closed'[t] => to \in Handled) /\ (stopped'[t] => to \in Handled)
  BY <1>2, <1>4, <1>8 DEF Fits, Before, After, Handled
<1>10. /\ to \in Before => Sent(t)' = << >>
       /\ to \in After => Sent(t)' # << >>
       /\ Stream!WellBegun(Sent(t)')
  <2> DEFINE s == Sent(t)
  <2>1. ASSUME events = << >>
        PROVE  Sent(t)' = s
    <3>1. s \o << >> = s
      BY <1>6, ConcatEmptySeq
    <3>2. QED  BY <1>2, <2>1, <3>1
  <2>2. CASE loop[t] = to /\ events = << >>
    BY <1>8, <2>1, <2>2
  <2>3. CASE loop[t] \in Before /\ to \in Before \cup {"rejected"} /\ events = << >>
    BY <1>8, <2>1, <2>3 DEF Before, After
  <2>4. CASE loop[t] \in Before /\ to \in After /\ events = <<Plain("model.input")>>
    <3>1. s = << >> /\ Sent(t)' = s \o events
      BY <1>2, <1>8, <2>4
    <3>2. Sent(t)' = events
      BY <1>1, <3>1, ConcatEmptySeq
    <3>3. Len(events) = 1 /\ events[1].type = "model.input"
      BY <2>4 DEF Plain, Event
    <3>4. Stream!WellBegun(events) /\ events # << >>
      BY <3>3 DEF Stream!WellBegun
    <3>5. to \notin Before
      BY <2>4 DEF Before, After
    <3>6. QED  BY <3>2, <3>4, <3>5
  <2>5. CASE /\ loop[t] \in After /\ to \in After \cup {"rejected"}
             /\ \A i \in 1 .. Len(events) : events[i].type # "model.input"
    <3>1. s # << >> /\ Stream!WellBegun(s) /\ to \notin Before
      BY <1>8, <2>5 DEF Before, After
    <3>2. CASE closed[t]
      BY <1>2, <3>1, <3>2
    <3>3. CASE ~closed[t]
      <4> HIDE DEF s
      <4>1. /\ Len(s \o events) = Len(s) + Len(events)
            /\ \A i \in 1 .. Len(s) + Len(events) :
                 (s \o events)[i] = IF i <= Len(s) THEN s[i] ELSE events[i - Len(s)]
            /\ Len(s) \in Nat \ {0} /\ Len(events) \in Nat
        BY <1>1, <1>6, <3>1, ConcatProperties DEF s
      <4>2. \A i \in 1 .. Len(s \o events) :
              ((s \o events)[i].type = "model.input") <=> (i = 1)
        <5> SUFFICES ASSUME NEW i \in 1 .. Len(s \o events)
                     PROVE  ((s \o events)[i].type = "model.input") <=> (i = 1)
          OBVIOUS
        <5>1. CASE i <= Len(s)
          BY <3>1, <4>1, <5>1 DEF Stream!WellBegun
        <5>2. CASE i > Len(s)
          <6>1. i - Len(s) \in 1 .. Len(events) /\ i # 1
            BY <4>1, <5>2
          <6>2. QED  BY <2>5, <4>1, <5>2, <6>1
        <5>3. QED  BY <4>1, <5>1, <5>2
      <4>3. s \o events # << >>
        BY <4>1
      <4>4. QED  BY <1>2, <3>1, <3>3, <4>2, <4>3 DEF Stream!WellBegun, s
    <3>4. QED  BY <3>2, <3>3
  <2>6. QED  BY <2>2, <2>3, <2>4, <2>5 DEF Fits
<1>11. QED
  <2>1. Stream!WellBegun(Sent(t))'
    BY <1>10 DEF Stream!WellBegun
  <2>2. QED  BY <1>3, <1>5, <1>7, <1>9, <1>10, <2>1 DEF StreamInv, StreamShape

\* A step that fits is an emission of a runtime stream, or nothing in it.
LEMMA MovesImplement ==
    ASSUME StreamInv, NEW t \in Tasks, NEW to, NEW events, NEW shut,
           Moves(t, to, events, shut), Fits(loop[t], to, events, shut)
    PROVE  [Stream!StreamNext]_Stream!streamVars
<1> DEFINE Log == [u \in Tasks |-> Sent(u)]
<1>1. events \in Seq(SentEvents) /\ Sent(t) \in Seq(SentEvents)
  BY DEF Fits, StreamInv, StreamTypeOK, Sent
<1>2. /\ Sent(t)' = IF closed[t] THEN Sent(t) ELSE Sent(t) \o events
      /\ \A u \in Tasks \ {t} : Sent(u)' = Sent(u) /\ closed'[u] = closed[u]
      /\ closed'[t] = (closed[t] \/ shut)
      /\ closed' \in [Tasks -> BOOLEAN]
      /\ UNCHANGED <<got, done>>
  BY <1>1, SentAfter DEF StreamInv, Moves
<1>3. Log' = [Log EXCEPT ![t] = Log'[t]]
  BY <1>2
<1>4. closed' = [closed EXCEPT ![t] = closed'[t]]
  BY <1>2 DEF StreamInv, StreamTypeOK
<1>5. CASE closed[t]
  <2>1. Log' = Log
    BY <1>2, <1>5
  <2>2. closed' = closed
    BY <1>2, <1>4, <1>5 DEF StreamInv, StreamTypeOK
  <2>3. QED  BY <1>2, <2>1, <2>2 DEF Stream!streamVars
<1>6. CASE ~closed[t]
  <2>1. Log[t] = Sent(t) /\ Log'[t] = Sent(t) \o events
    BY <1>2, <1>6
  <2>2. IsPrefix(Log[t], Log'[t])
    <3>1. ASSUME NEW s \in Seq(SentEvents)
          PROVE  /\ Len(s) <= Len(s \o events)
                 /\ SubSeq(s, 1, Len(s)) = SubSeq(s \o events, 1, Len(s))
      <4>1. /\ Len(s \o events) = Len(s) + Len(events)
            /\ Len(s) \in Nat /\ Len(events) \in Nat
            /\ \A i \in 1 .. Len(s) : (s \o events)[i] = s[i]
        BY <1>1, ConcatProperties
      <4>2. QED  BY <4>1
    <3>2. QED  BY <1>1, <2>1, <3>1 DEF IsPrefix
  <2>3. Stream!WellBegun(Log'[t])
    <3>1. Stream!WellBegun(Sent(t))'
      BY MovesKeep DEF StreamInv, StreamShape
    <3>2. QED  BY <3>1 DEF Stream!WellBegun
  <2>4. Stream!Emit(t)
    BY <1>2, <1>3, <1>4, <1>6, <2>2, <2>3 DEF Stream!Emit, Stream!Only, Stream!IsPrefix, IsPrefix
  <2>5. QED  BY <2>4 DEF Stream!StreamNext
<1>7. QED  BY <1>5, <1>6

\* The reader reads the next event, or is done when it may be.
LEMMA ReadImplements ==
    ASSUME StreamInv, NEW t \in Tasks, Shift(t) \/ TurnAway(t)
    PROVE  [Stream!StreamNext]_Stream!streamVars
<1> DEFINE Log == [u \in Tasks |-> Sent(u)]
           Taken == [u \in Tasks |-> Len(got[u])]
<1>1. Log' = Log /\ closed' = closed
  BY SentRead DEF StreamInv
<1>2. /\ got \in [Tasks -> Seq(SentEvents)] /\ queue \in [Tasks -> Seq(SentEvents)]
      /\ done \in [Tasks -> BOOLEAN]
  BY DEF StreamInv, StreamTypeOK
<1>3. Len(Sent(t)) = Len(got[t]) + Len(queue[t]) /\ Len(got[t]) \in Nat /\ Len(queue[t]) \in Nat
  BY <1>2 DEF Sent
<1>4. CASE Shift(t) /\ queue[t] # << >>
  <2>1. /\ got' = [got EXCEPT ![t] = Append(got[t], Head(queue[t]))] /\ done' = done
        /\ ~done[t]
    BY <1>4 DEF Shift
  <2>2. Len(queue[t]) > 0 /\ Head(queue[t]) \in SentEvents
    BY <1>2, <1>4
  <2>3. Taken' = [Taken EXCEPT ![t] = Taken[t] + 1]
    <3>1. Len(got'[t]) = Len(got[t]) + 1 /\ \A u \in Tasks \ {t} : got'[u] = got[u]
      BY <1>2, <2>1, <2>2
    <3>2. QED  BY <3>1
  <2>4. Taken[t] < Len(Log[t])
    <3>1. Taken[t] = Len(got[t]) /\ Log[t] = Sent(t)
      OBVIOUS
    <3>2. Len(queue[t]) > 0
      BY <2>2
    <3>3. Len(got[t]) < Len(Sent(t))
      <4>1. \A a, b \in Nat : b > 0 => a < a + b
        OBVIOUS
      <4> DEFINE g == Len(got[t])
                 q == Len(queue[t])
                 n == Len(Sent(t))
      <4>2. n = g + q /\ g \in Nat /\ q \in Nat /\ q > 0
        BY <1>3, <3>2
      <4> HIDE DEF g, q, n
      <4>3. g < n
        BY <4>1, <4>2
      <4>4. QED  BY <4>3 DEF g, n
    <3> HIDE DEF Taken, Log
    <3>4. QED  BY ONLY <3>1, <3>3
  <2>5. Stream!Read(t)
    BY <1>1, <2>1, <2>3, <2>4 DEF Stream!Read
  <2>6. QED  BY <2>5 DEF Stream!StreamNext
<1>5. CASE (Shift(t) /\ queue[t] = << >>) \/ TurnAway(t)
  <2>1. got' = got /\ done' = [done EXCEPT ![t] = TRUE]
    BY <1>5 DEF Shift, TurnAway
  <2>2. CASE Shift(t) /\ queue[t] = << >>
    <3>1. closed[t] /\ Taken[t] = Len(Log[t])
      BY <1>3, <2>2 DEF Shift
    <3>2. Stream!End(t)
      BY <1>1, <2>1, <3>1 DEF Stream!End
    <3>3. QED  BY <3>2 DEF Stream!StreamNext
  <2>3. CASE TurnAway(t)
    <3>1. PICK i \in 1 .. Len(got[t]) : got[t][i].type \in Terminal
      BY <2>3 DEF TurnAway
    <3>2. Sent(t)[i] = got[t][i]
      BY <1>2, <3>1 DEF Sent
    <3>3. \E j \in 1 .. Taken[t] : Log[t][j].type \in Stream!Terminal
      BY <3>1, <3>2 DEF Terminal, Stream!Terminal
    <3>4. Stream!End(t)
      BY <1>1, <2>1, <3>3 DEF Stream!End
    <3>5. QED  BY <3>4 DEF Stream!StreamNext
  <2>4. QED  BY <1>5, <2>2, <2>3
<1>6. QED  BY <1>4, <1>5

-----------------------------------------------------------------------------
(* The steps of the adapters, as steps of a stream                         *)

\* A terminal event is the last, unless Codex sends it.
Ending(events, shut) ==
    adapter # "codex" =>
        \A i \in 1 .. Len(events) :
            events[i].type \in Terminal => i = Len(events) /\ shut

\* An attempt that is requested is the next one of its call.
Fresh(events) ==
    adapter \in {"gemini", "opencode"} =>
        /\ \A c \in Calls : attempts'[c] >= attempts[c]
        /\ \A i \in 1 .. Len(events) : events[i].type = "tool.call.requested" =>
             /\ i = 1
             /\ events[i].n = attempts[events[i].id] + 1
             /\ attempts'[events[i].id] = events[i].n

\* The steps that say something about a tool call.
ToolStep(t) ==
    \/ adapter = "claude" /\ ClaudeToolCall(t)
    \/ adapter = "gemini" /\ GeminiToolCall(t)
    \/ adapter = "opencode" /\ OpencodeToolPart(t)
    \/ adapter = "codex" /\ CodexItem(t)

\* Only they do.
Tells(t, events) ==
    ToolStep(t) \/ \A i \in 1 .. Len(events) : events[i].type \notin CallTypes

Stepped(t) ==
    \E to \in Before \cup After \cup {"rejected"}, events \in Seq(SentEvents), shut \in BOOLEAN :
        /\ Moves(t, to, events, shut)
        /\ Fits(loop[t], to, events, shut)
        /\ Ending(events, shut)
        /\ Fresh(events)
        /\ Tells(t, events)

\* A step with these events is a step.
LEMMA StepIs ==
    ASSUME NEW t, NEW to, NEW events, NEW shut,
           Moves(t, to, events, shut), Fits(loop[t], to, events, shut),
           Ending(events, shut), Fresh(events), Tells(t, events)
    PROVE  Stepped(t)
BY DEF Stepped, Fits

AttemptsOK == attempts \in [Calls -> Nat]

\* The attempts are only counted up.
AttemptsGrow == \A c \in Calls : attempts'[c] >= attempts[c]

\* A step that emits nothing.
LEMMA QuietStep ==
    ASSUME StreamInv, NEW t \in Tasks, NEW to \in Before \cup After \cup {"rejected"},
           UNCHANGED <<adapter, sessionOf, stopped, queueVars>>, AttemptsGrow,
           loop' = [loop EXCEPT ![t] = to],
           \/ to = loop[t]
           \/ loop[t] \in Before /\ to \in Before \cup {"rejected"}
           \/ /\ loop[t] \in After /\ to \in After \cup {"rejected"}
              /\ loop[t] \in Handled => to \in Handled
    PROVE  Stepped(t)
<1>1. queue[t] \o << >> = queue[t]
  BY ConcatEmptySeq DEF StreamInv, StreamTypeOK
<1>2. queue \in [Tasks -> Seq(SentEvents)] /\ closed \in [Tasks -> BOOLEAN]
  BY DEF StreamInv, StreamTypeOK
<1>3. Emit(t, << >>, FALSE)
  BY <1>1, <1>2 DEF Emit, queueVars
<1>4. Moves(t, to, << >>, FALSE)
  BY <1>3 DEF Moves
<1>5. << >> \in Seq(SentEvents) /\ Len(<< >>) = 0
  OBVIOUS
<1>6. Fits(loop[t], to, << >>, FALSE)
  BY <1>5 DEF Fits
<1>7. Ending(<< >>, FALSE) /\ Fresh(<< >>) /\ Tells(t, << >>)
  BY <1>5 DEF Ending, Fresh, AttemptsGrow, Tells
<1>8. QED  BY <1>4, <1>6, <1>7, StepIs

\* A step in which model.input is pushed.
LEMMA InputStep ==
    ASSUME NEW t \in Tasks, NEW to \in After, loop[t] \in Before,
           UNCHANGED <<adapter, sessionOf, stopped>>, AttemptsGrow,
           loop' = [loop EXCEPT ![t] = to],
           Push(t, <<Plain("model.input")>>)
    PROVE  Stepped(t)
<1> DEFINE events == <<Plain("model.input")>>
<1>1. /\ events \in Seq(SentEvents) /\ Len(events) = 1
      /\ events[1].type = "model.input"
  BY DEF Plain, Event, SentEvents, PlainTypes, EventTypes, CallTypes
<1>2. Moves(t, to, events, FALSE)
  BY DEF Moves, Push
<1>3. Fits(loop[t], to, events, FALSE)
  BY <1>1 DEF Fits
<1> HIDE DEF events
<1>4. Ending(events, FALSE) /\ Fresh(events) /\ Tells(t, events)
  BY <1>1 DEF Ending, Fresh, AttemptsGrow, Terminal, Tells, CallTypes
<1>5. QED  BY <1>2, <1>3, <1>4, StepIs

\* A step of a task under way that emits events with no model.input.
LEMMA SayStep ==
    ASSUME NEW t \in Tasks, NEW to \in After, loop[t] \in After,
           loop[t] \in Handled => to \in Handled,
           NEW events \in Seq(SentEvents), NEW shut \in BOOLEAN, shut => to \in Handled,
           \A i \in 1 .. Len(events) : events[i].type # "model.input",
           UNCHANGED <<adapter, sessionOf>>,
           UNCHANGED stopped \/ (HasHandle(t) /\ stopped' = [stopped EXCEPT ![t] = TRUE]),
           loop' = [loop EXCEPT ![t] = to],
           Emit(t, events, shut), Ending(events, shut), Fresh(events), Tells(t, events)
    PROVE  Stepped(t)
<1>1. Moves(t, to, events, shut)
  BY DEF Moves
<1>2. Fits(loop[t], to, events, shut)
  BY DEF Fits
<1>3. QED  BY <1>1, <1>2, StepIs

\* Such a step with one event that is about no call.
LEMMA PlainStep ==
    ASSUME NEW t \in Tasks, NEW to \in Handled, loop[t] \in After,
           NEW type \in PlainTypes \ {"model.input"}, NEW shut \in BOOLEAN, NEW n \in Nat,
           type \in Terminal => shut \/ adapter = "codex",
           UNCHANGED <<adapter, sessionOf, stopped>>, AttemptsGrow,
           loop' = [loop EXCEPT ![t] = to],
           Emit(t, <<Event(type, 0, n)>>, shut)
    PROVE  Stepped(t)
<1> DEFINE events == <<Event(type, 0, n)>>
<1>1. events \in Seq(SentEvents) /\ Len(events) = 1 /\ events[1].type = type
  BY DEF Event, SentEvents
<1> HIDE DEF events
<1>2. Ending(events, shut)
  BY <1>1 DEF Ending
<1>3. Fresh(events)
  BY <1>1 DEF Fresh, AttemptsGrow, PlainTypes, CallTypes
<1>4. to \in After
  BY DEF Handled, After
<1>5. Emit(t, events, shut)
  BY DEF events
<1>6. (\A i \in 1 .. Len(events) : events[i].type # "model.input") /\ Tells(t, events)
  BY <1>1 DEF Tells, PlainTypes
<1>7. QED  BY <1>1, <1>2, <1>3, <1>4, <1>5, <1>6, SayStep

\* Such a step that emits nothing, and may close the queue.
LEMMA CloseStep ==
    ASSUME NEW t \in Tasks, NEW to \in Handled, loop[t] \in After, NEW shut \in BOOLEAN,
           UNCHANGED <<adapter, sessionOf>>, AttemptsGrow,
           UNCHANGED stopped \/ (HasHandle(t) /\ stopped' = [stopped EXCEPT ![t] = TRUE]),
           loop' = [loop EXCEPT ![t] = to],
           Emit(t, << >>, shut)
    PROVE  Stepped(t)
<1> DEFINE events == << >>
<1>1. events \in Seq(SentEvents) /\ Len(events) = 0
  OBVIOUS
<1>2. Emit(t, events, shut)
  OBVIOUS
<1> HIDE DEF events
<1>3. Ending(events, shut) /\ Fresh(events)
  BY <1>1 DEF Ending, Fresh, AttemptsGrow
<1>4. to \in After
  BY DEF Handled, After
<1>5. (\A i \in 1 .. Len(events) : events[i].type # "model.input") /\ Tells(t, events)
  BY <1>1 DEF Tells
<1>6. QED  BY <1>1, <1>2, <1>3, <1>4, <1>5, SayStep

-----------------------------------------------------------------------------
(* Claude                                                                  *)

ClaudeTypeOK ==
    /\ handler \in [Tasks -> [Calls -> [task : Tasks \cup {0},
                                       verdict : {"none", "waiting", "result", "denied"}]]]
    /\ output \in [Tasks -> SUBSET {"delta", "completed"}]

AnsweredOK == answered \in [Tasks -> SUBSET Answers]

\* A call that was read and not answered has an id.
LEMMA UnansweredHasId ==
    ASSUME StreamInv, NEW t \in Tasks, NEW e \in Unanswered(t)
    PROVE  /\ e \in SentEvents /\ e.type = "tool.call.requested"
           /\ e.id \in Calls /\ e.n \in Nat
           /\ \E i \in 1 .. Len(got[t]) : e = got[t][i]
           /\ \A a \in answered[t] : a.id # e.id \/ a.n # e.n
<1>1. got[t] \in Seq(SentEvents) /\ e \in ToSet(got[t])
  BY DEF StreamInv, StreamTypeOK, Unanswered
<1>2. PICK i \in 1 .. Len(got[t]) : e = got[t][i]
  BY <1>1 DEF ToSet
<1>3. e \in SentEvents
  BY <1>1, <1>2
<1>4. /\ e.type = "tool.call.requested"
      /\ \A a \in answered[t] : a.id # e.id \/ a.n # e.n
  BY DEF Unanswered
<1>5. e.id \in Calls /\ e.n \in Nat
  BY <1>3, <1>4 DEF SentEvents, PlainTypes, CallTypes
<1>6. QED  BY <1>2, <1>3, <1>4, <1>5

\* An answer is recorded with the id of its call.
LEMMA AnswerType ==
    ASSUME StreamInv, AnsweredOK, NEW t \in Tasks, NEW e, NEW verdict \in {"result", "denied"},
           Answer(t, e, verdict)
    PROVE  AnsweredOK'
<1>1. e \in Unanswered(t)
  BY DEF Answer
<1>2. [id |-> e.id, n |-> e.n, verdict |-> verdict] \in Answers
  BY <1>1, UnansweredHasId DEF Answers
<1>3. QED  BY <1>2 DEF Answer, AnsweredOK

\* Whatever the Claude adapter may do for task t.
ClaudeStep(t) ==
    \/ ClaudeStart(t) \/ ClaudeOpen(t) \/ ClaudeReject(t) \/ ClaudeMessage(t)
    \/ ClaudeToolCall(t) \/ ClaudeAnswer(t) \/ ClaudeEnd(t) \/ ClaudeThrow(t) \/ ClaudeStop(t)

\* The steps of a Claude task.
LEMMA ClaudeSteps ==
    ASSUME StreamInv, NEW t \in Tasks,
           ClaudeStep(t),
           adapter = "claude", AttemptsOK
    PROVE  Stepped(t)
<1> USE DEF ClaudeStep
<1>1. loop[t] \in Before \cup After \cup {"rejected"} /\ loop = [loop EXCEPT ![t] = loop[t]]
  BY DEF StreamInv, StreamTypeOK
<1>2. AttemptsGrow /\ UNCHANGED <<adapter, sessionOf>>
  BY DEF ClaudeStart, ClaudeOpen, ClaudeReject, ClaudeMessage, ClaudeToolCall,
         ClaudeAnswer, ClaudeEnd,
         ClaudeThrow, ClaudeStop, callerVars, AttemptsGrow, AttemptsOK
<1>3. CASE ClaudeStart(t) \/ ClaudeReject(t)
  BY <1>2, <1>3, QuietStep DEF ClaudeStart, ClaudeReject, MayStart, Goto, callerVars, Before
<1>4. CASE ClaudeOpen(t)
  BY <1>2, <1>4, InputStep DEF ClaudeOpen, ClaudeReject, Goto, callerVars, Before, After
<1>5. CASE ClaudeMessage(t)
  <2>1. /\ loop[t] = "streaming" /\ loop' = loop /\ stopped' = stopped
        /\ \E type \in {"model.output.delta", "model.output.completed", "usage.reported"} :
              Emit(t, <<Event(type, 0, 0)>>, FALSE)
    BY <1>5 DEF ClaudeMessage, MayProduce, Push, Plain, callerVars
  <2>2. QED
    BY <1>1, <1>2, <2>1, PlainStep
       DEF Handled, After, PlainTypes, EventTypes, CallTypes, Terminal
<1>6. CASE ClaudeToolCall(t)
  <2>1. PICK c \in Calls : Emit(t, <<Event("tool.call.requested", c, 1)>>, FALSE)
    BY <1>6 DEF ClaudeToolCall, Push
  <2> DEFINE events == <<Event("tool.call.requested", c, 1)>>
  <2>2. /\ events \in Seq(SentEvents) /\ Len(events) = 1
        /\ events[1].type = "tool.call.requested"
    BY DEF Event, SentEvents, CallTypes
  <2>3. loop[t] = "streaming" /\ loop' = loop /\ stopped' = stopped
    BY <1>6 DEF ClaudeToolCall, MayProduce, callerVars
  <2>4. Emit(t, events, FALSE)
    BY <2>1
  <2> HIDE DEF events
  <2>5. Ending(events, FALSE) /\ Fresh(events)
    BY <2>2 DEF Ending, Fresh, Terminal
  <2>6. (\A i \in 1 .. Len(events) : events[i].type # "model.input") /\ Tells(t, events)
    BY <1>6, <2>2 DEF Tells, ToolStep
  <2>7. QED
    BY <1>1, <1>2, <2>2, <2>3, <2>4, <2>5, <2>6, SayStep DEF After, Handled
<1>7. CASE ClaudeAnswer(t)
  BY <1>1, <1>2, <1>7, QuietStep DEF ClaudeAnswer
<1>8. CASE ClaudeEnd(t)
  <2>1. /\ loop[t] = "streaming" /\ loop' = [loop EXCEPT ![t] = "ended"] /\ stopped' = stopped
        /\ \/ Emit(t, <<Event("model.output.completed", 0, 0)>>, TRUE)
           \/ Emit(t, << >>, TRUE)
    BY <1>8 DEF ClaudeEnd, Goto, Finish, Plain, callerVars
  <2>2. CASE Emit(t, << >>, TRUE)
    BY <1>2, <2>1, <2>2, CloseStep DEF Handled, After
  <2>3. CASE Emit(t, <<Event("model.output.completed", 0, 0)>>, TRUE)
    BY <1>2, <2>1, <2>3, PlainStep DEF Handled, After, PlainTypes, EventTypes, CallTypes
  <2>4. QED  BY <2>1, <2>2, <2>3
<1>9. CASE ClaudeThrow(t)
  <2>1. /\ loop[t] = "streaming" /\ loop' = [loop EXCEPT ![t] = "ended"] /\ stopped' = stopped
        /\ Emit(t, <<Event("task.failed", 0, 0)>>, TRUE)
    BY <1>9 DEF ClaudeThrow, Goto, Finish, Plain, callerVars
  <2>2. QED
    BY <1>2, <2>1, PlainStep DEF Handled, After, PlainTypes, EventTypes, CallTypes
<1>10. CASE ClaudeStop(t)
  <2>1. /\ HasHandle(t) /\ loop' = loop /\ stopped' = [stopped EXCEPT ![t] = TRUE]
        /\ Emit(t, << >>, TRUE)
    BY <1>10 DEF ClaudeStop, MayStop, Close
  <2>2. loop[t] \in Handled /\ loop[t] \in After
    BY <2>1 DEF HasHandle, Handled, After
  <2>3. QED  BY <1>1, <1>2, <2>1, <2>2, CloseStep
<1>11. QED  BY <1>3, <1>4, <1>5, <1>6, <1>7, <1>8, <1>9, <1>10

-----------------------------------------------------------------------------
(* Codex                                                                   *)

CodexTypeOK ==
    items \in [Tasks -> [Calls -> {"none", "started", "completed"}]]

\* Events about one call are events.
LEMMA CallEvents ==
    ASSUME NEW c \in Calls, NEW n \in Nat, NEW types \in Seq(CallTypes)
    PROVE  LET events == [i \in 1 .. Len(types) |-> Event(types[i], c, n)]
           IN  /\ events \in Seq(SentEvents) /\ Len(events) = Len(types)
               /\ \A i \in 1 .. Len(events) :
                    /\ events[i] = Event(types[i], c, n)
                    /\ events[i].type # "model.input"
                    /\ events[i].type \notin Terminal
<1> DEFINE events == [i \in 1 .. Len(types) |-> Event(types[i], c, n)]
<1>1. \A i \in 1 .. Len(types) : types[i] \in CallTypes
  OBVIOUS
<1>2. \A i \in 1 .. Len(types) : Event(types[i], c, n) \in SentEvents
  BY <1>1 DEF Event, SentEvents
<1>3. Len(types) \in Nat
  OBVIOUS
<1>4. events \in [1 .. Len(types) -> SentEvents]
  BY <1>2
<1>5. events \in Seq(SentEvents) /\ Len(events) = Len(types)
  BY <1>3, <1>4
<1>6. \A i \in 1 .. Len(types) : /\ events[i] = Event(types[i], c, n)
                                /\ events[i].type \in CallTypes
  BY <1>1 DEF Event
<1> HIDE DEF events
<1>7. \A i \in 1 .. Len(events) : /\ events[i].type # "model.input"
                                 /\ events[i].type \notin Terminal
  BY <1>5, <1>6 DEF CallTypes, Terminal
<1>8. QED  BY <1>5, <1>6, <1>7 DEF events

\* A step whose events are about one call.
LEMMA CallStep ==
    ASSUME StreamInv, NEW t \in Tasks, loop[t] = "streaming",
           NEW c \in Calls, NEW n \in Nat, NEW types \in Seq(CallTypes),
           UNCHANGED <<adapter, sessionOf, stopped, loop>>, ToolStep(t),
           Push(t, [i \in 1 .. Len(types) |-> Event(types[i], c, n)]),
           Fresh([i \in 1 .. Len(types) |-> Event(types[i], c, n)])
    PROVE  Stepped(t)
<1> DEFINE events == [i \in 1 .. Len(types) |-> Event(types[i], c, n)]
<1>1. /\ events \in Seq(SentEvents)
      /\ \A i \in 1 .. Len(events) : /\ events[i].type # "model.input"
                                    /\ events[i].type \notin Terminal
  BY CallEvents
<1>2. Emit(t, events, FALSE) /\ Fresh(events)
  BY DEF Push
<1> HIDE DEF events
<1>3. Ending(events, FALSE) /\ Tells(t, events)
  BY <1>1 DEF Ending, Tells
<1>4. loop' = [loop EXCEPT ![t] = loop[t]]
  BY DEF StreamInv, StreamTypeOK
<1>5. QED  BY <1>1, <1>2, <1>3, <1>4, SayStep DEF After, Handled

\* Whatever the Codex adapter may do for task t.
CodexStep(t) ==
    \/ CodexStart(t) \/ CodexExists(t) \/ CodexRead(t) \/ CodexTruncate(t)
    \/ CodexWrite(t) \/ CodexReject(t) \/ CodexInput(t) \/ CodexOpen(t)
    \/ CodexEvent(t) \/ CodexItem(t) \/ CodexEnd(t) \/ CodexThrow(t)
    \/ CodexStop(t)

\* The steps of a Codex task.
LEMMA CodexSteps ==
    ASSUME StreamInv, NEW t \in Tasks,
           CodexStep(t),
           adapter = "codex", AttemptsOK
    PROVE  Stepped(t)
<1> USE DEF CodexStep
<1>1. loop[t] \in Before \cup After \cup {"rejected"} /\ loop = [loop EXCEPT ![t] = loop[t]]
  BY DEF StreamInv, StreamTypeOK
<1>2. AttemptsGrow /\ UNCHANGED <<adapter, sessionOf>>
  BY DEF CodexStart, CodexExists, CodexRead, CodexTruncate, CodexWrite, CodexReject,
         CodexInput, CodexOpen, CodexEvent, CodexItem, CodexEnd, CodexThrow, CodexStop,
         callerVars, AttemptsGrow, AttemptsOK
<1>3. CASE CodexStart(t)
  BY <1>2, <1>3, QuietStep DEF CodexStart, MayStart, Goto, callerVars, Before
<1>4. CASE CodexExists(t)
  BY <1>2, <1>4, QuietStep DEF CodexExists, Goto, callerVars, Before
<1>5. CASE CodexRead(t) \/ CodexTruncate(t) \/ CodexWrite(t)
  BY <1>2, <1>5, QuietStep DEF CodexRead, CodexTruncate, CodexWrite, Goto, callerVars, Before
<1>6. CASE CodexReject(t)
  BY <1>2, <1>6, QuietStep DEF CodexReject, Goto, callerVars, Before
<1>7. CASE CodexInput(t)
  BY <1>2, <1>7, InputStep DEF CodexInput, Goto, callerVars, Before, After
<1>8. CASE CodexOpen(t)
  <2>1. /\ loop[t] = "running" /\ stopped' = stopped
        /\ \/ loop' = [loop EXCEPT ![t] = "streaming"] /\ UNCHANGED queueVars
           \/ /\ loop' = [loop EXCEPT ![t] = "ended"]
              /\ Emit(t, <<Event("task.failed", 0, 0)>>, TRUE)
    BY <1>8 DEF CodexOpen, Goto, Finish, Plain, callerVars
  <2>2. CASE UNCHANGED queueVars /\ loop' = [loop EXCEPT ![t] = "streaming"]
    BY <1>2, <2>1, <2>2, QuietStep DEF After, Handled
  <2>3. CASE /\ loop' = [loop EXCEPT ![t] = "ended"]
             /\ Emit(t, <<Event("task.failed", 0, 0)>>, TRUE)
    BY <1>2, <2>1, <2>3, PlainStep DEF Handled, After, PlainTypes, EventTypes, CallTypes
  <2>4. QED  BY <2>1, <2>2, <2>3
<1>9. CASE CodexEvent(t)
  <2>1. /\ loop[t] = "streaming" /\ loop' = loop /\ stopped' = stopped
        /\ \E type \in {"model.output.delta", "task.failed"} :
              Emit(t, <<Event(type, 0, 0)>>, FALSE)
    BY <1>9 DEF CodexEvent, MayProduce, Push, Plain, callerVars
  <2>2. QED
    BY <1>1, <1>2, <2>1, PlainStep DEF Handled, After, PlainTypes, EventTypes, CallTypes
<1>10. CASE CodexItem(t)
  <2>1. PICK c \in Calls, finished \in BOOLEAN :
           LET types == Opening(t, c) \o IF finished THEN <<"tool.call.completed">> ELSE << >>
           IN  /\ MayProduce(t, Len(types))
               /\ Push(t, [i \in 1 .. Len(types) |-> Event(types[i], c, 1)])
    BY <1>10 DEF CodexItem
  <2> DEFINE types == Opening(t, c) \o IF finished THEN <<"tool.call.completed">> ELSE << >>
  <2>2. types \in Seq(CallTypes)
    <3>1. Opening(t, c) \in Seq(CallTypes)
      <4>1. CASE items[t][c] = "none"
        BY <4>1 DEF Opening, CallTypes
      <4>2. CASE items[t][c] # "none"
        BY <4>2 DEF Opening
      <4>3. QED  BY <4>1, <4>2
    <3>2. <<"tool.call.completed">> \in Seq(CallTypes) /\ << >> \in Seq(CallTypes)
      BY DEF CallTypes
    <3>3. (IF finished THEN <<"tool.call.completed">> ELSE << >>) \in Seq(CallTypes)
      <4>1. CASE finished
        BY <3>2, <4>1
      <4>2. CASE ~finished
        BY <3>2, <4>2
      <4>3. QED  BY <4>1, <4>2
    <3>4. QED  BY <3>1, <3>3, ConcatProperties
  <2>3. /\ loop[t] = "streaming" /\ UNCHANGED <<loop, stopped>>
        /\ Push(t, [i \in 1 .. Len(types) |-> Event(types[i], c, 1)])
    BY <1>10, <2>1 DEF CodexItem, MayProduce, callerVars
  <2> HIDE DEF types
  <2>4. Fresh([i \in 1 .. Len(types) |-> Event(types[i], c, 1)]) /\ ToolStep(t)
    BY <1>10 DEF Fresh, ToolStep
  <2>5. QED  BY <1>2, <2>2, <2>3, <2>4, CallStep
<1>11. CASE CodexEnd(t)
  <2>1. /\ loop[t] = "streaming" /\ loop' = [loop EXCEPT ![t] = "ended"] /\ stopped' = stopped
        /\ Emit(t, << >>, TRUE)
    BY <1>11 DEF CodexEnd, Goto, Close, callerVars
  <2>2. QED  BY <1>2, <2>1, CloseStep DEF Handled, After
<1>12. CASE CodexThrow(t)
  <2>1. /\ loop[t] = "streaming" /\ loop' = [loop EXCEPT ![t] = "ended"] /\ stopped' = stopped
        /\ Emit(t, <<Event("task.failed", 0, 0)>>, TRUE)
    BY <1>12 DEF CodexThrow, Goto, Finish, Plain, callerVars
  <2>2. QED
    BY <1>2, <2>1, PlainStep DEF Handled, After, PlainTypes, EventTypes, CallTypes
<1>13. CASE CodexStop(t)
  <2>1. /\ HasHandle(t) /\ loop' = loop /\ stopped' = [stopped EXCEPT ![t] = TRUE]
        /\ Emit(t, << >>, TRUE)
    BY <1>13 DEF CodexStop, MayStop, Close
  <2>2. loop[t] \in Handled /\ loop[t] \in After
    BY <2>1 DEF HasHandle, Handled, After
  <2>3. QED  BY <1>1, <1>2, <2>1, <2>2, CloseStep
<1>14. QED
  BY <1>3, <1>4, <1>5, <1>6, <1>7, <1>8, <1>9, <1>10, <1>11, <1>12, <1>13

-----------------------------------------------------------------------------
(* OpenCode                                                                *)

OpencodeTypeOK ==
    /\ mcp \in {"absent", "added", "connected", "refused"}
    /\ toolState \in [Tasks -> [Calls -> {"none", "requested", "running", "completed"}]]
    /\ attemptOf \in [Tasks -> [Calls -> Nat]]
    /\ counted \in [Tasks -> SUBSET Messages]
    /\ usage \in [Tasks -> Nat]
    /\ spoken \in [Tasks -> BOOLEAN]
    /\ aborting \in [Tasks -> BOOLEAN]
    /\ \A t \in Tasks : aborting[t] => stopped[t]

\* What handleToolPart emits: kinds of call events, of which only the first
\* can be a request.
PartTypes(isNew, before, state) ==
    (IF isNew THEN <<"tool.call.requested">> ELSE << >>) \o ToolEvents(before, state)

\* Only a part's first event can be a request, and only when the call is new.
LEMMA PartTypesAre ==
    ASSUME NEW isNew \in BOOLEAN, NEW before, NEW state
    PROVE  /\ PartTypes(isNew, before, state) \in Seq(CallTypes)
           /\ \A i \in 1 .. Len(PartTypes(isNew, before, state)) :
                PartTypes(isNew, before, state)[i] = "tool.call.requested" => i = 1 /\ isNew
<1> DEFINE head == IF isNew THEN <<"tool.call.requested">> ELSE << >>
           rest == ToolEvents(before, state)
<1>1. /\ rest \in Seq(CallTypes)
      /\ \A i \in 1 .. Len(rest) : rest[i] # "tool.call.requested"
  <2>1. rest \in {<<"tool.call.approved", "tool.call.started">>, <<"tool.call.completed">>, << >>}
    BY DEF ToolEvents
  <2> HIDE DEF rest
  <2>2. CASE rest = <<"tool.call.approved", "tool.call.started">>
    BY <2>2 DEF CallTypes
  <2>3. CASE rest = <<"tool.call.completed">>
    BY <2>3 DEF CallTypes
  <2>4. CASE rest = << >>
    BY <2>4 DEF CallTypes
  <2>5. QED  BY <2>1, <2>2, <2>3, <2>4
<1>2. head \in Seq(CallTypes) /\ Len(head) = IF isNew THEN 1 ELSE 0
  <2>1. CASE isNew
    BY <2>1 DEF CallTypes
  <2>2. CASE ~isNew
    BY <2>2 DEF CallTypes
  <2>3. QED  BY <2>1, <2>2
<1> HIDE DEF head, rest
<1>3. /\ head \o rest \in Seq(CallTypes)
      /\ Len(head \o rest) = Len(head) + Len(rest)
      /\ \A i \in 1 .. Len(head) + Len(rest) :
           (head \o rest)[i] = IF i <= Len(head) THEN head[i] ELSE rest[i - Len(head)]
  BY <1>1, <1>2, ConcatProperties
<1>4. Len(head) \in Nat /\ Len(rest) \in Nat
  BY <1>1, <1>2
<1>5. ASSUME NEW i \in 1 .. Len(head \o rest), (head \o rest)[i] = "tool.call.requested"
      PROVE  i = 1 /\ isNew
  <2>1. CASE i <= Len(head)
    BY <1>2, <2>1
  <2>2. CASE i > Len(head)
    <3>1. i - Len(head) \in 1 .. Len(rest) /\ (head \o rest)[i] = rest[i - Len(head)]
      BY <1>3, <1>4, <2>2
    <3>2. QED  BY <1>1, <1>5, <3>1
  <2>3. QED  BY <1>4, <2>1, <2>2
<1>6. PartTypes(isNew, before, state) = head \o rest
  BY DEF PartTypes, head, rest
<1>7. QED  BY <1>3, <1>5, <1>6

\* A step of handleToolPart.
LEMMA ToolPartStep ==
    ASSUME StreamInv, AttemptsOK, OpencodeTypeOK, NEW t \in Tasks, OpencodeToolPart(t),
           adapter = "opencode"
    PROVE  Stepped(t)
<1>1. PICK c \in Calls, state \in {"pending", "running", "completed"} :
         LET isNew  == IsNewAttempt(t, c)
             n      == IF isNew THEN attempts[c] + 1 ELSE attemptOf[t][c]
             before == IF isNew THEN "requested" ELSE toolState[t][c]
             types  == PartTypes(isNew, before, state)
         IN  /\ MayProduce(t, Len(types))
             /\ attempts' = [attempts EXCEPT ![c] = IF isNew THEN n ELSE attempts[c]]
             /\ Push(t, [i \in 1 .. Len(types) |-> Event(types[i], c, n)])
  BY DEF OpencodeToolPart, PartTypes
<1> DEFINE isNew  == IsNewAttempt(t, c)
           n      == IF isNew THEN attempts[c] + 1 ELSE attemptOf[t][c]
           before == IF isNew THEN "requested" ELSE toolState[t][c]
           types  == PartTypes(isNew, before, state)
           events == [i \in 1 .. Len(types) |-> Event(types[i], c, n)]
<1>2. /\ loop[t] = "streaming" /\ UNCHANGED <<adapter, sessionOf, stopped, loop>>
      /\ attempts' = [attempts EXCEPT ![c] = IF isNew THEN n ELSE attempts[c]]
      /\ Push(t, events)
  BY <1>1 DEF OpencodeToolPart, MayProduce, callerVars
<1>3. n \in Nat /\ isNew \in BOOLEAN
  BY DEF AttemptsOK, OpencodeTypeOK, IsNewAttempt
<1>4. /\ types \in Seq(CallTypes)
      /\ \A i \in 1 .. Len(types) : types[i] = "tool.call.requested" => i = 1 /\ isNew
  BY <1>3, PartTypesAre
<1>5. isNew => n = attempts[c] + 1
  OBVIOUS
<1> HIDE DEF isNew, n, types
<1>6. Fresh(events)
  <2>1. \A d \in Calls : attempts'[d] >= attempts[d]
    BY <1>2, <1>3, <1>5 DEF AttemptsOK
  <2>2. /\ Len(events) = Len(types)
        /\ \A i \in 1 .. Len(events) : events[i] = Event(types[i], c, n)
    BY <1>3, <1>4, CallEvents
  <2> HIDE DEF events
  <2>3. ASSUME NEW i \in 1 .. Len(events), events[i].type = "tool.call.requested"
        PROVE  /\ i = 1
               /\ events[i].n = attempts[events[i].id] + 1
               /\ attempts'[events[i].id] = events[i].n
    <3>1. types[i] = "tool.call.requested" /\ events[i].id = c /\ events[i].n = n
      <4>1. events[i] = [type |-> types[i], id |-> c, n |-> n]
        BY <2>2 DEF Event
      <4>2. QED  BY ONLY <2>3, <4>1
    <3>2. i = 1 /\ isNew
      BY <1>4, <2>2, <3>1
    <3>3. attempts'[c] = n
      BY <1>2, <3>2 DEF AttemptsOK
    <3>4. QED  BY <1>5, <3>1, <3>2, <3>3
  <2>4. QED  BY <2>1, <2>3 DEF Fresh
<1>7. ToolStep(t)
  BY DEF ToolStep
<1>8. QED  BY <1>2, <1>3, <1>4, <1>6, <1>7, CallStep

\* Whatever the OpenCode adapter may do for task t.
OpencodeStep(t) ==
    \/ OpencodeStart(t) \/ OpencodeReject(t) \/ OpencodeMcpStatus(t)
    \/ OpencodeMcpAdd(t) \/ OpencodeMcpConnect(t) \/ OpencodeNoTools(t)
    \/ OpencodeCapture(t) \/ OpencodeOpen(t) \/ OpencodeText(t)
    \/ OpencodeToolPart(t) \/ OpencodeMessage(t) \/ OpencodeFail(t)
    \/ OpencodeEnd(t) \/ OpencodeStop(t) \/ OpencodeAborted(t)

\* The steps of an OpenCode task.
LEMMA OpencodeSteps ==
    ASSUME StreamInv, NEW t \in Tasks, AttemptsOK, OpencodeTypeOK,
           OpencodeStep(t), adapter = "opencode"
    PROVE  Stepped(t)
<1> USE DEF OpencodeStep
<1>1. loop[t] \in Before \cup After \cup {"rejected"} /\ loop = [loop EXCEPT ![t] = loop[t]]
  BY DEF StreamInv, StreamTypeOK
<1>2. CASE OpencodeToolPart(t)
  BY <1>2, ToolPartStep
<1>3. CASE ~OpencodeToolPart(t)
  <2>1. UNCHANGED <<attempts, adapter, sessionOf>> /\ AttemptsGrow
    BY <1>3 DEF OpencodeStart, OpencodeReject, OpencodeMcpStatus, OpencodeMcpAdd,
           OpencodeMcpConnect, OpencodeNoTools, OpencodeCapture, OpencodeOpen, OpencodeText,
           OpencodeMessage, OpencodeFail, OpencodeEnd, OpencodeStop, OpencodeAborted,
           callerVars, AttemptsGrow, AttemptsOK
  <2>2. CASE OpencodeStart(t)
    BY <2>1, <2>2, QuietStep DEF OpencodeStart, MayStart, Goto, callerVars, Before
  <2>3. CASE OpencodeReject(t)
    BY <2>1, <2>3, QuietStep
       DEF OpencodeReject, Goto, callerVars, Before, After, Handled
  <2>4. CASE OpencodeMcpStatus(t)
    <3>1. /\ loop[t] = "starting" /\ UNCHANGED <<queueVars, stopped>>
          /\ \E next \in {"adding", "connecting"} : loop' = [loop EXCEPT ![t] = next]
      BY <2>4 DEF OpencodeMcpStatus, AfterStatus, Goto, callerVars
    <3>2. PICK next \in {"adding", "connecting"} : loop' = [loop EXCEPT ![t] = next]
      BY <3>1
    <3>3. /\ loop[t] \in Before /\ next \in Before
          /\ UNCHANGED <<adapter, sessionOf, stopped, queueVars>>
      BY <2>1, <3>1 DEF Before
    <3>4. QED  BY <2>1, <3>2, <3>3, QuietStep
  <2>5. CASE OpencodeMcpAdd(t) \/ OpencodeMcpConnect(t)
    BY <2>1, <2>5, QuietStep DEF OpencodeMcpAdd, OpencodeMcpConnect, Goto, callerVars, Before
  <2>6. CASE OpencodeNoTools(t) \/ OpencodeCapture(t)
    BY <2>1, <2>6, InputStep DEF OpencodeNoTools, OpencodeCapture, Goto, callerVars, Before, After
  <2>7. CASE OpencodeOpen(t)
    BY <2>1, <2>7, QuietStep DEF OpencodeOpen, Goto, callerVars, After, Handled
  <2>8. CASE OpencodeText(t)
    <3>1. /\ loop[t] = "streaming" /\ loop' = loop /\ stopped' = stopped
          /\ Emit(t, <<Event("model.output.delta", 0, 0)>>, FALSE)
      BY <2>8 DEF OpencodeText, MayProduce, Push, Plain, callerVars
    <3>2. QED
      BY <1>1, <2>1, <3>1, PlainStep
         DEF Handled, After, PlainTypes, EventTypes, CallTypes, Terminal
  <2>9. CASE OpencodeMessage(t)
    <3>1. PICK m \in Messages, toolCalls \in BOOLEAN, error \in BOOLEAN :
             LET said == IF spoken[t] /\ ~toolCalls
                         THEN <<Plain("model.output.completed")>> ELSE << >>
                 last == IF error THEN Plain("task.failed")
                         ELSE Event("usage.reported", 0, usage[t] + 1)
             IN  IF toolCalls /\ ~error
                 THEN UNCHANGED <<loop, queueVars>>
                 ELSE Goto(t, "ended") /\ Finish(t, Append(said, last))
      BY <2>9 DEF OpencodeMessage
    <3>2. loop[t] = "streaming" /\ stopped' = stopped
      BY <2>9 DEF OpencodeMessage, MayProduce, callerVars
    <3>3. CASE toolCalls /\ ~error
      BY <1>1, <2>1, <3>1, <3>2, <3>3, QuietStep
    <3>4. CASE ~(toolCalls /\ ~error)
      <4> DEFINE said == IF spoken[t] /\ ~toolCalls
                         THEN <<Plain("model.output.completed")>> ELSE << >>
                 last == IF error THEN Plain("task.failed")
                         ELSE Event("usage.reported", 0, usage[t] + 1)
                 events == Append(said, last)
      <4>1. loop' = [loop EXCEPT ![t] = "ended"] /\ Emit(t, events, TRUE)
        BY <3>1, <3>4 DEF Goto, Finish
      <4>2. last \in SentEvents /\ last.type \in {"task.failed", "usage.reported"}
        BY DEF SentEvents, Plain, Event, PlainTypes, EventTypes, CallTypes, OpencodeTypeOK
      <4>3. /\ said \in Seq(SentEvents) /\ Len(said) \in {0, 1}
            /\ \A i \in 1 .. Len(said) : said[i].type = "model.output.completed"
        <5>1. Plain("model.output.completed") \in SentEvents
          BY DEF SentEvents, Plain, Event, PlainTypes, EventTypes, CallTypes
        <5>2. CASE spoken[t] /\ ~toolCalls
          <6>1. said = <<Plain("model.output.completed")>>
            BY <5>2
          <6>2. QED  BY <5>1, <6>1 DEF Plain, Event
        <5>3. CASE ~(spoken[t] /\ ~toolCalls)
          <6>1. said = << >>
            BY <5>3
          <6>2. QED  BY <6>1
        <5>4. QED  BY <5>2, <5>3
      <4> HIDE DEF said, last
      <4>4. /\ events \in Seq(SentEvents) /\ Len(events) = Len(said) + 1
            /\ events[Len(said) + 1] = last
            /\ \A i \in 1 .. Len(said) : events[i] = said[i]
        BY <4>2, <4>3, AppendProperties
      <4> HIDE DEF events
      <4>5. \A i \in 1 .. Len(events) :
               /\ events[i].type \in {"model.output.completed", "task.failed", "usage.reported"}
               /\ events[i].type \in Terminal => i = Len(events)
        BY <4>2, <4>3, <4>4 DEF Terminal
      <4>6. Ending(events, TRUE) /\ Fresh(events)
        BY <2>1, <4>5 DEF Ending, Fresh, AttemptsGrow
      <4>7. (\A i \in 1 .. Len(events) : events[i].type # "model.input") /\ Tells(t, events)
        BY <4>5 DEF Tells, CallTypes
      <4>8. QED
        BY <2>1, <3>2, <4>1, <4>4, <4>6, <4>7, SayStep DEF After, Handled
    <3>5. QED  BY <3>3, <3>4
  <2>10. CASE OpencodeFail(t)
    <3>1. /\ loop[t] = "streaming" /\ loop' = [loop EXCEPT ![t] = "ended"]
          /\ stopped' = stopped /\ Emit(t, <<Event("task.failed", 0, 0)>>, TRUE)
      BY <2>10 DEF OpencodeFail, Goto, Finish, Plain, callerVars
    <3>2. QED
      BY <2>1, <3>1, PlainStep DEF Handled, After, PlainTypes, EventTypes, CallTypes
  <2>11. CASE OpencodeEnd(t)
    <3>1. /\ loop[t] = "streaming" /\ loop' = [loop EXCEPT ![t] = "ended"]
          /\ stopped' = stopped /\ Emit(t, << >>, TRUE)
      BY <2>11 DEF OpencodeEnd, Goto, Close, callerVars
    <3>2. QED  BY <2>1, <3>1, CloseStep DEF Handled, After
  <2>12. CASE OpencodeStop(t)
    <3>1. /\ HasHandle(t) /\ UNCHANGED <<loop, queueVars>>
          /\ stopped' = [stopped EXCEPT ![t] = TRUE]
      BY <2>12 DEF OpencodeStop, MayStop
    <3>2. loop[t] \in Handled /\ loop[t] \in After
      BY <3>1 DEF HasHandle, Handled, After
    <3>3. Emit(t, << >>, FALSE)
      <4>1. queue[t] \o << >> = queue[t]
        BY ConcatEmptySeq DEF StreamInv, StreamTypeOK
      <4>2. QED  BY <3>1, <4>1 DEF Emit, queueVars, StreamInv, StreamTypeOK
    <3>4. QED  BY <1>1, <2>1, <3>1, <3>2, <3>3, CloseStep
  <2>13. CASE OpencodeAborted(t)
    <3>1. /\ loop' = loop /\ stopped' = stopped /\ stopped[t] /\ Emit(t, << >>, TRUE)
      BY <2>13 DEF OpencodeAborted, Close, callerVars, OpencodeTypeOK
    <3>2. loop[t] \in Handled /\ loop[t] \in After
      BY <3>1 DEF StreamInv, StreamShape, Handled, After
    <3>3. QED  BY <1>1, <2>1, <3>1, <3>2, CloseStep
  <2>14. QED
    BY <1>3, <2>2, <2>3, <2>4, <2>5, <2>6, <2>7, <2>8, <2>9, <2>10, <2>11, <2>12, <2>13
<1>4. QED  BY <1>2, <1>3

-----------------------------------------------------------------------------
(* Gemini                                                                  *)

CallIds == [id : Calls, n : Nat]

GeminiTypeOK ==
    /\ procEnv \in Sessions \cup {Base}
    /\ saved \in [Holders -> Sessions \cup {Base}]
    /\ clients \subseteq Sessions
    /\ creating \in [Sessions -> {"no", "auth", "init"}]
    /\ toolIds \in [Tasks -> Seq(CallIds)]
    /\ pending \in [Tasks -> SUBSET Answers]
    /\ buffered \in [Tasks -> BOOLEAN]
    /\ halted \in [Tasks -> BOOLEAN]

\* A step that ends the loop with at most one event.
LEMMA LeaveStep ==
    ASSUME StreamInv, NEW t \in Tasks, loop[t] \in {"streaming", "tools"},
           UNCHANGED <<adapter, sessionOf, stopped, attempts>>, AttemptsOK,
           \/ Leave(t, << >>)
           \/ Leave(t, <<Plain("task.failed")>>)
           \/ Leave(t, <<Plain("task.stopped")>>)
    PROVE  Stepped(t)
<1>1. loop' = [loop EXCEPT ![t] = "ended"]
  BY DEF Leave, Goto
<1>2. AttemptsGrow /\ loop[t] \in After
  BY DEF AttemptsGrow, AttemptsOK, After
<1>3. CASE Leave(t, << >>)
  <2>1. Emit(t, << >>, TRUE)
    BY <1>3 DEF Leave, Finish
  <2>2. QED  BY <1>1, <1>2, <2>1, CloseStep DEF Handled
<1>4. ASSUME NEW type \in {"task.failed", "task.stopped"}, Leave(t, <<Plain(type)>>)
      PROVE  Stepped(t)
  <2>1. Emit(t, <<Event(type, 0, 0)>>, TRUE)
    BY <1>4 DEF Leave, Finish, Plain
  <2>2. QED
    BY <1>1, <1>2, <2>1, PlainStep DEF Handled, PlainTypes, EventTypes, CallTypes
<1>5. QED  BY <1>3, <1>4

\* Whatever the Gemini adapter may do for task t.
GeminiStep(t) ==
    \/ GeminiStart(t) \/ GeminiEnter(t) \/ GeminiInitBegin(t)
    \/ GeminiInitDone(t) \/ GeminiInitFail(t) \/ GeminiReject(t) \/ GeminiOpen(t)
    \/ GeminiText(t) \/ GeminiToolCall(t) \/ GeminiError(t)
    \/ GeminiTurnDone(t) \/ GeminiNextTurn(t) \/ GeminiThrow(t)
    \/ GeminiAnswer(t) \/ GeminiStop(t)

\* The steps of a Gemini task.
LEMMA GeminiSteps ==
    ASSUME StreamInv, NEW t \in Tasks, AttemptsOK,
           GeminiStep(t), adapter = "gemini"
    PROVE  Stepped(t)
<1> USE DEF GeminiStep
<1>1. loop[t] \in Before \cup After \cup {"rejected"} /\ loop = [loop EXCEPT ![t] = loop[t]]
  BY DEF StreamInv, StreamTypeOK
<1>2. CASE GeminiToolCall(t)
  <2>1. PICK c \in Calls :
           /\ attempts' = [attempts EXCEPT ![c] = attempts[c] + 1]
           /\ Push(t, <<Event("tool.call.requested", c, attempts[c] + 1)>>)
    BY <1>2 DEF GeminiToolCall, NextAttempt
  <2>2. /\ loop[t] = "streaming" /\ UNCHANGED <<adapter, sessionOf, stopped, loop>>
    BY <1>2 DEF GeminiToolCall, MayProduce, callerVars
  <2> DEFINE n == attempts[c] + 1
             events == <<Event("tool.call.requested", c, n)>>
  <2>3. n \in Nat /\ attempts'[c] = n /\ n > attempts[c]
    BY <2>1 DEF AttemptsOK
  <2>4. \A d \in Calls : attempts'[d] >= attempts[d]
    BY <2>1 DEF AttemptsOK
  <2> HIDE DEF n
  <2>5. /\ events \in Seq(SentEvents) /\ Len(events) = 1
        /\ events[1].type = "tool.call.requested" /\ events[1].id = c /\ events[1].n = n
    BY <2>3 DEF Event, SentEvents, CallTypes
  <2>6. Emit(t, events, FALSE)
    BY <2>1 DEF Push, n
  <2> HIDE DEF events
  <2>7. Ending(events, FALSE)
    BY <2>5 DEF Ending, Terminal
  <2>8. Fresh(events)
    <3>1. \A i \in 1 .. Len(events) : i = 1
      BY <2>5
    <3>2. events[1].n = attempts[events[1].id] + 1 /\ attempts'[events[1].id] = events[1].n
      BY <2>3, <2>5 DEF n
    <3>3. QED  BY <2>4, <3>1, <3>2 DEF Fresh
  <2>9. (\A i \in 1 .. Len(events) : events[i].type # "model.input") /\ Tells(t, events)
    BY <1>2, <2>5 DEF Tells, ToolStep
  <2>10. QED
    BY <1>1, <2>2, <2>5, <2>6, <2>7, <2>8, <2>9, SayStep DEF After, Handled
<1>3. CASE ~GeminiToolCall(t)
  <2>1. UNCHANGED <<attempts, adapter, sessionOf>> /\ AttemptsGrow
    BY <1>3 DEF GeminiStart, GeminiEnter, GeminiInitBegin, GeminiInitDone, GeminiInitFail,
                GeminiReject,
           GeminiOpen, GeminiText, GeminiError, GeminiTurnDone, GeminiNextTurn, GeminiThrow,
           GeminiAnswer, GeminiStop, callerVars, AttemptsGrow, AttemptsOK
  <2>2. CASE GeminiStart(t)
    BY <2>1, <2>2, QuietStep DEF GeminiStart, MayStart, Goto, callerVars, Before
  <2>3. CASE GeminiEnter(t)
    <3>1. /\ loop[t] = "starting" /\ stopped' = stopped /\ Push(t, <<Plain("model.input")>>)
          /\ \/ loop' = [loop EXCEPT ![t] = "joining"]
             \/ loop' = [loop EXCEPT ![t] = "auth"]
      BY <2>3 DEF GeminiEnter, Goto, callerVars
    <3>2. "joining" \in After /\ "auth" \in After /\ loop[t] \in Before
      BY <3>1 DEF After, Before
    <3>3. QED  BY <2>1, <3>1, <3>2, InputStep
  <2>4. CASE GeminiInitBegin(t) \/ GeminiInitDone(t) \/ GeminiOpen(t)
    <3>1. /\ UNCHANGED <<stopped, queueVars>>
          /\ \E to \in {"init", "joining", "streaming"} : loop' = [loop EXCEPT ![t] = to]
          /\ loop[t] \in {"auth", "init", "joining"}
      BY <2>4 DEF GeminiInitBegin, GeminiInitDone, GeminiOpen, Goto, callerVars
    <3>2. PICK to \in {"init", "joining", "streaming"} : loop' = [loop EXCEPT ![t] = to]
      BY <3>1
    <3>3. to \in After /\ loop[t] \in After /\ loop[t] \notin Handled
      BY <3>1 DEF After, Handled
    <3>4. QED  BY <2>1, <3>1, <3>2, <3>3, QuietStep
  <2>5. CASE GeminiInitFail(t) \/ GeminiReject(t)
    BY <2>1, <2>5, QuietStep
       DEF GeminiInitFail, GeminiReject, Goto, callerVars, Before, After, Handled
  <2>6. CASE GeminiText(t)
    <3>1. loop[t] = "streaming" /\ loop' = loop /\ stopped' = stopped
      BY <2>6 DEF GeminiText, MayProduce, callerVars
    <3>2. CASE Push(t, <<Plain("model.output.delta")>>)
      <4>1. Emit(t, <<Event("model.output.delta", 0, 0)>>, FALSE)
        BY <3>2 DEF Push, Plain
      <4>2. QED
        BY <1>1, <2>1, <3>1, <4>1, PlainStep
           DEF Handled, After, PlainTypes, EventTypes, CallTypes, Terminal
    <3>3. CASE Push(t, (IF buffered[t] THEN <<Plain("model.output.completed")>> ELSE << >>)
                         \o <<Plain("usage.reported")>>)
      <4> DEFINE said == IF buffered[t] THEN <<Plain("model.output.completed")>> ELSE << >>
                 last == Plain("usage.reported")
                 events == said \o <<last>>
      <4>1. Emit(t, events, FALSE)
        BY <3>3 DEF Push
      <4>2. last \in SentEvents /\ last.type = "usage.reported"
        BY DEF SentEvents, Plain, Event, PlainTypes, EventTypes, CallTypes
      <4>3. /\ said \in Seq(SentEvents) /\ Len(said) \in {0, 1}
            /\ \A i \in 1 .. Len(said) : said[i].type = "model.output.completed"
        <5>1. Plain("model.output.completed") \in SentEvents
          BY DEF SentEvents, Plain, Event, PlainTypes, EventTypes, CallTypes
        <5>2. CASE buffered[t]
          <6>1. said = <<Plain("model.output.completed")>>
            BY <5>2
          <6>2. QED  BY <5>1, <6>1 DEF Plain, Event
        <5>3. CASE ~buffered[t]
          <6>1. said = << >>
            BY <5>3
          <6>2. QED  BY <6>1
        <5>4. QED  BY <5>2, <5>3
      <4> HIDE DEF said, last
      <4>4. /\ events \in Seq(SentEvents) /\ Len(events) = Len(said) + 1
            /\ events[Len(said) + 1] = last
            /\ \A i \in 1 .. Len(said) : events[i] = said[i]
        <5>1. <<last>> \in Seq(SentEvents) /\ Len(<<last>>) = 1 /\ <<last>>[1] = last
          BY <4>2
        <5>2. QED  BY <4>3, <5>1, ConcatProperties
      <4> HIDE DEF events
      <4>5. \A i \in 1 .. Len(events) :
               events[i].type \in {"model.output.completed", "usage.reported"}
        BY <4>2, <4>3, <4>4
      <4>6. Ending(events, FALSE) /\ Fresh(events)
        BY <2>1, <4>5 DEF Ending, Fresh, AttemptsGrow, Terminal
      <4>7. (\A i \in 1 .. Len(events) : events[i].type # "model.input") /\ Tells(t, events)
        BY <4>5 DEF Tells, CallTypes
      <4>8. QED
        BY <1>1, <2>1, <3>1, <4>1, <4>4, <4>6, <4>7, SayStep DEF After, Handled
    <3>4. QED  BY <2>6, <3>2, <3>3 DEF GeminiText
  <2>7. CASE GeminiError(t)
    <3>1. /\ loop[t] \in {"streaming", "tools"} /\ stopped' = stopped
          /\ \/ Leave(t, <<Plain("task.failed")>>)
             \/ Leave(t, <<Plain("task.stopped")>>)
      BY <2>7 DEF GeminiError, callerVars
    <3>2. QED  BY <2>1, <3>1, LeaveStep
  <2>8. CASE GeminiTurnDone(t)
    <3>1. /\ loop[t] = "streaming" /\ stopped' = stopped
          /\ \/ Leave(t, << >>)
             \/ loop' = [loop EXCEPT ![t] = "tools"] /\ UNCHANGED queueVars
      BY <2>8 DEF GeminiTurnDone, Goto, callerVars
    <3>2. CASE Leave(t, << >>)
      BY <2>1, <3>1, <3>2, LeaveStep
    <3>3. CASE loop' = [loop EXCEPT ![t] = "tools"] /\ UNCHANGED queueVars
      BY <2>1, <3>1, <3>3, QuietStep DEF After, Handled
    <3>4. QED  BY <3>1, <3>2, <3>3
  <2>9. CASE GeminiNextTurn(t)
    <3>1. /\ loop[t] = "tools" /\ stopped' = stopped
          /\ \/ Leave(t, << >>)
             \/ loop' = [loop EXCEPT ![t] = "streaming"] /\ UNCHANGED queueVars
      BY <2>9 DEF GeminiNextTurn, Goto, callerVars
    <3>2. CASE Leave(t, << >>)
      BY <2>1, <3>1, <3>2, LeaveStep
    <3>3. CASE loop' = [loop EXCEPT ![t] = "streaming"] /\ UNCHANGED queueVars
      BY <2>1, <3>1, <3>3, QuietStep DEF After, Handled
    <3>4. QED  BY <3>1, <3>2, <3>3
  <2>10. CASE GeminiThrow(t)
    <3>1. /\ loop[t] \in {"streaming", "tools"} /\ stopped' = stopped
          /\ Leave(t, <<Plain("task.failed")>>)
      BY <2>10 DEF GeminiThrow, callerVars
    <3>2. QED  BY <2>1, <3>1, LeaveStep
  <2>11. CASE GeminiAnswer(t)
    BY <1>1, <2>1, <2>11, QuietStep DEF GeminiAnswer
  <2>12. CASE GeminiStop(t)
    <3>1. /\ HasHandle(t) /\ loop' = loop /\ stopped' = [stopped EXCEPT ![t] = TRUE]
          /\ Emit(t, << >>, TRUE)
      BY <2>12 DEF GeminiStop, MayStop, Close
    <3>2. loop[t] \in Handled /\ loop[t] \in After
      BY <3>1 DEF HasHandle, Handled, After
    <3>3. QED  BY <1>1, <2>1, <3>1, <3>2, CloseStep
  <2>13. QED
    BY <1>3, <2>2, <2>3, <2>4, <2>5, <2>6, <2>7, <2>8, <2>9, <2>10, <2>11, <2>12
<1>4. QED  BY <1>2, <1>3

-----------------------------------------------------------------------------
(* What the adapters keep of their own                                     *)

AttemptsBounded == attempts \in [Calls -> 0 .. MaxAttempts]

\* Claude's handlers and output.
LEMMA ClaudeTypes ==
    ASSUME StreamInv, AnsweredOK, ClaudeTypeOK, NEW t \in Tasks,
           ClaudeStep(t)
    PROVE  ClaudeTypeOK' /\ AnsweredOK' /\ UNCHANGED attempts
<1> USE DEF ClaudeStep
<1>1. CASE ClaudeToolCall(t)
  BY <1>1 DEF ClaudeToolCall, ClaudeTypeOK, AnsweredOK, callerVars, Waiting
<1>2. CASE ClaudeAnswer(t)
  <2>1. PICK e \in Unanswered(t), verdict \in {"result", "denied"} :
           /\ Answer(t, e, verdict)
           /\ handler' = [u \in Tasks |->
                            IF u \in PendingFor(t, e.id)
                            THEN [handler[u] EXCEPT
                                    ![e.id] = [task |-> t, verdict |-> verdict]]
                            ELSE handler[u]]
    BY <1>2 DEF ClaudeAnswer
  <2>2. handler' \in [Tasks -> [Calls -> [task : Tasks \cup {0},
                                       verdict : {"none", "waiting", "result", "denied"}]]]
    BY <2>1 DEF ClaudeTypeOK
  <2>3. QED  BY <1>2, <2>1, <2>2, AnswerType DEF ClaudeAnswer, ClaudeTypeOK
<1>3. CASE ClaudeMessage(t)
  BY <1>3 DEF ClaudeMessage, ClaudeTypeOK, AnsweredOK, callerVars
<1>4. CASE \/ ClaudeStart(t) \/ ClaudeOpen(t) \/ ClaudeReject(t) \/ ClaudeEnd(t)
           \/ ClaudeThrow(t) \/ ClaudeStop(t)
  BY <1>4 DEF ClaudeStart, ClaudeOpen, ClaudeReject, ClaudeEnd, ClaudeThrow, ClaudeStop,
              claudeVars,
              ClaudeTypeOK, AnsweredOK, callerVars
<1>5. QED  BY <1>1, <1>2, <1>3, <1>4

\* Codex's items.
LEMMA CodexTypes ==
    ASSUME CodexTypeOK, AnsweredOK, NEW t \in Tasks,
           CodexStep(t)
    PROVE  CodexTypeOK' /\ AnsweredOK' /\ UNCHANGED attempts
<1> USE DEF CodexStep
<1>1. CASE CodexItem(t)
  BY <1>1 DEF CodexItem, CodexTypeOK, AnsweredOK, callerVars
<1>2. CASE ~CodexItem(t)
  BY <1>2 DEF CodexStart, CodexExists, CodexRead, CodexTruncate, CodexWrite, CodexReject,
     CodexInput, CodexOpen, CodexEvent, CodexEnd, CodexThrow, CodexStop, codexVars,
     CodexTypeOK, AnsweredOK, callerVars
<1>3. QED  BY <1>1, <1>2

\* OpenCode's calls, messages and MCP entry.
LEMMA OpencodeTypes ==
    ASSUME OpencodeTypeOK, AnsweredOK, AttemptsBounded, NEW t \in Tasks,
           stopped \in [Tasks -> BOOLEAN],
           OpencodeStep(t)
    PROVE  OpencodeTypeOK' /\ AnsweredOK' /\ AttemptsBounded'
<1> USE DEF OpencodeStep
<1>1. CASE OpencodeToolPart(t)
  <2>1. PICK c \in Calls, state \in {"pending", "running", "completed"} :
           LET isNew  == IsNewAttempt(t, c)
               n      == IF isNew THEN attempts[c] + 1 ELSE attemptOf[t][c]
               before == IF isNew THEN "requested" ELSE toolState[t][c]
           IN  /\ isNew => attempts[c] < MaxAttempts
               /\ attempts' = [attempts EXCEPT ![c] = IF isNew THEN n ELSE @]
               /\ attemptOf' = [attemptOf EXCEPT ![t][c] = n]
               /\ toolState' = [toolState EXCEPT ![t][c] = StatusAfter(before, state)]
    BY <1>1 DEF OpencodeToolPart
  <2>2. UNCHANGED <<callerVars, mcp, counted, usage, spoken, aborting>>
    BY <1>1 DEF OpencodeToolPart
  <2> DEFINE isNew  == IsNewAttempt(t, c)
             n      == IF isNew THEN attempts[c] + 1 ELSE attemptOf[t][c]
             before == IF isNew THEN "requested" ELSE toolState[t][c]
  <2>3. n \in Nat /\ (isNew => n \in 0 .. MaxAttempts)
    BY <2>1, AdapterAssumption DEF AttemptsBounded, OpencodeTypeOK
  <2>4. StatusAfter(before, state) \in {"none", "requested", "running", "completed"}
    BY DEF StatusAfter, OpencodeTypeOK
  <2>5. AttemptsBounded'
    BY <2>1, <2>3 DEF AttemptsBounded
  <2>6. attemptOf' \in [Tasks -> [Calls -> Nat]]
    BY <2>1, <2>3 DEF OpencodeTypeOK
  <2>7. toolState' \in [Tasks -> [Calls -> {"none", "requested", "running", "completed"}]]
    BY <2>1, <2>4 DEF OpencodeTypeOK
  <2>8. QED  BY <2>2, <2>5, <2>6, <2>7 DEF OpencodeTypeOK, AnsweredOK, callerVars
<1>2. CASE OpencodeMessage(t)
  BY <1>2 DEF OpencodeMessage, OpencodeTypeOK, AnsweredOK, AttemptsBounded, callerVars
<1>3. CASE OpencodeText(t)
  BY <1>3 DEF OpencodeText, OpencodeTypeOK, AnsweredOK, AttemptsBounded, callerVars
<1>4. CASE OpencodeStop(t) \/ OpencodeAborted(t)
  BY <1>4 DEF OpencodeStop, OpencodeAborted, OpencodeTypeOK, AnsweredOK, AttemptsBounded,
     callerVars, partVars
<1>5. CASE OpencodeMcpAdd(t) \/ OpencodeMcpConnect(t)
  BY <1>5 DEF OpencodeMcpAdd, OpencodeMcpConnect, OpencodeTypeOK, AnsweredOK, AttemptsBounded,
     callerVars, partVars
<1>6. CASE UNCHANGED <<callerVars, attempts, opencodeVars>>
  BY <1>6 DEF OpencodeTypeOK, AnsweredOK, AttemptsBounded, callerVars, opencodeVars
<1>7. QED
  BY <1>1, <1>2, <1>3, <1>4, <1>5, <1>6
     DEF OpencodeStart, OpencodeReject, OpencodeMcpStatus, OpencodeNoTools, OpencodeCapture,
         OpencodeOpen, OpencodeFail, OpencodeEnd

\* The environments of Gemini's processes, whoever replaces or restores them.
LEMMA EnvTypes ==
    ASSUME GeminiTypeOK, NEW holder \in Holders, NEW env \in Sessions,
           Apply(holder, env) \/ Restore(holder)
    PROVE  /\ procEnv' \in Sessions \cup {Base}
           /\ saved' \in [Holders -> Sessions \cup {Base}]
BY DEF GeminiTypeOK, Apply, Restore

\* Leaving restores the environment that the task has replaced.
LEMMA LeaveTypes ==
    ASSUME GeminiTypeOK, NEW t \in Tasks, NEW events, Leave(t, events)
    PROVE  /\ procEnv' \in Sessions \cup {Base}
           /\ saved' \in [Holders -> Sessions \cup {Base}]
           /\ UNCHANGED <<clients, creating>>
<1>1. <<"task", t>> \in Holders
  BY DEF Holders
<1>2. QED  BY <1>1 DEF Leave, Restore, GeminiTypeOK

\* Gemini's turns, sessions and environments.
LEMMA GeminiTypes ==
    ASSUME StreamInv, GeminiTypeOK, AnsweredOK, AttemptsBounded, NEW t \in Tasks,
           GeminiStep(t)
    PROVE  GeminiTypeOK' /\ AnsweredOK' /\ AttemptsBounded'
<1> USE DEF GeminiStep
<1>1. <<"task", t>> \in Holders /\ <<"init", t>> \in Holders
  BY DEF Holders
<1>2. sessionOf[t] \in Sessions
  BY DEF StreamInv, StreamTypeOK
<1>3. CASE GeminiStart(t) \/ GeminiReject(t) \/ GeminiOpen(t)
  BY <1>3 DEF GeminiStart, GeminiReject, GeminiOpen, geminiVars, envVars, procVars, turnVars,
              callerVars,
              GeminiTypeOK, AnsweredOK, AttemptsBounded
<1>4. CASE GeminiEnter(t) \/ GeminiInitBegin(t) \/ GeminiInitDone(t) \/ GeminiInitFail(t)
  <2>1. \/ Apply(<<"task", t>>, sessionOf[t])
        \/ Apply(<<"init", t>>, sessionOf[t])
        \/ Restore(<<"init", t>>)
    BY <1>4 DEF GeminiEnter, GeminiInitBegin, GeminiInitDone, GeminiInitFail
  <2>2. /\ procEnv' \in Sessions \cup {Base}
        /\ saved' \in [Holders -> Sessions \cup {Base}]
    BY <1>1, <1>2, <2>1, EnvTypes
  <2>3. UNCHANGED <<callerVars, attempts, creating, turnVars>> /\ clients' \subseteq Sessions
    BY <1>2, <1>4 DEF GeminiEnter, GeminiInitBegin, GeminiInitDone, GeminiInitFail, GeminiTypeOK
  <2>4. QED
    BY <2>2, <2>3 DEF turnVars, callerVars, GeminiTypeOK, AnsweredOK, AttemptsBounded
<1>5. CASE GeminiText(t)
  BY <1>5 DEF GeminiText, envVars, procVars, callerVars, GeminiTypeOK, AnsweredOK,
              AttemptsBounded
<1>6. CASE GeminiToolCall(t)
  <2>1. PICK c \in Calls :
         /\ attempts[c] < MaxAttempts
         /\ attempts' = [attempts EXCEPT ![c] = attempts[c] + 1]
         /\ toolIds' = [toolIds EXCEPT ![t] = Append(toolIds[t], [id |-> c, n |-> attempts[c] + 1])]
    BY <1>6 DEF GeminiToolCall, NextAttempt
  <2>2. attempts[c] + 1 \in 0 .. MaxAttempts /\ [id |-> c, n |-> attempts[c] + 1] \in CallIds
    BY <2>1, AdapterAssumption DEF AttemptsBounded, CallIds
  <2>3. AttemptsBounded'
    BY <2>1, <2>2 DEF AttemptsBounded
  <2>4. toolIds' \in [Tasks -> Seq(CallIds)]
    BY <2>1, <2>2 DEF GeminiTypeOK
  <2>5. QED
    BY <1>6, <2>3, <2>4
       DEF GeminiToolCall, envVars, procVars, callerVars, GeminiTypeOK, AnsweredOK
<1>7. CASE GeminiError(t) \/ GeminiThrow(t) \/ GeminiTurnDone(t)
  <2>1. /\ UNCHANGED <<callerVars, attempts, toolIds, pending, buffered>>
        /\ halted' \in [Tasks -> BOOLEAN]
        /\ UNCHANGED envVars \/ (\E events : Leave(t, events))
    BY <1>7 DEF GeminiError, GeminiThrow, GeminiTurnDone, turnVars, GeminiTypeOK
  <2>2. /\ procEnv' \in Sessions \cup {Base}
        /\ saved' \in [Holders -> Sessions \cup {Base}]
        /\ UNCHANGED <<clients, creating>>
    <3>1. CASE UNCHANGED envVars
      BY <3>1 DEF envVars, procVars, GeminiTypeOK
    <3>2. CASE \E events : Leave(t, events)
      BY <3>2, LeaveTypes
    <3>3. QED  BY <2>1, <3>1, <3>2
  <2>3. QED  BY <2>1, <2>2 DEF callerVars, GeminiTypeOK, AnsweredOK, AttemptsBounded
<1>8. CASE GeminiNextTurn(t)
  <2>1. CASE halted[t]
    <3>1. Leave(t, << >>) /\ UNCHANGED turnVars /\ UNCHANGED <<callerVars, attempts>>
      BY <1>8, <2>1 DEF GeminiNextTurn
    <3>2. /\ procEnv' \in Sessions \cup {Base}
          /\ saved' \in [Holders -> Sessions \cup {Base}]
          /\ UNCHANGED <<clients, creating>>
      BY <3>1, LeaveTypes
    <3>3. QED  BY <3>1, <3>2 DEF turnVars, callerVars, GeminiTypeOK, AnsweredOK, AttemptsBounded
  <2>2. CASE ~halted[t]
    <3>1. /\ UNCHANGED <<envVars, halted, callerVars, attempts>>
          /\ toolIds' = [toolIds EXCEPT ![t] = << >>]
          /\ pending' = [pending EXCEPT
                             ![t] = {p \in pending[t] : \A e \in ToSet(toolIds[t]) :
                                                 p.id # e.id \/ p.n # e.n}]
          /\ buffered' = [buffered EXCEPT ![t] = FALSE]
      BY <1>8, <2>2 DEF GeminiNextTurn
    <3>2. toolIds' \in [Tasks -> Seq(CallIds)]
      BY <3>1 DEF GeminiTypeOK
    <3>3. pending' \in [Tasks -> SUBSET Answers]
      BY <3>1 DEF GeminiTypeOK
    <3>4. QED
      BY <3>1, <3>2, <3>3 DEF envVars, procVars, callerVars, GeminiTypeOK, AnsweredOK,
                              AttemptsBounded
  <2>3. QED  BY <2>1, <2>2
<1>9. CASE GeminiAnswer(t)
  <2>1. PICK e \in Unanswered(t), verdict \in {"result", "denied"} :
         /\ Answer(t, e, verdict)
         /\ \/ pending' = [pending EXCEPT
                   ![t] = pending[t] \cup {[id |-> e.id, n |-> e.n, verdict |-> verdict]}]
            \/ pending' = pending
    BY <1>9 DEF GeminiAnswer
  <2>2. [id |-> e.id, n |-> e.n, verdict |-> verdict] \in Answers
    BY UnansweredHasId DEF Answers
  <2>3. pending' \in [Tasks -> SUBSET Answers]
    <3> DEFINE answer == [id |-> e.id, n |-> e.n, verdict |-> verdict]
    <3>1. answer \in Answers /\ pending \in [Tasks -> SUBSET Answers]
      BY <2>2 DEF GeminiTypeOK
    <3>2. \/ pending' = [pending EXCEPT ![t] = pending[t] \cup {answer}]
          \/ pending' = pending
      BY <2>1
    <3> HIDE DEF answer
    <3>3. QED  BY ONLY <3>1, <3>2, t \in Tasks
  <2>4. AnsweredOK'
    BY <2>1, AnswerType
  <2>5. QED
    BY <1>9, <2>3, <2>4 DEF GeminiAnswer, envVars, procVars, GeminiTypeOK, AttemptsBounded
<1>10. CASE GeminiStop(t)
  <2>1. /\ halted' = [halted EXCEPT ![t] = TRUE]
        /\ pending' = [pending EXCEPT ![t] = CancelCalls(t)]
        /\ UNCHANGED <<answered, attempts, envVars, toolIds, buffered>>
    BY <1>10 DEF GeminiStop
  <2>2. ToSet(toolIds[t]) \subseteq CallIds
    BY DEF ToSet, GeminiTypeOK
  <2>3. CancelCalls(t) \subseteq Answers
    BY <2>2 DEF CancelCalls, Answers, CallIds, GeminiTypeOK
  <2>4. QED
    BY <2>1, <2>3 DEF envVars, procVars, GeminiTypeOK, AnsweredOK, AttemptsBounded
<1>11. QED  BY <1>3, <1>4, <1>5, <1>6, <1>7, <1>8, <1>9, <1>10

\* createSession, which concerns no task's stream.
GeminiCreates ==
    \E s \in Sessions : GeminiCreate(s) \/ GeminiCreateInit(s) \/ GeminiCreateDone(s)

\* Creating a session keeps the types and touches no task's stream.
LEMMA CreateTypes ==
    ASSUME GeminiTypeOK, GeminiCreates
    PROVE  /\ GeminiTypeOK'
           /\ UNCHANGED <<callerVars, queueVars, loop, attempts, turnVars>>
<1>1. PICK s \in Sessions : GeminiCreate(s) \/ GeminiCreateInit(s) \/ GeminiCreateDone(s)
  BY DEF GeminiCreates
<1>2. UNCHANGED <<callerVars, queueVars, loop, attempts, turnVars>>
  BY <1>1 DEF GeminiCreate, GeminiCreateInit, GeminiCreateDone
<1>3. /\ creating' \in [Sessions -> {"no", "auth", "init"}]
      /\ clients' \subseteq Sessions
  BY <1>1 DEF GeminiCreate, GeminiCreateInit, GeminiCreateDone, GeminiTypeOK
<1>4. <<"create", s>> \in Holders
  BY DEF Holders
<1>5. UNCHANGED procVars \/ Apply(<<"create", s>>, s) \/ Restore(<<"create", s>>)
  BY <1>1 DEF GeminiCreate, GeminiCreateInit, GeminiCreateDone
<1>6. /\ procEnv' \in Sessions \cup {Base}
      /\ saved' \in [Holders -> Sessions \cup {Base}]
  BY <1>4, <1>5, EnvTypes DEF procVars, GeminiTypeOK
<1>7. QED  BY <1>2, <1>3, <1>6 DEF turnVars, GeminiTypeOK

-----------------------------------------------------------------------------
(* Every step                                                              *)

AdapterTypeOK ==
    /\ ClaudeTypeOK /\ GeminiTypeOK /\ OpencodeTypeOK /\ CodexTypeOK
    /\ AnsweredOK /\ AttemptsBounded

\* A step of an adapter, in the variables that concern its own stream.
AdapterStep ==
    \E t \in Tasks :
        \/ /\ adapter = "claude" /\ UNCHANGED <<geminiVars, opencodeVars, codexVars>>
           /\ ClaudeStep(t)
        \/ /\ adapter = "gemini" /\ UNCHANGED <<claudeVars, opencodeVars, codexVars>>
           /\ GeminiStep(t)
        \/ /\ adapter = "opencode" /\ UNCHANGED <<claudeVars, geminiVars, codexVars>>
           /\ OpencodeStep(t)
        \/ /\ adapter = "codex" /\ UNCHANGED <<claudeVars, geminiVars, opencodeVars>>
           /\ CodexStep(t)

CreateStep ==
    adapter = "gemini" /\ GeminiCreates /\ UNCHANGED <<claudeVars, opencodeVars, codexVars>>

\* A step is the engine's, an adapter's on one task, or a createSession.
LEMMA NextIs ==
    ASSUME Next
    PROVE  (Consume /\ UNCHANGED adapterVars) \/ AdapterStep \/ CreateStep
BY DEF Next, ClaudeNext, GeminiNext, OpencodeNext, CodexNext, AdapterStep, CreateStep,
       GeminiCreates, ClaudeStep, GeminiStep, OpencodeStep, CodexStep

\* What holds of every state: the types, and the shape of the streams.
AdapterInv == StreamInv /\ AdapterTypeOK

\* An adapter's step on a task is a step of that task's stream.
LEMMA StepsAre ==
    ASSUME AdapterInv, AdapterStep
    PROVE  /\ \E t \in Tasks : Stepped(t)
           /\ AdapterTypeOK'
<1>1. AttemptsOK
  BY DEF AdapterInv, AdapterTypeOK, AttemptsBounded, AttemptsOK
<1>2. /\ StreamInv /\ ClaudeTypeOK /\ GeminiTypeOK /\ OpencodeTypeOK /\ CodexTypeOK
      /\ AnsweredOK /\ AttemptsBounded /\ stopped \in [Tasks -> BOOLEAN]
  BY DEF AdapterInv, AdapterTypeOK, StreamInv, StreamTypeOK
<1>3. UNCHANGED claudeVars => ClaudeTypeOK'
  BY <1>2 DEF claudeVars, ClaudeTypeOK
<1>4. UNCHANGED geminiVars => GeminiTypeOK'
  BY <1>2 DEF geminiVars, envVars, procVars, turnVars, GeminiTypeOK
<1>5. ASSUME NEW t \in Tasks, Stepped(t), UNCHANGED opencodeVars
      PROVE  OpencodeTypeOK'
  <2>1. \A u \in Tasks : stopped[u] => stopped'[u]
    BY <1>2, <1>5 DEF Stepped, Moves
  <2>2. QED  BY <1>2, <1>5, <2>1 DEF opencodeVars, OpencodeTypeOK
<1>6. UNCHANGED codexVars => CodexTypeOK'
  BY <1>2 DEF codexVars, CodexTypeOK
<1>7. UNCHANGED attempts => AttemptsBounded'
  BY <1>2 DEF AttemptsBounded
<1>8. PICK t \in Tasks :
        \/ /\ adapter = "claude" /\ UNCHANGED <<geminiVars, opencodeVars, codexVars>>
           /\ ClaudeStep(t)
        \/ /\ adapter = "gemini" /\ UNCHANGED <<claudeVars, opencodeVars, codexVars>>
           /\ GeminiStep(t)
        \/ /\ adapter = "opencode" /\ UNCHANGED <<claudeVars, geminiVars, codexVars>>
           /\ OpencodeStep(t)
        \/ /\ adapter = "codex" /\ UNCHANGED <<claudeVars, geminiVars, opencodeVars>>
           /\ CodexStep(t)
  BY DEF AdapterStep
<1>9. Stepped(t)
  BY <1>1, <1>2, <1>8, ClaudeSteps, GeminiSteps, OpencodeSteps, CodexSteps
<1>10. AdapterTypeOK'
  <2>1. CASE ClaudeStep(t) /\ UNCHANGED <<geminiVars, opencodeVars, codexVars>>
    BY <1>2, <1>4, <1>5, <1>6, <1>7, <1>9, <2>1, ClaudeTypes DEF AdapterTypeOK
  <2>2. CASE GeminiStep(t) /\ UNCHANGED <<claudeVars, opencodeVars, codexVars>>
    BY <1>2, <1>3, <1>5, <1>6, <1>9, <2>2, GeminiTypes DEF AdapterTypeOK
  <2>3. CASE OpencodeStep(t) /\ UNCHANGED <<claudeVars, geminiVars, codexVars>>
    BY <1>2, <1>3, <1>4, <1>6, <2>3, OpencodeTypes DEF AdapterTypeOK
  <2>4. CASE CodexStep(t) /\ UNCHANGED <<claudeVars, geminiVars, opencodeVars>>
    BY <1>2, <1>3, <1>4, <1>5, <1>7, <1>9, <2>4, CodexTypes DEF AdapterTypeOK
  <2>5. QED  BY <1>8, <2>1, <2>2, <2>3, <2>4
<1>11. QED  BY <1>9, <1>10

\* What a step may have been, for the invariants that follow: a step of one
\* stream, a reading, or neither with the streams as they were.
LEMMA StepCases ==
    ASSUME AdapterInv, Next
    PROVE  /\ AdapterInv'
           /\ \/ \E t \in Tasks : Stepped(t)
              \/ /\ UNCHANGED <<loop, closed, stopped, attempts, adapter, sessionOf>>
                 /\ \A u \in Tasks : Sent(u)' = Sent(u)
           /\ [Stream!StreamNext]_Stream!streamVars
<1>1. CASE Consume /\ UNCHANGED adapterVars
  <2>1. PICK t \in Tasks : Shift(t) \/ TurnAway(t)
    BY <1>1 DEF Consume
  <2>2. /\ \A u \in Tasks : Sent(u)' = Sent(u)
        /\ StreamTypeOK'
        /\ UNCHANGED <<loop, closed, stopped>>
    BY <2>1, SentRead DEF AdapterInv, StreamInv
  <2>3. UNCHANGED <<callerVars, attempts>>
    BY <2>1 DEF Shift, TurnAway
  <2>4. StreamShape'
    <3> SUFFICES ASSUME NEW u \in Tasks
                 PROVE  /\ loop'[u] \in Before => Sent(u)' = << >>
                        /\ loop'[u] \in After => Sent(u)' # << >>
                        /\ Stream!WellBegun(Sent(u))'
                        /\ closed'[u] => loop'[u] \in Handled
                        /\ stopped'[u] => loop'[u] \in Handled
      BY DEF StreamShape
    <3>1. /\ loop[u] \in Before => Sent(u) = << >>
          /\ loop[u] \in After => Sent(u) # << >>
          /\ Stream!WellBegun(Sent(u))
          /\ closed[u] => loop[u] \in Handled
          /\ stopped[u] => loop[u] \in Handled
      BY DEF AdapterInv, StreamInv, StreamShape
    <3>2. Stream!WellBegun(Sent(u))'
      BY <2>2, <3>1 DEF Stream!WellBegun
    <3>3. QED  BY <2>2, <3>1, <3>2
  <2>5. AdapterTypeOK'
    BY <1>1, <2>2, <2>3
       DEF AdapterInv, AdapterTypeOK, adapterVars, claudeVars, geminiVars, opencodeVars,
           codexVars, envVars, procVars, turnVars, ClaudeTypeOK, GeminiTypeOK, OpencodeTypeOK,
           CodexTypeOK, AnsweredOK, AttemptsBounded, callerVars
  <2>6. [Stream!StreamNext]_Stream!streamVars
    BY <2>1, ReadImplements DEF AdapterInv
  <2>7. QED  BY <2>2, <2>3, <2>4, <2>5, <2>6 DEF AdapterInv, StreamInv, callerVars
<1>2. CASE AdapterStep
  <2>1. PICK t \in Tasks : Stepped(t)
    BY <1>2, StepsAre
  <2>2. PICK to, events, shut : /\ Moves(t, to, events, shut) /\ Fits(loop[t], to, events, shut)
    BY <2>1 DEF Stepped
  <2>3. StreamInv' /\ [Stream!StreamNext]_Stream!streamVars
    BY <2>2, MovesKeep, MovesImplement DEF AdapterInv
  <2>4. QED  BY <1>2, <2>1, <2>3, StepsAre DEF AdapterInv
<1>3. CASE CreateStep
  <2>1. /\ GeminiTypeOK'
        /\ UNCHANGED <<callerVars, queueVars, loop, attempts, turnVars>>
        /\ UNCHANGED <<claudeVars, opencodeVars, codexVars>>
    BY <1>3, CreateTypes DEF CreateStep, AdapterInv, AdapterTypeOK
  <2>2. UNCHANGED <<adapter, sessionOf, loop, queue, closed, got, done, answered, stopped, attempts>>
    BY <2>1 DEF callerVars, queueVars
  <2>3. \A u \in Tasks : Sent(u)' = Sent(u)
    BY <2>2 DEF Sent
  <2>4. StreamInv'
    BY <2>2 DEF AdapterInv, StreamInv, StreamTypeOK, StreamShape, Sent, Stream!WellBegun
  <2>5. AdapterTypeOK'
    BY <2>1, <2>2
       DEF AdapterInv, AdapterTypeOK, claudeVars, opencodeVars, codexVars, ClaudeTypeOK,
           OpencodeTypeOK, CodexTypeOK, AnsweredOK, AttemptsBounded
  <2>6. [Stream!StreamNext]_Stream!streamVars
    BY <2>2 DEF Stream!streamVars, Sent
  <2>7. QED  BY <2>2, <2>3, <2>4, <2>5, <2>6 DEF AdapterInv
<1>4. QED  BY <1>1, <1>2, <1>3, NextIs

\* All that a state is made of decides the invariant.
LEMMA StutterKeeps ==
    ASSUME AdapterInv, UNCHANGED vars
    PROVE  AdapterInv' /\ UNCHANGED Stream!streamVars
<1>1. UNCHANGED <<adapter, sessionOf, loop, queue, closed, got, done, answered, stopped, attempts>>
      /\ UNCHANGED <<claudeVars, geminiVars, opencodeVars, codexVars>>
  BY DEF vars, streamVars, adapterVars
<1>2. StreamInv'
  BY <1>1 DEF AdapterInv, StreamInv, StreamTypeOK, StreamShape, Sent, Stream!WellBegun
<1>3. AdapterTypeOK'
  BY <1>1
     DEF AdapterInv, AdapterTypeOK, claudeVars, geminiVars, opencodeVars, codexVars, envVars,
         procVars, turnVars, ClaudeTypeOK, GeminiTypeOK, OpencodeTypeOK, CodexTypeOK,
         AnsweredOK, AttemptsBounded
<1>4. QED  BY <1>1, <1>2, <1>3 DEF AdapterInv, Stream!streamVars, Sent

\* The initial states satisfy the invariant, and are those of a runtime stream.
LEMMA StartsRight ==
    ASSUME Init
    PROVE  AdapterInv /\ Stream!StreamInit
<1>1. << >> \in Seq(SentEvents) /\ << >> \o << >> = << >> /\ Len(<< >>) = 0
  BY ConcatEmptySeq
<1>2. \A t \in Tasks : got[t] = << >> /\ Sent(t) = << >>
  BY <1>1 DEF Init, StreamInit, Sent
<1>3. StreamTypeOK
  BY <1>1, AdapterAssumption DEF Init, StreamInit, StreamTypeOK, Before
<1>4. StreamShape
  BY <1>1, <1>2 DEF Init, StreamInit, StreamShape, Before, After, Stream!WellBegun
<1>5. ClaudeTypeOK /\ AnsweredOK /\ AttemptsBounded
  BY AdapterAssumption
     DEF Init, StreamInit, ClaudeInit, ClaudeTypeOK, AnsweredOK, AttemptsBounded, NoCall
<1>6. GeminiTypeOK
  BY DEF Init, GeminiInit, GeminiTypeOK
<1>7. OpencodeTypeOK
  BY DEF Init, OpencodeInit, OpencodeTypeOK
<1>8. CodexTypeOK
  BY DEF Init, CodexInit, CodexTypeOK
<1>9. Stream!StreamInit
  BY <1>1, <1>2 DEF Init, StreamInit, Stream!StreamInit
<1>10. QED
  BY <1>3, <1>4, <1>5, <1>6, <1>7, <1>8, <1>9 DEF AdapterInv, StreamInv, AdapterTypeOK

\* Whatever the adapters do, the invariant holds.
LEMMA InvHolds == Spec => []AdapterInv
<1>1. Init => AdapterInv
  BY StartsRight
<1>2. AdapterInv /\ [Next]_vars => AdapterInv'
  BY StepCases, StutterKeeps
<1>3. QED  BY <1>1, <1>2, PTL DEF Spec

\* Every value an adapter or the engine keeps is of the kind the code keeps
\* there, for any number of tasks, sessions and calls.
THEOREM TypesAreKept == Spec => []TypeOK
<1>1. AdapterInv => TypeOK
  <2> SUFFICES ASSUME AdapterInv PROVE TypeOK
    OBVIOUS
  <2>1. SentEvents \subseteq Events
    BY DEF SentEvents, Events, PlainTypes, CallTypes, EventTypes
  <2>2. Seq(SentEvents) \subseteq Seq(Events)
    BY <2>1
  <2>3. queue \in [Tasks -> Seq(Events)] /\ got \in [Tasks -> Seq(Events)]
    BY <2>2 DEF AdapterInv, StreamInv, StreamTypeOK
  <2>4. /\ adapter \in Adapters
        /\ sessionOf \in [Tasks -> Sessions]
        /\ closed \in [Tasks -> BOOLEAN]
        /\ done \in [Tasks -> BOOLEAN]
        /\ stopped \in [Tasks -> BOOLEAN]
    BY DEF AdapterInv, StreamInv, StreamTypeOK
  <2>5. loop \in [Tasks -> {"new", "starting", "joining", "auth", "init", "adding",
                           "connecting", "capturing", "subscribing", "configuring",
                           "reading", "writing", "truncated", "running", "streaming",
                           "tools", "ended", "rejected"}]
    BY DEF AdapterInv, StreamInv, StreamTypeOK, Before, After
  <2>6. ClaudeTypeOK /\ GeminiTypeOK /\ OpencodeTypeOK /\ CodexTypeOK /\ AnsweredOK
        /\ AttemptsBounded
    BY DEF AdapterInv, AdapterTypeOK
  <2>7. QED
    BY <2>3, <2>4, <2>5, <2>6
       DEF TypeOK, ClaudeTypeOK, GeminiTypeOK, OpencodeTypeOK, CodexTypeOK, AnsweredOK,
           AttemptsBounded
<1>2. QED  BY <1>1, InvHolds, PTL

\* Every adapter implements what the engine relies on of a task's handle: the
\* stream begins with its only model.input, is read in order, takes nothing
\* once it is closed, and is over for the engine only when all of it was read
\* or a terminal event was.
THEOREM AdaptersAreStreams == Spec => ImplementsRuntimeStream
<1>1. Init => Stream!StreamInit
  BY StartsRight
<1>2. AdapterInv /\ [Next]_vars => [Stream!StreamNext]_Stream!streamVars
  BY StepCases, StutterKeeps
<1>3. QED  BY <1>1, <1>2, InvHolds, PTL DEF Spec, ImplementsRuntimeStream, Stream!StreamSpec

-----------------------------------------------------------------------------
(* What a stream has said                                                  *)

\* The events of task t's stream.
Said(t) == {Sent(t)[i] : i \in 1 .. Len(Sent(t))}

SaidBy(events) == {events[i] : i \in 1 .. Len(events)}

\* What a step emits is added to what was said, at its end, unless the queue
\* is closed.
LEMMA SentGrows ==
    ASSUME StreamTypeOK, NEW t \in Tasks, NEW events \in Seq(SentEvents), NEW shut,
           Emit(t, events, shut)
    PROVE  /\ Sent(t) \in Seq(SentEvents) /\ Sent(t)' \in Seq(SentEvents)
           /\ Len(Sent(t)') = IF closed[t] THEN Len(Sent(t)) ELSE Len(Sent(t)) + Len(events)
           /\ \A i \in 1 .. Len(Sent(t)) : Sent(t)'[i] = Sent(t)[i]
           /\ \A i \in 1 .. Len(Sent(t)') : i > Len(Sent(t)) =>
                /\ ~closed[t]
                /\ i - Len(Sent(t)) \in 1 .. Len(events)
                /\ Sent(t)'[i] = events[i - Len(Sent(t))]
<1>1. Sent(t) \in Seq(SentEvents)
  BY DEF StreamTypeOK, Sent
<1>2. Sent(t)' = IF closed[t] THEN Sent(t) ELSE Sent(t) \o events
  BY SentAfter
<1>3. CASE closed[t]
  BY <1>1, <1>2, <1>3
<1>4. CASE ~closed[t]
  <2> DEFINE s == Sent(t)
             r == Sent(t)'
  <2>1. s \in Seq(SentEvents) /\ r = s \o events
    BY <1>1, <1>2, <1>4
  <2> HIDE DEF s, r
  <2>2. /\ r \in Seq(SentEvents) /\ Len(r) = Len(s) + Len(events)
        /\ Len(s) \in Nat /\ Len(events) \in Nat
        /\ \A i \in 1 .. Len(s) + Len(events) :
             r[i] = IF i <= Len(s) THEN s[i] ELSE events[i - Len(s)]
    BY <2>1, ConcatProperties
  <2>3. \A i \in 1 .. Len(s) : r[i] = s[i]
    BY <2>2
  <2>4. \A i \in 1 .. Len(r) : i > Len(s) =>
           i - Len(s) \in 1 .. Len(events) /\ r[i] = events[i - Len(s)]
    BY <2>2
  <2>5. QED  BY <1>4, <2>1, <2>2, <2>3, <2>4 DEF s, r
<1>5. QED  BY <1>3, <1>4

\* The same, of the events whatever their order.
LEMMA SaidGrows ==
    ASSUME StreamTypeOK, NEW t \in Tasks, NEW events \in Seq(SentEvents), NEW shut,
           Emit(t, events, shut)
    PROVE  /\ Said(t)' = Said(t) \cup (IF closed[t] THEN {} ELSE SaidBy(events))
           /\ \A u \in Tasks \ {t} : Said(u)' = Said(u)
<1>1. /\ Sent(t) \in Seq(SentEvents) /\ Sent(t)' \in Seq(SentEvents)
      /\ Len(Sent(t)') = IF closed[t] THEN Len(Sent(t)) ELSE Len(Sent(t)) + Len(events)
      /\ \A i \in 1 .. Len(Sent(t)) : Sent(t)'[i] = Sent(t)[i]
      /\ \A i \in 1 .. Len(Sent(t)') : i > Len(Sent(t)) =>
           /\ ~closed[t]
           /\ i - Len(Sent(t)) \in 1 .. Len(events)
           /\ Sent(t)'[i] = events[i - Len(Sent(t))]
  BY SentGrows
<1> DEFINE s == Sent(t)
           r == Sent(t)'
<1>2. /\ Len(s) \in Nat /\ Len(r) \in Nat /\ Len(events) \in Nat
      /\ Len(r) = IF closed[t] THEN Len(s) ELSE Len(s) + Len(events)
      /\ \A i \in 1 .. Len(s) : r[i] = s[i]
      /\ \A i \in 1 .. Len(r) : i > Len(s) =>
           /\ ~closed[t]
           /\ i - Len(s) \in 1 .. Len(events)
           /\ r[i] = events[i - Len(s)]
  BY <1>1
<1>3. Said(t) = {s[i] : i \in 1 .. Len(s)} /\ Said(t)' = {r[i] : i \in 1 .. Len(r)}
  BY DEF Said
<1> HIDE DEF s, r
<1>4. Said(t)' = Said(t) \cup (IF closed[t] THEN {} ELSE SaidBy(events))
  <2>1. ASSUME NEW e \in Said(t)'
        PROVE  e \in Said(t) \cup (IF closed[t] THEN {} ELSE SaidBy(events))
    <3>1. PICK i \in 1 .. Len(r) : e = r[i]
      BY <1>3, <2>1
    <3>2. CASE i <= Len(s)
      BY <1>2, <1>3, <3>1, <3>2
    <3>3. CASE i > Len(s)
      BY <1>2, <1>3, <3>1, <3>3 DEF SaidBy
    <3>4. QED  BY <1>2, <3>2, <3>3
  <2>2. ASSUME NEW e \in Said(t)
        PROVE  e \in Said(t)'
    <3>1. PICK i \in 1 .. Len(s) : e = s[i]
      BY <1>3, <2>2
    <3>2. i \in 1 .. Len(r) /\ e = r[i]
      BY <1>2, <3>1
    <3>3. QED  BY <1>3, <3>2
  <2>3. ASSUME ~closed[t], NEW e \in SaidBy(events)
        PROVE  e \in Said(t)'
    <3>1. PICK j \in 1 .. Len(events) : e = events[j]
      BY <2>3 DEF SaidBy
    <3>2. /\ j + Len(s) \in 1 .. Len(r) /\ j + Len(s) > Len(s)
          /\ (j + Len(s)) - Len(s) = j
      BY <1>2, <2>3, <3>1
    <3>3. r[j + Len(s)] = events[j]
      BY <1>2, <3>2
    <3>4. QED  BY <1>3, <3>1, <3>2, <3>3
  <2>4. QED  BY <2>1, <2>2, <2>3
<1>5. \A u \in Tasks \ {t} : Said(u)' = Said(u)
  <2>1. \A u \in Tasks \ {t} : Sent(u)' = Sent(u)
    BY SentAfter
  <2>2. QED  BY <2>1 DEF Said
<1>6. QED  BY <1>4, <1>5

\* One event, or none, as what a step says.
LEMMA SaidOne ==
    ASSUME NEW e
    PROVE  SaidBy(<<e>>) = {e} /\ SaidBy(<< >>) = {}
<1>1. Len(<<e>>) = 1 /\ <<e>>[1] = e /\ 1 .. 1 = {1}
  OBVIOUS
<1>2. SaidBy(<<e>>) = {e}
  BY <1>1 DEF SaidBy
<1>3. SaidBy(<< >>) = {}
  BY DEF SaidBy
<1>4. QED  BY <1>2, <1>3

-----------------------------------------------------------------------------
(* What is reported of the model                                           *)

\* A terminal event closes its stream, except Codex's.
FailureLast ==
    adapter # "codex" =>
        \A t \in Tasks : \A i \in 1 .. Len(Sent(t)) :
            Sent(t)[i].type \in Terminal => i = Len(Sent(t)) /\ closed[t]

\* Nothing can follow an event that closes its stream.
LEMMA FailureStep ==
    ASSUME AdapterInv, FailureLast, Next
    PROVE  FailureLast'
<1>1. CASE /\ UNCHANGED <<closed, adapter>>
           /\ \A u \in Tasks : Sent(u)' = Sent(u)
  BY <1>1 DEF FailureLast
<1>2. CASE \E t \in Tasks : Stepped(t)
  <2> SUFFICES ASSUME adapter' # "codex", NEW u \in Tasks, NEW i \in 1 .. Len(Sent(u)'),
                      Sent(u)'[i].type \in Terminal
               PROVE  i = Len(Sent(u)') /\ closed'[u]
    BY DEF FailureLast
  <2>1. PICK t \in Tasks : Stepped(t)
    BY <1>2
  <2>2. PICK events \in Seq(SentEvents), shut \in BOOLEAN :
           Emit(t, events, shut) /\ Ending(events, shut) /\ adapter' = adapter
    BY <2>1 DEF Stepped, Moves
  <2>3. StreamTypeOK
    BY DEF AdapterInv, StreamInv
  <2>4. CASE u # t
    <3>1. Sent(u)' = Sent(u) /\ closed'[u] = closed[u]
      BY <2>2, <2>3, <2>4, SentAfter
    <3>2. QED  BY <2>2, <3>1 DEF FailureLast
  <2>5. CASE u = t
    <3> DEFINE s == Sent(t)
               r == Sent(t)'
    <3>1. /\ Len(s) \in Nat /\ Len(r) \in Nat /\ Len(events) \in Nat
          /\ Len(r) = IF closed[t] THEN Len(s) ELSE Len(s) + Len(events)
          /\ \A j \in 1 .. Len(s) : r[j] = s[j]
          /\ \A j \in 1 .. Len(r) : j > Len(s) =>
               /\ ~closed[t]
               /\ j - Len(s) \in 1 .. Len(events)
               /\ r[j] = events[j - Len(s)]
      <4>1. t \in Tasks /\ events \in Seq(SentEvents) /\ Emit(t, events, shut)
        BY <2>2
      <4>2. /\ s \in Seq(SentEvents) /\ r \in Seq(SentEvents)
            /\ Len(r) = IF closed[t] THEN Len(s) ELSE Len(s) + Len(events)
            /\ \A j \in 1 .. Len(s) : r[j] = s[j]
            /\ \A j \in 1 .. Len(r) : j > Len(s) =>
                 /\ ~closed[t]
                 /\ j - Len(s) \in 1 .. Len(events)
                 /\ r[j] = events[j - Len(s)]
        BY ONLY <4>1, <2>3, SentGrows
      <4> HIDE DEF s, r
      <4>3. Len(s) \in Nat /\ Len(r) \in Nat /\ Len(events) \in Nat
        BY ONLY <4>1, <4>2
      <4>4. QED  BY ONLY <4>2, <4>3
    <3>2. closed'[t] = (closed[t] \/ shut)
      BY <2>2, <2>3, SentAfter
    <3>3. i \in 1 .. Len(r) /\ r[i].type \in Terminal
      BY <2>5
    <3>4. \A j \in 1 .. Len(s) : s[j].type \in Terminal => j = Len(s) /\ closed[t]
      BY <2>2 DEF FailureLast
    <3>5. \A j \in 1 .. Len(events) : events[j].type \in Terminal => j = Len(events) /\ shut
      BY <2>2 DEF Ending
    <3> HIDE DEF s, r
    <3>6. i = Len(r) /\ closed'[t]
      <4>1. CASE i <= Len(s)
        <5>1. i \in 1 .. Len(s) /\ s[i].type \in Terminal
          BY <3>1, <3>3, <4>1
        <5>2. i = Len(s) /\ closed[t]
          BY <3>4, <5>1
        <5>3. QED  BY <3>1, <3>2, <5>2
      <4>2. CASE i > Len(s)
        <5>1. ~closed[t] /\ i - Len(s) = Len(events) /\ shut
          BY <3>1, <3>3, <3>5, <4>2
        <5>2. \A a, b, c \in Nat : c - a = b => c = a + b
          OBVIOUS
        <5>3. i \in Nat /\ Len(s) \in Nat /\ Len(events) \in Nat
          BY <3>1, <3>3
        <5>4. i = Len(s) + Len(events)
          BY ONLY <5>1, <5>2, <5>3
        <5>5. Len(r) = Len(s) + Len(events) /\ closed'[t]
          BY <3>1, <3>2, <5>1
        <5>6. QED  BY ONLY <5>4, <5>5
      <4>3. i \in 1 .. Len(r) /\ Len(r) \in Nat /\ Len(s) \in Nat
        BY <3>1, <3>3
      <4>4. i <= Len(s) \/ i > Len(s)
        BY ONLY <4>3
      <4>5. QED  BY ONLY <4>1, <4>2, <4>4
    <3>7. QED  BY <2>5, <3>6 DEF r
  <2>6. QED  BY <2>4, <2>5
<1>3. QED  BY <1>1, <1>2, StepCases

\* A step of one task's stream leaves the other tasks' as they are.
LEMMA OthersStay ==
    ASSUME StreamInv, NEW t \in Tasks, Stepped(t)
    PROVE  /\ \A u \in Tasks \ {t} :
                /\ Sent(u)' = Sent(u) /\ Said(u)' = Said(u)
                /\ loop'[u] = loop[u] /\ closed'[u] = closed[u] /\ stopped'[u] = stopped[u]
           /\ UNCHANGED <<adapter, sessionOf>>
<1>1. PICK to \in Before \cup After \cup {"rejected"}, events \in Seq(SentEvents),
           shut \in BOOLEAN : Moves(t, to, events, shut)
  BY DEF Stepped
<1>2. /\ Emit(t, events, shut)
      /\ loop' = [loop EXCEPT ![t] = to]
      /\ UNCHANGED stopped \/ stopped' = [stopped EXCEPT ![t] = TRUE]
      /\ UNCHANGED <<adapter, sessionOf>>
  BY <1>1 DEF Moves
<1>3. /\ loop \in [Tasks -> Before \cup After \cup {"rejected"}]
      /\ stopped \in [Tasks -> BOOLEAN] /\ StreamTypeOK
  BY DEF StreamInv, StreamTypeOK
<1>4. \A u \in Tasks \ {t} : Sent(u)' = Sent(u) /\ closed'[u] = closed[u]
  BY <1>2, <1>3, SentAfter
<1>5. \A u \in Tasks \ {t} : Said(u)' = Said(u)
  BY <1>4 DEF Said
<1>6. QED  BY <1>2, <1>3, <1>4, <1>5

\* Which adapter it is, and whose session, never changes; and what the steps
\* are that are no adapter's step on a task.
LEMMA OtherSteps ==
    ASSUME AdapterInv, Next, ~AdapterStep
    PROVE  /\ UNCHANGED <<loop, closed, stopped, attempts, adapter, sessionOf>>
           /\ UNCHANGED <<claudeVars, opencodeVars, codexVars, turnVars>>
           /\ \A u \in Tasks : Sent(u)' = Sent(u) /\ Said(u)' = Said(u)
<1>1. CASE Consume /\ UNCHANGED adapterVars
  <2>1. PICK t \in Tasks : Shift(t) \/ TurnAway(t)
    BY <1>1 DEF Consume
  <2>2. (\A u \in Tasks : Sent(u)' = Sent(u)) /\ UNCHANGED <<loop, closed, stopped>>
    BY <2>1, SentRead DEF AdapterInv, StreamInv
  <2>3. UNCHANGED <<callerVars, attempts>>
    BY <2>1 DEF Shift, TurnAway
  <2>4. \A u \in Tasks : Said(u)' = Said(u)
    BY <2>2 DEF Said
  <2>5. QED  BY <1>1, <2>2, <2>3, <2>4 DEF callerVars, adapterVars, geminiVars
<1>2. CASE CreateStep
  <2>1. /\ UNCHANGED <<callerVars, queueVars, loop, attempts, turnVars>>
        /\ UNCHANGED <<claudeVars, opencodeVars, codexVars>>
    BY <1>2, CreateTypes DEF CreateStep, AdapterInv, AdapterTypeOK
  <2>2. \A u \in Tasks : Sent(u)' = Sent(u) /\ Said(u)' = Said(u)
    BY <2>1 DEF queueVars, Sent, Said
  <2>3. QED  BY <2>1, <2>2 DEF callerVars, queueVars
<1>3. QED  BY <1>1, <1>2, NextIs

\* An adapter's step on a task, of the adapter that there is.
LEMMA TheStep ==
    ASSUME AdapterInv, AdapterStep
    PROVE  \E t \in Tasks :
             /\ Stepped(t)
             /\ \/ /\ adapter = "claude" /\ ClaudeStep(t)
                   /\ UNCHANGED <<geminiVars, opencodeVars, codexVars>>
                \/ /\ adapter = "gemini" /\ GeminiStep(t)
                   /\ UNCHANGED <<claudeVars, opencodeVars, codexVars>>
                \/ /\ adapter = "opencode" /\ OpencodeStep(t)
                   /\ UNCHANGED <<claudeVars, geminiVars, codexVars>>
                \/ /\ adapter = "codex" /\ CodexStep(t)
                   /\ UNCHANGED <<claudeVars, geminiVars, opencodeVars>>
<1>1. AttemptsOK /\ StreamInv /\ OpencodeTypeOK
  BY DEF AdapterInv, AdapterTypeOK, AttemptsBounded, AttemptsOK
<1>2. QED
  BY <1>1, ClaudeSteps, GeminiSteps, OpencodeSteps, CodexSteps DEF AdapterStep

Says(t, type) == \E e \in Said(t) : e.type = type

\* While Claude's loop runs, the accumulator knows of every delta that was
\* sent, and of no message that was not; once it has ended by itself, no delta
\* is without a completed message.
OutputOf(t) ==
    ~stopped[t] =>
        /\ loop[t] # "ended" =>
             /\ ~closed[t]
             /\ Says(t, "model.output.delta") => "delta" \in output[t]
             /\ "completed" \in output[t] => Says(t, "model.output.completed")
        /\ loop[t] = "ended" =>
             (Says(t, "model.output.delta") =>
                 Says(t, "model.output.completed") \/ Says(t, "task.failed"))

OutputKnown == adapter = "claude" => \A t \in Tasks : OutputOf(t)

\* A message of the runtime is in the accumulator before the next one comes.
LEMMA OutputStep ==
    ASSUME AdapterInv, OutputKnown, Next
    PROVE  OutputKnown'
<1>1. CASE ~AdapterStep
  BY <1>1, OtherSteps DEF OutputKnown, OutputOf, Says, claudeVars
<1>2. CASE AdapterStep
  <2>1. PICK t \in Tasks :
          /\ Stepped(t)
          /\ UNCHANGED adapter
          /\ adapter = "claude" => ClaudeStep(t)
    BY <1>2, TheStep, OthersStay DEF AdapterInv
  <2> SUFFICES ASSUME adapter = "claude", NEW u \in Tasks
               PROVE  OutputOf(u)'
    BY <2>1 DEF OutputKnown
  <2>2. /\ ClaudeStep(t) /\ OutputOf(t) /\ OutputOf(u) /\ StreamInv /\ StreamTypeOK
        /\ output \in [Tasks -> SUBSET {"delta", "completed"}]
    BY <2>1 DEF OutputKnown, AdapterInv, AdapterTypeOK, ClaudeTypeOK, StreamInv
  <2>3. CASE u # t
    <3>1. /\ Said(u)' = Said(u) /\ loop'[u] = loop[u] /\ closed'[u] = closed[u]
          /\ stopped'[u] = stopped[u]
      BY <2>1, <2>2, <2>3, OthersStay
    <3>2. output'[u] = output[u]
      BY <2>2, <2>3 DEF ClaudeStep, ClaudeStart, ClaudeOpen, ClaudeReject, ClaudeMessage,
                        ClaudeToolCall,
             ClaudeAnswer, ClaudeEnd, ClaudeThrow, ClaudeStop, claudeVars
    <3>3. QED  BY <2>2, <3>1, <3>2 DEF OutputOf, Says
  <2>4. ASSUME stopped'[t] = FALSE
        PROVE  OutputOf(t)'
    <3>1. ~stopped[t] /\ ~ClaudeStop(t)
      BY <2>1, <2>4 DEF Stepped, Moves, ClaudeStop, StreamTypeOK, AdapterInv, StreamInv
    <3>2. \A events \in Seq(SentEvents), shut \in BOOLEAN : Emit(t, events, shut) =>
             /\ Said(t)' = Said(t) \cup (IF closed[t] THEN {} ELSE SaidBy(events))
             /\ closed'[t] = (closed[t] \/ shut)
      BY <2>2, SaidGrows, SentAfter
    <3>3. \A type \in EventTypes \ CallTypes, shut \in BOOLEAN :
             ~closed[t] /\ Emit(t, <<Plain(type)>>, shut) =>
               /\ closed'[t] = shut
               /\ \A k : Says(t, k)' <=> Says(t, k) \/ k = type
      <4> SUFFICES ASSUME NEW type \in EventTypes \ CallTypes, NEW shut \in BOOLEAN,
                          ~closed[t], Emit(t, <<Plain(type)>>, shut)
                   PROVE  /\ closed'[t] = shut
                          /\ \A k : Says(t, k)' <=> Says(t, k) \/ k = type
        OBVIOUS
      <4>1. Plain(type) \in SentEvents
        BY DEF Plain, Event, SentEvents, PlainTypes
      <4>2. <<Plain(type)>> \in Seq(SentEvents)
        BY <4>1
      <4>3. Said(t)' = Said(t) \cup {Plain(type)} /\ closed'[t] = shut
        BY <3>2, <4>2, SaidOne
      <4>4. Plain(type).type = type
        BY DEF Plain, Event
      <4>5. QED  BY <4>3, <4>4 DEF Says
    <3>4. CASE ClaudeStart(t) \/ ClaudeReject(t) \/ ClaudeAnswer(t)
      <4>1. /\ loop[t] # "ended" => loop'[t] # "ended"
            /\ loop[t] = "ended" => loop'[t] = "ended"
            /\ UNCHANGED queueVars /\ output' = output
        BY <2>2, <3>4 DEF ClaudeStart, ClaudeReject, ClaudeAnswer, MayStart, Goto, claudeVars,
                            StreamTypeOK
      <4>2. Said(t)' = Said(t) /\ closed'[t] = closed[t]
        BY <4>1 DEF Said, Sent, queueVars
      <4>3. QED  BY <2>2, <3>1, <4>1, <4>2 DEF OutputOf, Says
    <3>5. CASE ClaudeOpen(t)
      <4>1. /\ loop[t] = "starting" /\ loop'[t] = "streaming" /\ output' = output
            /\ Emit(t, <<Plain("model.input")>>, FALSE)
        BY <2>2, <3>5 DEF ClaudeOpen, ClaudeReject, Goto, Push, claudeVars, StreamTypeOK
      <4>2. /\ ~closed[t]
            /\ (\A k : Says(t, k)' <=> Says(t, k) \/ k = "model.input") /\ ~closed'[t]
        BY <2>2, <3>1, <3>3, <4>1 DEF EventTypes, CallTypes, OutputOf
      <4>3. QED  BY <2>2, <3>1, <4>1, <4>2 DEF OutputOf
    <3>6. CASE ClaudeMessage(t)
      <4>1. loop[t] = "streaming" /\ loop' = loop /\ ~closed[t]
        BY <2>2, <3>1, <3>6 DEF ClaudeMessage, MayProduce, OutputOf
      <4>2. CASE /\ Push(t, <<Plain("model.output.delta")>>)
                 /\ output' = [output EXCEPT ![t] = output[t] \cup {"delta"}]
        <5>1. (\A k : Says(t, k)' <=> Says(t, k) \/ k = "model.output.delta") /\ ~closed'[t]
          BY <3>3, <4>1, <4>2 DEF EventTypes, CallTypes, Push
        <5>2. output'[t] = output[t] \cup {"delta"}
          BY <2>2, <4>2
        <5>3. QED  BY <2>2, <3>1, <4>1, <5>1, <5>2 DEF OutputOf
      <4>3. CASE /\ Push(t, <<Plain("model.output.completed")>>)
                 /\ output' = [output EXCEPT ![t] = output[t] \cup {"completed"}]
        <5>1. (\A k : Says(t, k)' <=> Says(t, k) \/ k = "model.output.completed") /\ ~closed'[t]
          BY <3>3, <4>1, <4>3 DEF EventTypes, CallTypes, Push
        <5>2. output'[t] = output[t] \cup {"completed"}
          BY <2>2, <4>3
        <5>3. QED  BY <2>2, <3>1, <4>1, <5>1, <5>2 DEF OutputOf
      <4>4. CASE Push(t, <<Plain("usage.reported")>>) /\ UNCHANGED output
        <5>1. (\A k : Says(t, k)' <=> Says(t, k) \/ k = "usage.reported") /\ ~closed'[t]
          BY <3>3, <4>1, <4>4 DEF EventTypes, CallTypes, Push
        <5>2. QED  BY <2>2, <3>1, <4>1, <4>4, <5>1 DEF OutputOf
      <4>5. QED  BY <3>6, <4>2, <4>3, <4>4 DEF ClaudeMessage
    <3>7. CASE ClaudeToolCall(t)
      <4>1. /\ loop[t] = "streaming" /\ loop' = loop /\ ~closed[t] /\ output' = output
        BY <2>2, <3>1, <3>7 DEF ClaudeToolCall, MayProduce, OutputOf
      <4>2. PICK c \in Calls : Emit(t, <<Event("tool.call.requested", c, 1)>>, FALSE)
        BY <3>7 DEF ClaudeToolCall, Push
      <4>3. <<Event("tool.call.requested", c, 1)>> \in Seq(SentEvents)
        BY DEF Event, SentEvents, CallTypes
      <4>4. Said(t)' = Said(t) \cup {Event("tool.call.requested", c, 1)} /\ ~closed'[t]
        BY <3>2, <4>1, <4>2, <4>3, SaidOne
      <4>5. QED  BY <2>2, <3>1, <4>1, <4>4 DEF OutputOf, Says, Event
    <3>8. CASE ClaudeEnd(t)
      <4>1. loop[t] = "streaming" /\ loop'[t] = "ended" /\ ~closed[t]
        BY <2>2, <3>1, <3>8 DEF ClaudeEnd, Goto, OutputOf, StreamTypeOK
      <4>2. CASE output[t] = {"delta"}
        <5>1. Emit(t, <<Plain("model.output.completed")>>, TRUE)
          BY <3>8, <4>2 DEF ClaudeEnd, Finish
        <5>2. (\A k : Says(t, k)' <=> Says(t, k) \/ k = "model.output.completed")
          BY <3>3, <4>1, <5>1 DEF EventTypes, CallTypes
        <5>3. QED  BY <2>4, <4>1, <5>2 DEF OutputOf
      <4>3. CASE output[t] # {"delta"}
        <5>1. Emit(t, << >>, TRUE)
          BY <3>8, <4>3 DEF ClaudeEnd, Finish
        <5>2. \A k : Says(t, k)' <=> Says(t, k)
          <6>1. << >> \in Seq(SentEvents) /\ SaidBy(<< >>) = {}
            BY DEF SaidBy
          <6>2. Said(t)' = Said(t) \cup {}
            BY <3>2, <4>1, <5>1, <6>1
          <6>3. QED  BY <6>2 DEF Says
        <5>3. "delta" \in output[t] => "completed" \in output[t]
          <6>1. output[t] \in SUBSET {"delta", "completed"}
            BY <2>2
          <6>2. \A o \in SUBSET {"delta", "completed"} :
                   o # {"delta"} /\ "delta" \in o => "completed" \in o
            OBVIOUS
          <6>3. QED  BY ONLY <4>3, <6>1, <6>2
        <5>4. Says(t, "model.output.delta") => Says(t, "model.output.completed")
          BY <2>2, <3>1, <4>1, <5>3 DEF OutputOf
        <5>5. QED  BY <4>1, <5>2, <5>4 DEF OutputOf
      <4>4. QED  BY <4>2, <4>3
    <3>9. CASE ClaudeThrow(t)
      <4>1. /\ loop[t] = "streaming" /\ loop'[t] = "ended" /\ ~closed[t]
            /\ Emit(t, <<Plain("task.failed")>>, TRUE)
        BY <2>2, <3>1, <3>9 DEF ClaudeThrow, Goto, Finish, OutputOf, StreamTypeOK
      <4>2. (\A k : Says(t, k)' <=> Says(t, k) \/ k = "task.failed")
        BY <3>3, <4>1 DEF EventTypes, CallTypes
      <4>3. QED  BY <4>1, <4>2 DEF OutputOf
    <3>10. QED
      BY <2>2, <3>1, <3>4, <3>5, <3>6, <3>7, <3>8, <3>9 DEF ClaudeStep
  <2>5. stopped'[t] \in BOOLEAN
    BY StepCases DEF AdapterInv, StreamInv, StreamTypeOK
  <2>6. QED  BY <2>3, <2>4, <2>5 DEF OutputOf
<1>3. QED  BY <1>1, <1>2

\* Pushing events that are no usage reports no usage.
LEMMA NoUsage ==
    ASSUME StreamTypeOK, NEW t \in Tasks, NEW events \in Seq(SentEvents), NEW shut,
           Emit(t, events, shut),
           \A i \in 1 .. Len(events) : events[i].type # "usage.reported"
    PROVE  \A e \in Said(t)' : e.type = "usage.reported" => e \in Said(t)
BY SaidGrows DEF SaidBy

\* An event that is not usage.reported adds no report of usage.
LEMMA NoUsageOne ==
    ASSUME StreamTypeOK, NEW t \in Tasks, NEW type \in PlainTypes \ {"usage.reported"}, NEW shut,
           Emit(t, <<Plain(type)>>, shut)
    PROVE  \A e \in Said(t)' : e.type = "usage.reported" => e \in Said(t)
<1>1. Plain(type) \in SentEvents /\ Plain(type).type = type
  BY DEF Plain, Event, SentEvents
<1>2. /\ <<Plain(type)>> \in Seq(SentEvents) /\ Len(<<Plain(type)>>) = 1
      /\ <<Plain(type)>>[1] = Plain(type)
  BY <1>1
<1>3. \A i \in 1 .. Len(<<Plain(type)>>) : <<Plain(type)>>[i].type # "usage.reported"
  BY <1>1, <1>2
<1>4. QED  BY <1>2, <1>3, NoUsage

\* OpenCode's usage is a total over the messages that were counted, and it is
\* reported when nothing is counted any more.
UsageOf(t) ==
    /\ IsFiniteSet(counted[t])
    /\ usage[t] = Cardinality(counted[t])
    /\ \A e \in Said(t) : e.type = "usage.reported" => loop[t] = "ended" /\ e.n = usage[t]

UsageKnown == adapter = "opencode" => \A t \in Tasks : UsageOf(t)

\* Only a completed message changes the total, and reports it.
LEMMA UsageQuiet ==
    ASSUME StreamInv, OpencodeTypeOK, AttemptsOK, NEW t \in Tasks,
           OpencodeStep(t), ~OpencodeMessage(t)
    PROVE  /\ UNCHANGED <<counted, usage>>
           /\ loop[t] = "ended" => loop'[t] = "ended"
           /\ \A e \in Said(t)' : e.type = "usage.reported" => e \in Said(t)
<1> DEFINE Quiet == \A e \in Said(t)' : e.type = "usage.reported" => e \in Said(t)
<1>1. StreamTypeOK /\ loop \in [Tasks -> Before \cup After \cup {"rejected"}]
  BY DEF StreamInv, StreamTypeOK
<1>2. CASE \/ OpencodeStart(t) \/ OpencodeReject(t) \/ OpencodeMcpStatus(t)
           \/ OpencodeMcpAdd(t) \/ OpencodeMcpConnect(t) \/ OpencodeOpen(t) \/ OpencodeStop(t)
  <2>1. UNCHANGED <<queueVars, counted, usage>> /\ (loop[t] = "ended" => loop' = loop)
    BY <1>2 DEF OpencodeStart, OpencodeReject, OpencodeMcpStatus, OpencodeMcpAdd,
         OpencodeMcpConnect, OpencodeOpen, OpencodeStop, MayStart, opencodeVars, partVars
  <2>2. Said(t)' = Said(t)
    BY <2>1 DEF queueVars, Said, Sent
  <2>3. QED  BY <1>1, <2>1, <2>2
<1>3. CASE \/ OpencodeNoTools(t) \/ OpencodeCapture(t) \/ OpencodeText(t) \/ OpencodeFail(t)
  <2>1. /\ UNCHANGED <<counted, usage>> /\ loop[t] # "ended"
        /\ \E type \in {"model.input", "model.output.delta", "task.failed"}, shut \in BOOLEAN :
              Emit(t, <<Plain(type)>>, shut)
    BY <1>3 DEF OpencodeNoTools, OpencodeCapture, OpencodeText, OpencodeFail, MayProduce, Push,
         Finish, opencodeVars
  <2>2. Quiet
    BY <1>1, <2>1, NoUsageOne DEF PlainTypes, EventTypes, CallTypes
  <2>3. QED  BY <2>1, <2>2
<1>4. CASE OpencodeEnd(t) \/ OpencodeAborted(t)
  <2>1. /\ UNCHANGED <<counted, usage>> /\ Emit(t, << >>, TRUE)
        /\ loop[t] = "ended" => loop' = loop
    BY <1>4 DEF OpencodeEnd, OpencodeAborted, Close, opencodeVars, partVars
  <2>2. << >> \in Seq(SentEvents) /\ \A i \in 1 .. Len(<< >>) : << >>[i].type # "usage.reported"
    OBVIOUS
  <2>3. Quiet
    BY ONLY <1>1, <2>1, <2>2, NoUsage, t \in Tasks
  <2>4. QED  BY <2>1, <2>3
<1>5. CASE OpencodeToolPart(t)
  <2>1. PICK c \in Calls, state \in {"pending", "running", "completed"} :
         LET isNew  == IsNewAttempt(t, c)
             n      == IF isNew THEN attempts[c] + 1 ELSE attemptOf[t][c]
             before == IF isNew THEN "requested" ELSE toolState[t][c]
             types  == PartTypes(isNew, before, state)
         IN  Push(t, [i \in 1 .. Len(types) |-> Event(types[i], c, n)])
    BY <1>5 DEF OpencodeToolPart, PartTypes
  <2> DEFINE isNew  == IsNewAttempt(t, c)
             n      == IF isNew THEN attempts[c] + 1 ELSE attemptOf[t][c]
             before == IF isNew THEN "requested" ELSE toolState[t][c]
             types  == PartTypes(isNew, before, state)
             events == [i \in 1 .. Len(types) |-> Event(types[i], c, n)]
  <2>2. n \in Nat /\ isNew \in BOOLEAN
    BY DEF AttemptsOK, OpencodeTypeOK, IsNewAttempt
  <2>3. types \in Seq(CallTypes)
    BY <2>2, PartTypesAre
  <2>4. Emit(t, events, FALSE)
    BY <2>1 DEF Push
  <2> HIDE DEF isNew, n, types
  <2>5. /\ events \in Seq(SentEvents) /\ Len(events) = Len(types)
        /\ \A i \in 1 .. Len(events) : events[i] = Event(types[i], c, n)
    BY <2>2, <2>3, CallEvents
  <2> HIDE DEF events
  <2>6. \A i \in 1 .. Len(events) : events[i].type # "usage.reported"
    <3> SUFFICES ASSUME NEW i \in 1 .. Len(events) PROVE events[i].type # "usage.reported"
      OBVIOUS
    <3>1. events[i] = [type |-> types[i], id |-> c, n |-> n] /\ types[i] \in CallTypes
      BY <2>3, <2>5 DEF Event
    <3>2. QED  BY ONLY <3>1 DEF CallTypes
  <2>7. Quiet
    BY ONLY <1>1, <2>4, <2>5, <2>6, NoUsage, t \in Tasks
  <2>8. QED  BY <1>5, <2>7 DEF OpencodeToolPart
<1>6. QED  BY <1>2, <1>3, <1>4, <1>5 DEF OpencodeStep

\* Every completed message adds one to the set and to the total.
LEMMA UsageStep ==
    ASSUME AdapterInv, UsageKnown, Next
    PROVE  UsageKnown'
<1>1. CASE ~AdapterStep
  BY <1>1, OtherSteps DEF UsageKnown, UsageOf, opencodeVars
<1>2. CASE AdapterStep
  <2>1. PICK t \in Tasks :
          /\ Stepped(t)
          /\ UNCHANGED adapter
          /\ adapter = "opencode" => OpencodeStep(t)
    BY <1>2, TheStep, OthersStay DEF AdapterInv
  <2> SUFFICES ASSUME adapter = "opencode", NEW u \in Tasks
               PROVE  UsageOf(u)'
    BY <2>1 DEF UsageKnown
  <2>2. /\ OpencodeStep(t) /\ UsageOf(t) /\ UsageOf(u) /\ StreamInv /\ StreamTypeOK
        /\ OpencodeTypeOK /\ AttemptsOK
    BY <2>1 DEF UsageKnown, AdapterInv, AdapterTypeOK, StreamInv, AttemptsBounded, AttemptsOK
  <2>3. CASE ~OpencodeMessage(t)
    <3>1. /\ UNCHANGED <<counted, usage>>
          /\ loop[t] = "ended" => loop'[t] = "ended"
          /\ \A e \in Said(t)' : e.type = "usage.reported" => e \in Said(t)
      BY <2>2, <2>3, UsageQuiet
    <3>2. u # t => Said(u)' = Said(u) /\ loop'[u] = loop[u]
      BY <2>1, <2>2, OthersStay
    <3>3. QED  BY <2>2, <3>1, <3>2 DEF UsageOf
  <2>4. CASE OpencodeMessage(t)
    <3>1. PICK m \in Messages, toolCalls \in BOOLEAN, error \in BOOLEAN :
             LET said == IF spoken[t] /\ ~toolCalls
                         THEN <<Plain("model.output.completed")>> ELSE << >>
                 last == IF error THEN Plain("task.failed")
                         ELSE Event("usage.reported", 0, usage[t] + 1)
             IN  /\ m \notin counted[t]
                 /\ counted' = [counted EXCEPT ![t] = counted[t] \cup {m}]
                 /\ usage' = [usage EXCEPT ![t] = usage[t] + 1]
                 /\ IF toolCalls /\ ~error
                    THEN UNCHANGED <<loop, queueVars>>
                    ELSE Goto(t, "ended") /\ Finish(t, Append(said, last))
      BY <2>4 DEF OpencodeMessage, IsCounted
    <3>2. loop[t] = "streaming"
      BY <2>4 DEF OpencodeMessage, MayProduce
    <3>3. CASE u # t
      <4>1. Said(u)' = Said(u) /\ loop'[u] = loop[u]
        BY <2>1, <2>2, <3>3, OthersStay
      <4>2. counted'[u] = counted[u] /\ usage'[u] = usage[u]
        BY <2>2, <3>1, <3>3 DEF OpencodeTypeOK
      <4>3. QED  BY <2>2, <4>1, <4>2 DEF UsageOf
    <3>4. counted'[t] = counted[t] \cup {m} /\ usage'[t] = usage[t] + 1
      BY <2>2, <3>1 DEF OpencodeTypeOK
    <3>5. IsFiniteSet(counted'[t]) /\ usage'[t] = Cardinality(counted'[t])
      BY <2>2, <3>1, <3>4, FS_AddElement DEF UsageOf
    <3>6. \A e \in Said(t) : e.type # "usage.reported"
      BY <2>2, <3>2 DEF UsageOf
    <3>7. \A e \in Said(t)' : e.type = "usage.reported" =>
             loop'[t] = "ended" /\ e.n = usage'[t]
      <4>1. CASE toolCalls /\ ~error
        <5>1. Said(t)' = Said(t)
          BY <3>1, <4>1 DEF queueVars, Said, Sent
        <5>2. QED  BY <3>6, <5>1
      <4>2. CASE ~(toolCalls /\ ~error)
        <5> DEFINE said == IF spoken[t] /\ ~toolCalls
                           THEN <<Plain("model.output.completed")>> ELSE << >>
                   last == IF error THEN Plain("task.failed")
                           ELSE Event("usage.reported", 0, usage[t] + 1)
                   events == Append(said, last)
        <5>1. loop'[t] = "ended" /\ Emit(t, events, TRUE)
          BY <2>2, <3>1, <4>2 DEF Goto, Finish, StreamTypeOK
        <5>2. /\ last \in SentEvents
              /\ last.type = "usage.reported" => last.n = usage[t] + 1
          BY <2>2 DEF SentEvents, Plain, Event, PlainTypes, EventTypes, CallTypes, OpencodeTypeOK
        <5>3. /\ said \in Seq(SentEvents) /\ Len(said) \in {0, 1}
              /\ \A i \in 1 .. Len(said) : said[i].type = "model.output.completed"
          <6>1. Plain("model.output.completed") \in SentEvents
            BY DEF SentEvents, Plain, Event, PlainTypes, EventTypes, CallTypes
          <6>2. CASE spoken[t] /\ ~toolCalls
            <7>1. said = <<Plain("model.output.completed")>>
              BY <6>2
            <7>2. QED  BY <6>1, <7>1 DEF Plain, Event
          <6>3. CASE ~(spoken[t] /\ ~toolCalls)
            <7>1. said = << >>
              BY <6>3
            <7>2. QED  BY <7>1
          <6>4. QED  BY <6>2, <6>3
        <5> HIDE DEF said, last
        <5>4. /\ events \in Seq(SentEvents) /\ Len(events) = Len(said) + 1
              /\ events[Len(said) + 1] = last
              /\ \A i \in 1 .. Len(said) : events[i] = said[i]
          BY <5>2, <5>3, AppendProperties
        <5> HIDE DEF events
        <5>5. \A i \in 1 .. Len(events) :
                 events[i].type = "usage.reported" => events[i].n = usage[t] + 1
          BY <5>2, <5>3, <5>4
        <5>6. \A e \in Said(t)' : e \in Said(t) \/ e \in SaidBy(events)
          BY <2>2, <5>1, <5>4, SaidGrows
        <5>7. QED  BY <3>4, <3>6, <5>1, <5>5, <5>6 DEF SaidBy
      <4>3. QED  BY <4>1, <4>2
    <3>8. CASE u = t
      BY <3>5, <3>7, <3>8 DEF UsageOf
    <3>9. QED  BY <3>3, <3>8
  <2>5. QED  BY <2>3, <2>4
<1>3. QED  BY <1>1, <1>2

\* What an adapter reports of the model is true of it: a stream says nothing
\* after a failure, streams no output it does not complete, and counts no
\* message twice in the usage it reports.
THEOREM ReportsAreTrue == Spec => []StreamReports
<1> DEFINE Reports == FailureLast /\ OutputKnown /\ UsageKnown
<1>1. Init => Reports
  <2> SUFFICES ASSUME Init PROVE Reports
    OBVIOUS
  <2>1. \A t \in Tasks : Sent(t) = << >> /\ Said(t) = {}
    <3>1. << >> \o << >> = << >> /\ Len(<< >>) = 0
      BY ConcatEmptySeq
    <3>2. QED  BY <3>1 DEF Init, StreamInit, Sent, Said
  <2>2. \A t \in Tasks : loop[t] = "new" /\ ~closed[t] /\ output[t] = {}
    BY DEF Init, StreamInit, ClaudeInit
  <2>3. \A t \in Tasks : counted[t] = {} /\ usage[t] = 0
    BY DEF Init, OpencodeInit
  <2>4. FailureLast
    BY <2>1 DEF FailureLast
  <2>5. OutputKnown
    BY <2>1, <2>2 DEF OutputKnown, OutputOf, Says
  <2>6. UsageKnown
    BY <2>1, <2>3, FS_EmptySet DEF UsageKnown, UsageOf
  <2>7. QED  BY <2>4, <2>5, <2>6
<1>2. AdapterInv /\ Reports /\ [Next]_vars => Reports'
  <2> SUFFICES ASSUME AdapterInv, Reports, [Next]_vars PROVE Reports'
    OBVIOUS
  <2>1. CASE Next
    BY <2>1, FailureStep, OutputStep, UsageStep
  <2>2. CASE UNCHANGED vars
    <3>1. UNCHANGED <<adapter, loop, queue, closed, got, stopped, output, counted, usage>>
      BY <2>2 DEF vars, streamVars, adapterVars, claudeVars, opencodeVars
    <3>2. \A t \in Tasks : Sent(t)' = Sent(t) /\ Said(t)' = Said(t)
      BY <3>1 DEF Sent, Said
    <3>3. FailureLast'
      BY <3>1, <3>2 DEF FailureLast
    <3>4. OutputKnown'
      BY <3>1, <3>2 DEF OutputKnown, OutputOf, Says
    <3>5. UsageKnown'
      BY <3>1, <3>2 DEF UsageKnown, UsageOf
    <3>6. QED  BY <3>3, <3>4, <3>5
  <2>3. QED  BY <2>1, <2>2
<1>3. AdapterInv /\ Reports => StreamReports
  <2> SUFFICES ASSUME AdapterInv, Reports PROVE StreamReports
    OBVIOUS
  <2>1. FailureEndsStream
    BY DEF FailureLast, FailureEndsStream
  <2>2. ClaudeOutput
    <3> SUFFICES ASSUME adapter = "claude", NEW t \in Tasks, loop[t] = "ended", ~stopped[t],
                        NEW i \in 1 .. Len(Sent(t)), Sent(t)[i].type = "model.output.delta"
                 PROVE  \/ \E j \in 1 .. Len(Sent(t)) : Sent(t)[j].type = "model.output.completed"
                        \/ \E j \in 1 .. Len(Sent(t)) : Sent(t)[j].type = "task.failed"
      BY DEF ClaudeOutput
    <3>1. Says(t, "model.output.delta")
      BY DEF Says, Said
    <3>2. Says(t, "model.output.completed") \/ Says(t, "task.failed")
      BY <3>1 DEF OutputKnown, OutputOf
    <3>3. QED  BY <3>2 DEF Says, Said
  <2>3. UsageCountsOnce
    BY DEF UsageKnown, UsageOf, UsageCountsOnce, Said
  <2>4. QED  BY <2>1, <2>2, <2>3 DEF StreamReports
<1> HIDE DEF Reports
<1>4. QED  BY <1>1, <1>2, <1>3, InvHolds, PTL DEF Spec

-----------------------------------------------------------------------------
(* The attempts                                                            *)

\* No request is of an attempt that the counter has not reached.
RequestsCounted ==
    adapter \in {"gemini", "opencode"} =>
        \A t \in Tasks : \A e \in Said(t) :
            e.type = "tool.call.requested" => e.n <= attempts[e.id]

\* A request is of an attempt above all the counter had reached.
LEMMA AttemptsStep ==
    ASSUME AdapterInv, RequestsCounted, AttemptsUnique, Next
    PROVE  RequestsCounted' /\ AttemptsUnique'
<1>1. /\ attempts \in [Calls -> Nat] /\ attempts' \in [Calls -> Nat]
      /\ \A u \in Tasks : /\ Sent(u) \in Seq(SentEvents) /\ Sent(u)' \in Seq(SentEvents)
                          /\ Said(u) \subseteq SentEvents
  <2>1. AdapterInv'
    BY StepCases
  <2>2. attempts \in [Calls -> Nat] /\ attempts' \in [Calls -> Nat]
    BY <2>1, AdapterAssumption DEF AdapterInv, AdapterTypeOK, AttemptsBounded
  <2>3. \A u \in Tasks : Sent(u) \in Seq(SentEvents) /\ Sent(u)' \in Seq(SentEvents)
    BY <2>1 DEF AdapterInv, StreamInv, StreamTypeOK, Sent
  <2>4. \A u \in Tasks : Said(u) \subseteq SentEvents
    BY <2>3 DEF Said
  <2>5. QED  BY <2>2, <2>3, <2>4
<1>2. CASE ~AdapterStep
  <2>1. /\ UNCHANGED <<attempts, adapter>>
        /\ \A u \in Tasks : Sent(u)' = Sent(u) /\ Said(u)' = Said(u)
    BY <1>2, OtherSteps
  <2>2. QED  BY <2>1 DEF RequestsCounted, AttemptsUnique
<1>3. CASE AdapterStep
  <2>1. PICK t \in Tasks : Stepped(t)
    BY <1>3, StepsAre
  <2>2. PICK events \in Seq(SentEvents), shut \in BOOLEAN :
           /\ Emit(t, events, shut) /\ Fresh(events) /\ adapter' = adapter
    BY <2>1 DEF Stepped, Moves
  <2>3. CASE adapter \notin {"gemini", "opencode"}
    BY <2>2, <2>3 DEF RequestsCounted, AttemptsUnique
  <2>4. CASE adapter \in {"gemini", "opencode"}
    <3>1. /\ \A c \in Calls : attempts'[c] >= attempts[c]
          /\ \A i \in 1 .. Len(events) : events[i].type = "tool.call.requested" =>
               /\ i = 1
               /\ events[i].n = attempts[events[i].id] + 1
               /\ attempts'[events[i].id] = events[i].n
      BY <2>2, <2>4 DEF Fresh
    <3>2. StreamTypeOK /\ StreamInv
      BY DEF AdapterInv, StreamInv
    <3>3. \A u \in Tasks \ {t} : Sent(u)' = Sent(u) /\ Said(u)' = Said(u)
      BY <2>1, <3>2, OthersStay
    <3>4. \A e \in SentEvents : e.type = "tool.call.requested" => e.id \in Calls /\ e.n \in Nat
      BY DEF SentEvents, PlainTypes, CallTypes
    <3>5. \A u \in Tasks : \A e \in Said(u) :
             e.type = "tool.call.requested" => e.n <= attempts[e.id]
      BY <2>4 DEF RequestsCounted
    <3>6. \A e \in SaidBy(events) : e.type = "tool.call.requested" => e.n <= attempts'[e.id]
      <4> SUFFICES ASSUME NEW i \in 1 .. Len(events), events[i].type = "tool.call.requested"
                   PROVE  events[i].n <= attempts'[events[i].id]
        BY DEF SaidBy
      <4>1. attempts'[events[i].id] = events[i].n /\ events[i] \in SentEvents
        BY <3>1
      <4>2. events[i].n \in Nat
        BY <3>4, <4>1
      <4>3. QED  BY <4>1, <4>2
    <3>7. \A u \in Tasks : \A e \in Said(u) :
             e.type = "tool.call.requested" => e.n <= attempts'[e.id]
      <4> SUFFICES ASSUME NEW u \in Tasks, NEW e \in Said(u), e.type = "tool.call.requested"
                   PROVE  e.n <= attempts'[e.id]
        OBVIOUS
      <4>1. e.id \in Calls /\ e.n \in Nat
        BY <1>1, <3>4
      <4>2. e.n <= attempts[e.id] /\ attempts'[e.id] >= attempts[e.id]
        BY <3>1, <3>5, <4>1
      <4>3. attempts[e.id] \in Nat /\ attempts'[e.id] \in Nat
        BY <1>1, <4>1
      <4>4. QED  BY ONLY <4>1, <4>2, <4>3
    <3>8. Said(t)' \subseteq Said(t) \cup SaidBy(events)
      BY <2>2, <3>2, SaidGrows
    <3>9. RequestsCounted'
      BY <3>3, <3>6, <3>7, <3>8 DEF RequestsCounted
    <3>10. /\ Len(Sent(t)') = IF closed[t] THEN Len(Sent(t)) ELSE Len(Sent(t)) + Len(events)
           /\ \A i \in 1 .. Len(Sent(t)) : Sent(t)'[i] = Sent(t)[i]
           /\ \A i \in 1 .. Len(Sent(t)') : i > Len(Sent(t)) =>
                /\ ~closed[t]
                /\ i - Len(Sent(t)) \in 1 .. Len(events)
                /\ Sent(t)'[i] = events[i - Len(Sent(t))]
      BY <2>2, <3>2, SentGrows
    <3>11. \A i \in 1 .. Len(Sent(t)') :
              Sent(t)'[i].type = "tool.call.requested" /\ i > Len(Sent(t)) =>
                /\ i = Len(Sent(t)) + 1
                /\ \A u \in Tasks : Sent(t)'[i] \notin Said(u)
      <4> SUFFICES ASSUME NEW i \in 1 .. Len(Sent(t)'), i > Len(Sent(t)),
                          Sent(t)'[i].type = "tool.call.requested"
                   PROVE  /\ i = Len(Sent(t)) + 1
                          /\ \A u \in Tasks : Sent(t)'[i] \notin Said(u)
        OBVIOUS
      <4> DEFINE k == i - Len(Sent(t))
                 e == events[k]
      <4>1. k \in 1 .. Len(events) /\ Sent(t)'[i] = e
        BY <3>10
      <4>2. /\ k = 1 /\ e.n = attempts[e.id] + 1 /\ e \in SentEvents
            /\ e.type = "tool.call.requested"
        BY <3>1, <4>1
      <4>3. Len(Sent(t)) \in Nat /\ Len(Sent(t)') \in Nat
        BY <1>1
      <4>4. i = Len(Sent(t)) + 1
        <5>1. \A a, b \in Nat : a - b = 1 => a = b + 1
          OBVIOUS
        <5>2. i \in Nat
          BY <4>3
        <5> DEFINE len == Len(Sent(t))
        <5>3. len \in Nat /\ i - len = 1
          BY <4>2, <4>3
        <5> HIDE DEF len
        <5>4. i = len + 1
          BY <5>1, <5>2, <5>3
        <5>5. QED  BY <5>4 DEF len
      <4> HIDE DEF k, e
      <4>5. ASSUME NEW u \in Tasks, e \in Said(u)
            PROVE  FALSE
        <5>1. e.n <= attempts[e.id]
          BY <3>5, <4>2, <4>5
        <5>2. e.id \in Calls /\ e.n \in Nat
          BY <3>4, <4>2
        <5>3. attempts[e.id] \in Nat
          BY <1>1, <5>2
        <5>4. QED  BY <4>2, <5>1, <5>2, <5>3
      <4>6. QED  BY <4>1, <4>4, <4>5
    <3>12. ASSUME NEW u \in Tasks, NEW w \in Tasks, NEW i \in 1 .. Len(Sent(u)'),
                  NEW j \in 1 .. Len(Sent(w)'),
                  Sent(u)'[i].type = "tool.call.requested",
                  Sent(u)'[i] = Sent(w)'[j]
           PROVE  u = w /\ i = j
      <4> DEFINE New(v, k) == v = t /\ k > Len(Sent(t))
      <4>0. \A v \in Tasks : Len(Sent(v)) \in Nat
        BY <1>1
      <4>1. ASSUME NEW v \in Tasks, NEW k \in 1 .. Len(Sent(v)'), ~New(v, k)
            PROVE  /\ k \in 1 .. Len(Sent(v)) /\ Sent(v)'[k] = Sent(v)[k]
                   /\ Sent(v)'[k] \in Said(v)
        <5>1. CASE v # t
          BY <3>3, <5>1 DEF Said
        <5>2. CASE v = t
          <6>1. k <= Len(Sent(t)) /\ k \in 1 .. Len(Sent(t)')
            BY <4>0, <4>1, <5>2, <1>1
          <6>2. k \in 1 .. Len(Sent(t))
            BY <4>0, <6>1, <1>1
          <6>3. Sent(t)'[k] = Sent(t)[k]
            BY <3>10, <6>2
          <6>4. Sent(t)[k] \in Said(t)
            BY <6>2 DEF Said
          <6>5. QED  BY <5>2, <6>2, <6>3, <6>4
        <5>3. QED  BY <5>1, <5>2
      <4>2. CASE ~New(u, i) /\ ~New(w, j)
        BY <2>4, <3>12, <4>1, <4>2 DEF AttemptsUnique
      <4>3. CASE New(u, i) /\ New(w, j)
        BY <3>11, <3>12, <4>3
      <4>4. CASE New(u, i) /\ ~New(w, j)
        BY <3>11, <3>12, <4>1, <4>4
      <4>5. CASE ~New(u, i) /\ New(w, j)
        BY <3>11, <3>12, <4>1, <4>5
      <4>6. QED  BY <4>2, <4>3, <4>4, <4>5
    <3>13. AttemptsUnique'
      BY <3>12 DEF AttemptsUnique
    <3>14. QED  BY <3>9, <3>13
  <2>5. QED  BY <2>3, <2>4
<1>4. QED  BY <1>2, <1>3

-----------------------------------------------------------------------------
(* The lives of tool calls                                                 *)

\* The kinds of the events that stream s has about attempt n of call c.
KindsIn(s, c, n) == {type \in CallTypes : Event(type, c, n) \in SaidBy(s)}

\* Events of the kinds `types` may follow those of `kinds`, one by one.
Follows(kinds, types) ==
    \A i \in 1 .. Len(types) :
        LET before == kinds \cup {types[j] : j \in 1 .. i - 1}
        IN  /\ types[i] # "tool.call.requested" => "tool.call.requested" \in before
            /\ \A type \in before : Rank(type) < Rank(types[i])
            /\ types[i] = "tool.call.completed" /\ "tool.call.approved" \in before =>
                 "tool.call.started" \in before

\* The events of one call keep the stream right if they may follow.
LEMMA LiveGrows ==
    ASSUME NEW s \in Seq(SentEvents), CallsLive(s), NEW c \in Calls, NEW n \in Nat,
           NEW types \in Seq(CallTypes), Follows(KindsIn(s, c, n), types)
    PROVE  CallsLive(s \o [i \in 1 .. Len(types) |-> Event(types[i], c, n)])
<1> DEFINE events == [i \in 1 .. Len(types) |-> Event(types[i], c, n)]
           r == s \o events
<1>1. /\ events \in Seq(SentEvents) /\ Len(events) = Len(types)
      /\ \A i \in 1 .. Len(events) : events[i] = Event(types[i], c, n)
  BY CallEvents
<1> HIDE DEF events
<1>2. /\ r \in Seq(SentEvents) /\ Len(r) = Len(s) + Len(events)
      /\ \A i \in 1 .. Len(s) + Len(events) :
           r[i] = IF i <= Len(s) THEN s[i] ELSE events[i - Len(s)]
  BY <1>1, ConcatProperties
<1> HIDE DEF r
<1>3. Len(s) \in Nat /\ Len(types) \in Nat /\ Len(r) = Len(s) + Len(types)
  BY <1>1, <1>2
<1>4. \A i \in 1 .. Len(s) : r[i] = s[i]
  BY <1>2, <1>3
<1>5. \A k \in 1 .. Len(types) : Len(s) + k \in 1 .. Len(r) /\ r[Len(s) + k] = Event(types[k], c, n)
  <2> SUFFICES ASSUME NEW k \in 1 .. Len(types)
               PROVE  Len(s) + k \in 1 .. Len(r) /\ r[Len(s) + k] = Event(types[k], c, n)
    OBVIOUS
  <2>1. Len(s) + k \in 1 .. Len(s) + Len(types) /\ ~(Len(s) + k <= Len(s))
        /\ (Len(s) + k) - Len(s) = k
    BY <1>3
  <2>2. r[Len(s) + k] = events[k]
    BY <1>1, <1>2, <2>1
  <2>3. QED  BY <1>1, <1>3, <2>1, <2>2
<1>6. ASSUME NEW i \in 1 .. Len(r), r[i].type \in CallTypes
      PROVE  LET Earlier(type) == \E j \in 1 .. i - 1 : r[j] = Event(type, r[i].id, r[i].n)
             IN  /\ r[i].type # "tool.call.requested" => Earlier("tool.call.requested")
                 /\ \A type \in CallTypes : Earlier(type) => Rank(type) < Rank(r[i].type)
                 /\ r[i].type = "tool.call.completed" /\ Earlier("tool.call.approved") =>
                      Earlier("tool.call.started")
  <2> DEFINE Earlier(type) == \E j \in 1 .. i - 1 : r[j] = Event(type, r[i].id, r[i].n)
  <2>1. CASE i <= Len(s)
    <3>1. i \in 1 .. Len(s) /\ r[i] = s[i]
      BY <1>3, <1>4, <2>1
    <3> DEFINE EarlierInS(type) == \E j \in 1 .. i - 1 : s[j] = Event(type, s[i].id, s[i].n)
    <3>2. \A type : Earlier(type) <=> EarlierInS(type)
      BY <1>3, <1>4, <3>1
    <3>3. /\ s[i].type # "tool.call.requested" => EarlierInS("tool.call.requested")
          /\ \A type \in CallTypes : EarlierInS(type) => Rank(type) < Rank(s[i].type)
          /\ s[i].type = "tool.call.completed" /\ EarlierInS("tool.call.approved") =>
               EarlierInS("tool.call.started")
      BY <1>6, <3>1 DEF CallsLive
    <3> HIDE DEF Earlier, EarlierInS
    <3>4. /\ r[i].type # "tool.call.requested" => Earlier("tool.call.requested")
          /\ \A type \in CallTypes : Earlier(type) => Rank(type) < Rank(r[i].type)
          /\ r[i].type = "tool.call.completed" /\ Earlier("tool.call.approved") =>
               Earlier("tool.call.started")
      BY ONLY <3>1, <3>2, <3>3
    <3>5. QED  BY <3>4 DEF Earlier
  <2>2. CASE i > Len(s)
    <3> DEFINE k == i - Len(s)
               before == KindsIn(s, c, n) \cup {types[j] : j \in 1 .. k - 1}
    <3>1. k \in 1 .. Len(types) /\ i = Len(s) + k
      BY <1>3, <2>2
    <3> HIDE DEF k
    <3>2. r[i] = Event(types[k], c, n)
      BY <1>5, <3>1
    <3>3. r[i].type = types[k] /\ r[i].id = c /\ r[i].n = n
      <4>1. r[i] = [type |-> types[k], id |-> c, n |-> n]
        BY <3>2 DEF Event
      <4>2. QED  BY ONLY <4>1
    <3>4. ASSUME NEW type \in CallTypes
          PROVE  Earlier(type) <=> type \in before
      <4>1. ASSUME Earlier(type) PROVE type \in before
        <5>1. PICK j \in 1 .. i - 1 : r[j] = Event(type, c, n)
          BY <3>3, <4>1
        <5>2. CASE j <= Len(s)
          <6>1. j \in 1 .. Len(s) /\ s[j] = Event(type, c, n)
            BY <1>3, <1>4, <3>1, <5>1, <5>2
          <6>2. QED  BY <6>1 DEF KindsIn, SaidBy
        <5>3. CASE j > Len(s)
          <6>1. j - Len(s) \in 1 .. k - 1 /\ j = Len(s) + (j - Len(s))
            BY <1>3, <3>1, <5>3
          <6>2. r[j] = Event(types[j - Len(s)], c, n)
            BY <1>5, <3>1, <6>1
          <6>3. types[j - Len(s)] = type
            BY <5>1, <6>2 DEF Event
          <6>4. QED  BY <6>1, <6>3
        <5>4. QED  BY <1>3, <5>2, <5>3
      <4>2. ASSUME type \in before PROVE Earlier(type)
        <5>1. CASE type \in KindsIn(s, c, n)
          <6>1. PICK j \in 1 .. Len(s) : s[j] = Event(type, c, n)
            BY <5>1 DEF KindsIn, SaidBy
          <6>2. j \in 1 .. i - 1 /\ r[j] = Event(type, c, n)
            BY <1>3, <1>4, <3>1, <6>1
          <6>3. QED  BY <3>3, <6>2
        <5>2. CASE \E j \in 1 .. k - 1 : type = types[j]
          <6>1. PICK j \in 1 .. k - 1 : type = types[j]
            BY <5>2
          <6>2. j \in 1 .. Len(types) /\ Len(s) + j \in 1 .. i - 1
            BY <1>3, <3>1, <6>1
          <6>3. r[Len(s) + j] = Event(type, c, n)
            BY <1>5, <6>1, <6>2
          <6>4. QED  BY <3>3, <6>2, <6>3
        <5>3. QED  BY <4>2, <5>1, <5>2
      <4>3. QED  BY <4>1, <4>2
    <3>5. /\ types[k] # "tool.call.requested" => "tool.call.requested" \in before
          /\ \A type \in before : Rank(type) < Rank(types[k])
          /\ types[k] = "tool.call.completed" /\ "tool.call.approved" \in before =>
               "tool.call.started" \in before
      BY <3>1 DEF Follows
    <3>6. {"tool.call.requested", "tool.call.approved", "tool.call.started"} \subseteq CallTypes
      BY DEF CallTypes
    <3> HIDE DEF Earlier, before
    <3>7. /\ r[i].type # "tool.call.requested" => Earlier("tool.call.requested")
          /\ \A type \in CallTypes : Earlier(type) => Rank(type) < Rank(r[i].type)
          /\ r[i].type = "tool.call.completed" /\ Earlier("tool.call.approved") =>
               Earlier("tool.call.started")
      BY ONLY <3>3, <3>4, <3>5, <3>6
    <3>8. QED  BY <3>7 DEF Earlier
  <2>3. QED  BY <1>3, <2>1, <2>2
<1>7. CallsLive(r)
  BY <1>6 DEF CallsLive
<1>8. QED  BY <1>7 DEF r, events

\* Events about no call change no life.
LEMMA LivePlain ==
    ASSUME NEW s \in Seq(SentEvents), CallsLive(s), NEW events \in Seq(SentEvents),
           \A i \in 1 .. Len(events) : events[i].type \notin CallTypes
    PROVE  CallsLive(s \o events)
<1> DEFINE r == s \o events
<1>1. /\ r \in Seq(SentEvents) /\ Len(r) = Len(s) + Len(events)
      /\ \A i \in 1 .. Len(s) + Len(events) :
           r[i] = IF i <= Len(s) THEN s[i] ELSE events[i - Len(s)]
      /\ Len(s) \in Nat /\ Len(events) \in Nat
  <2>1. s \in Seq(SentEvents) /\ events \in Seq(SentEvents)
    OBVIOUS
  <2>2. QED  BY ONLY <2>1, ConcatProperties
<1> HIDE DEF r
<1>2. \A i \in 1 .. Len(s) : r[i] = s[i]
  BY ONLY <1>1
<1>3. \A i \in 1 .. Len(r) : r[i].type \in CallTypes => i \in 1 .. Len(s)
  BY <1>1
<1>4. ASSUME NEW i \in 1 .. Len(r), r[i].type \in CallTypes
      PROVE  LET Earlier(type) == \E j \in 1 .. i - 1 : r[j] = Event(type, r[i].id, r[i].n)
             IN  /\ r[i].type # "tool.call.requested" => Earlier("tool.call.requested")
                 /\ \A type \in CallTypes : Earlier(type) => Rank(type) < Rank(r[i].type)
                 /\ r[i].type = "tool.call.completed" /\ Earlier("tool.call.approved") =>
                      Earlier("tool.call.started")
  <2> DEFINE Earlier(type) == \E j \in 1 .. i - 1 : r[j] = Event(type, r[i].id, r[i].n)
             EarlierInS(type) == \E j \in 1 .. i - 1 : s[j] = Event(type, s[i].id, s[i].n)
  <2>1. i \in 1 .. Len(s) /\ r[i] = s[i]
    BY <1>2, <1>3, <1>4
  <2>2. \A type : Earlier(type) <=> EarlierInS(type)
    <3>1. Len(s) \in Nat /\ i \in 1 .. Len(s)
      BY <1>1, <2>1
    <3>2. \A j \in 1 .. i - 1 : r[j] = s[j]
      BY <1>2, <3>1
    <3>3. QED  BY ONLY <2>1, <3>2
  <2>3. /\ s[i].type # "tool.call.requested" => EarlierInS("tool.call.requested")
        /\ \A type \in CallTypes : EarlierInS(type) => Rank(type) < Rank(s[i].type)
        /\ s[i].type = "tool.call.completed" /\ EarlierInS("tool.call.approved") =>
             EarlierInS("tool.call.started")
    BY <1>4, <2>1 DEF CallsLive
  <2> HIDE DEF Earlier, EarlierInS
  <2>4. /\ r[i].type # "tool.call.requested" => Earlier("tool.call.requested")
        /\ \A type \in CallTypes : Earlier(type) => Rank(type) < Rank(r[i].type)
        /\ r[i].type = "tool.call.completed" /\ Earlier("tool.call.approved") =>
             Earlier("tool.call.started")
    BY ONLY <2>1, <2>2, <2>3
  <2>5. QED  BY <2>4 DEF Earlier
<1>5. CallsLive(r)
  BY <1>4 DEF CallsLive
<1>6. QED  BY <1>5 DEF r


\* So a step keeps a task's calls right if what it says of a call may follow.
LEMMA LifeGrows ==
    ASSUME StreamTypeOK, NEW t \in Tasks, CallsLive(Sent(t)),
           NEW events \in Seq(SentEvents), NEW shut, Emit(t, events, shut),
           \/ closed[t]
           \/ \A i \in 1 .. Len(events) : events[i].type \notin CallTypes
           \/ \E c \in Calls, n \in Nat, types \in Seq(CallTypes) :
                /\ events = [i \in 1 .. Len(types) |-> Event(types[i], c, n)]
                /\ Follows(KindsIn(Sent(t), c, n), types)
    PROVE  CallsLive(Sent(t)')
<1> DEFINE s == Sent(t)
           r == Sent(t)'
<1>1. s \in Seq(SentEvents) /\ r = (IF closed[t] THEN s ELSE s \o events) /\ CallsLive(s)
  <2>1. s \in Seq(SentEvents)
    BY DEF StreamTypeOK, Sent
  <2>2. QED  BY <2>1, SentAfter
<1>2. CASE \E c \in Calls, n \in Nat, types \in Seq(CallTypes) :
              /\ events = [i \in 1 .. Len(types) |-> Event(types[i], c, n)]
              /\ Follows(KindsIn(s, c, n), types)
  <2>1. PICK c \in Calls, n \in Nat, types \in Seq(CallTypes) :
              /\ events = [i \in 1 .. Len(types) |-> Event(types[i], c, n)]
              /\ Follows(KindsIn(s, c, n), types)
    BY <1>2
  <2> HIDE DEF s, r
  <2>2. CallsLive(s \o events)
    BY <1>1, <2>1, LiveGrows
  <2>3. CallsLive(r)
    BY <1>1, <2>2
  <2>4. QED  BY <2>3 DEF r
<1>3. CASE \A i \in 1 .. Len(events) : events[i].type \notin CallTypes
  <2> HIDE DEF s, r
  <2>1. CallsLive(s \o events)
    BY <1>1, <1>3, LivePlain
  <2>2. CallsLive(r)
    BY <1>1, <2>1
  <2>3. QED  BY <2>2 DEF r
<1>4. CASE closed[t]
  <2>1. r = s /\ CallsLive(s)
    BY <1>1, <1>4
  <2> HIDE DEF s, r
  <2>2. CallsLive(r)
    BY <2>1
  <2>3. QED  BY <2>2 DEF r
<1>5. QED  BY <1>2, <1>3, <1>4

\* A step that is no step of a tool says nothing of a call.
LEMMA NotOfCalls ==
    ASSUME StreamInv, NEW t \in Tasks, Stepped(t), ~ToolStep(t), CallsLive(Sent(t))
    PROVE  /\ CallsLive(Sent(t)')
           /\ \A e : e.type \in CallTypes => (e \in Said(t)' <=> e \in Said(t))
           /\ Said(t) \subseteq Said(t)'
           /\ closed[t] => closed'[t]
<1>1. PICK events \in Seq(SentEvents), shut \in BOOLEAN :
         /\ Emit(t, events, shut)
         /\ \A i \in 1 .. Len(events) : events[i].type \notin CallTypes
  BY DEF Stepped, Moves, Tells
<1>2. StreamTypeOK
  BY DEF StreamInv
<1>3. CallsLive(Sent(t)')
  BY <1>1, <1>2, LifeGrows
<1>4. Said(t)' = Said(t) \cup (IF closed[t] THEN {} ELSE SaidBy(events))
  BY <1>1, <1>2, SaidGrows
<1>5. \A e \in SaidBy(events) : e.type \notin CallTypes
  BY <1>1 DEF SaidBy
<1>6. closed[t] => closed'[t]
  BY <1>1, <1>2, SentAfter
<1>7. QED  BY <1>3, <1>4, <1>5, <1>6

\* What a tool's step says is of one call; and it is said, unless the queue is
\* closed.
LEMMA CallSaid ==
    ASSUME StreamTypeOK, NEW t \in Tasks, NEW c \in Calls, NEW n \in Nat,
           NEW types \in Seq(CallTypes), CallsLive(Sent(t)),
           Push(t, [i \in 1 .. Len(types) |-> Event(types[i], c, n)]),
           closed[t] \/ Follows(KindsIn(Sent(t), c, n), types)
    PROVE  /\ CallsLive(Sent(t)')
           /\ Said(t) \subseteq Said(t)'
           /\ \A e \in Said(t)' :
                \/ e \in Said(t)
                \/ ~closed[t] /\ \E i \in 1 .. Len(types) : e = Event(types[i], c, n)
           /\ closed[t] => Said(t)' = Said(t)
           /\ ~closed[t] => \A i \in 1 .. Len(types) : Event(types[i], c, n) \in Said(t)'
           /\ closed' = closed
<1> DEFINE events == [i \in 1 .. Len(types) |-> Event(types[i], c, n)]
<1>1. Emit(t, events, FALSE)
  BY DEF Push
<1>2. /\ events \in Seq(SentEvents) /\ Len(events) = Len(types)
      /\ \A i \in 1 .. Len(events) : events[i] = Event(types[i], c, n)
  BY CallEvents
<1>3. CallsLive(Sent(t)')
  BY <1>1, <1>2, LifeGrows
<1> HIDE DEF events
<1>4. Said(t)' = Said(t) \cup (IF closed[t] THEN {} ELSE SaidBy(events))
  BY <1>1, <1>2, SaidGrows
<1>5. SaidBy(events) = {Event(types[i], c, n) : i \in 1 .. Len(types)}
  BY <1>2 DEF SaidBy
<1>6. closed' = closed
  BY <1>1 DEF Emit, StreamTypeOK
<1>7. QED  BY <1>3, <1>4, <1>5, <1>6

\* The kinds of what was said of attempt n of call c of task t.
Kinds(t, c, n) == KindsIn(Sent(t), c, n)

\* What adapters say of one call, one kind after the other.
LEMMA FollowsAre ==
    /\ Follows({}, <<"tool.call.requested">>)
    /\ Follows({}, <<"tool.call.requested", "tool.call.started">>)
    /\ Follows({}, <<"tool.call.requested", "tool.call.started", "tool.call.completed">>)
    /\ Follows({}, <<"tool.call.requested", "tool.call.approved", "tool.call.started">>)
    /\ Follows({}, <<"tool.call.requested", "tool.call.completed">>)
    /\ Follows({"tool.call.requested"}, <<"tool.call.approved", "tool.call.started">>)
    /\ Follows({"tool.call.requested"}, <<"tool.call.completed">>)
    /\ Follows({"tool.call.requested", "tool.call.started"}, <<"tool.call.completed">>)
    /\ Follows({"tool.call.requested", "tool.call.approved", "tool.call.started"},
               <<"tool.call.completed">>)
    /\ \A kinds : Follows(kinds, << >>)
<1>1. Follows({}, <<"tool.call.requested">>)
  BY DEF Follows, Rank
<1>2. Follows({}, <<"tool.call.requested", "tool.call.started">>)
  BY DEF Follows, Rank
<1>3. Follows({}, <<"tool.call.requested", "tool.call.started", "tool.call.completed">>)
  BY DEF Follows, Rank
<1>4. Follows({}, <<"tool.call.requested", "tool.call.approved", "tool.call.started">>)
  BY DEF Follows, Rank
<1>5. Follows({}, <<"tool.call.requested", "tool.call.completed">>)
  BY DEF Follows, Rank
<1>6. Follows({"tool.call.requested"}, <<"tool.call.approved", "tool.call.started">>)
  BY DEF Follows, Rank
<1>7. Follows({"tool.call.requested"}, <<"tool.call.completed">>)
  BY DEF Follows, Rank
<1>8. Follows({"tool.call.requested", "tool.call.started"}, <<"tool.call.completed">>)
  BY DEF Follows, Rank
<1>9. Follows({"tool.call.requested", "tool.call.approved", "tool.call.started"},
              <<"tool.call.completed">>)
  BY DEF Follows, Rank
<1>10. \A kinds : Follows(kinds, << >>)
  BY DEF Follows
<1>11. QED  BY <1>1, <1>2, <1>3, <1>4, <1>5, <1>6, <1>7, <1>8, <1>9, <1>10

\* The kinds of what a tool's step has said, afterwards.
LEMMA KindsGrow ==
    ASSUME StreamTypeOK, NEW t \in Tasks, NEW c \in Calls, NEW n \in Nat,
           NEW types \in Seq(CallTypes), ~closed[t],
           Push(t, [i \in 1 .. Len(types) |-> Event(types[i], c, n)])
    PROVE  \A d \in Calls, m \in Nat :
              Kinds(t, d, m)' = IF d = c /\ m = n THEN Kinds(t, c, n) \cup SaidBy(types)
                                ELSE Kinds(t, d, m)
<1> DEFINE events == [i \in 1 .. Len(types) |-> Event(types[i], c, n)]
<1>1. Emit(t, events, FALSE)
  BY DEF Push
<1>2. /\ events \in Seq(SentEvents) /\ Len(events) = Len(types)
      /\ \A i \in 1 .. Len(events) : events[i] = Event(types[i], c, n)
  BY CallEvents
<1> HIDE DEF events
<1>3. Said(t)' = Said(t) \cup SaidBy(events)
  BY <1>1, <1>2, SaidGrows
<1>4. SaidBy(events) = {Event(types[i], c, n) : i \in 1 .. Len(types)}
  BY <1>2 DEF SaidBy
<1>5. \A d, m : /\ Kinds(t, d, m) = {type \in CallTypes : Event(type, d, m) \in Said(t)}
                /\ Kinds(t, d, m)' = {type \in CallTypes : Event(type, d, m) \in Said(t)'}
  BY DEF Kinds, KindsIn, SaidBy, Said
<1>6. \A type, d, m : Event(type, d, m) \in SaidBy(events) <=>
                        type \in SaidBy(types) /\ d = c /\ m = n
  BY <1>4 DEF Event, SaidBy
<1>7. SaidBy(types) \subseteq CallTypes
  BY DEF SaidBy
<1>8. ASSUME NEW d \in Calls, NEW m \in Nat
      PROVE  Kinds(t, d, m)' = IF d = c /\ m = n THEN Kinds(t, c, n) \cup SaidBy(types)
                               ELSE Kinds(t, d, m)
  <2>1. CASE d = c /\ m = n
    <3>1. \A type \in CallTypes : Event(type, d, m) \in Said(t)' <=>
             Event(type, c, n) \in Said(t) \/ type \in SaidBy(types)
      BY <1>3, <1>6, <2>1
    <3>2. Kinds(t, d, m)' = Kinds(t, c, n) \cup SaidBy(types)
      BY <1>5, <1>7, <3>1
    <3>3. QED  BY <2>1, <3>2
  <2>2. CASE ~(d = c /\ m = n)
    <3>1. \A type : Event(type, d, m) \in Said(t)' <=> Event(type, d, m) \in Said(t)
      BY <1>3, <1>6, <2>2
    <3>2. {type \in CallTypes : Event(type, d, m) \in Said(t)'}
            = {type \in CallTypes : Event(type, d, m) \in Said(t)}
      BY ONLY <3>1
    <3>3. QED  BY <1>5, <2>2, <3>2
  <2>3. QED  BY <2>1, <2>2
<1>9. QED  BY <1>8

\* They are as they were if nothing is said of a call.
LEMMA KindsStay ==
    ASSUME NEW t \in Tasks,
           \A e : e.type \in CallTypes => (e \in Said(t)' <=> e \in Said(t))
    PROVE  \A c, n : Kinds(t, c, n)' = Kinds(t, c, n)
<1> SUFFICES ASSUME NEW c, NEW n PROVE Kinds(t, c, n)' = Kinds(t, c, n)
  OBVIOUS
<1>1. /\ Kinds(t, c, n) = {type \in CallTypes : Event(type, c, n) \in Said(t)}
      /\ Kinds(t, c, n)' = {type \in CallTypes : Event(type, c, n) \in Said(t)'}
  BY DEF Kinds, KindsIn, SaidBy, Said
<1>2. ASSUME NEW type \in CallTypes
      PROVE  Event(type, c, n) \in Said(t)' <=> Event(type, c, n) \in Said(t)
  <2>1. Event(type, c, n).type = type
    BY DEF Event
  <2>2. QED  BY <2>1
<1>3. QED  BY <1>1, <1>2

\* The kinds of steps that emit two events about a call, or three.
LEMMA SaidTwo ==
    ASSUME NEW a, NEW b
    PROVE  SaidBy(<<a, b>>) = {a, b}
<1>1. Len(<<a, b>>) = 2 /\ <<a, b>>[1] = a /\ <<a, b>>[2] = b /\ 1 .. 2 = {1, 2}
  OBVIOUS
<1>2. QED  BY <1>1 DEF SaidBy

\* What three events say.
LEMMA SaidThree ==
    ASSUME NEW a, NEW b, NEW c
    PROVE  SaidBy(<<a, b, c>>) = {a, b, c}
<1>1. /\ Len(<<a, b, c>>) = 3 /\ <<a, b, c>>[1] = a /\ <<a, b, c>>[2] = b
      /\ <<a, b, c>>[3] = c /\ 1 .. 3 = {1, 2, 3}
  OBVIOUS
<1>2. QED  BY <1>1 DEF SaidBy

-----------------------------------------------------------------------------
(* What each adapter knows of its calls                                    *)

\* Claude has a handler for every call that it said something about, and says
\* nothing but the request.
ClaudeLife(t) ==
    \A e \in Said(t) : e.type \in CallTypes =>
        e.type = "tool.call.requested" /\ e.n = 1 /\ handler[t][e.id] # NoCall

\* Gemini says nothing but the request of a call.
GeminiLife(t) ==
    \A e \in Said(t) : e.type \in CallTypes => e.type = "tool.call.requested"

\* The state of a call tells OpenCode what it has said about the attempt, as
\* long as it is heard; and nothing is said about an attempt to come.
OpencodeLife(t) ==
    /\ \A e \in Said(t) : e.type \in CallTypes => e.n <= attempts[e.id]
    /\ \A c \in Calls :
         /\ attemptOf[t][c] <= attempts[c]
         /\ ~closed[t] => \A n \in Nat : n = attemptOf[t][c] =>
              /\ toolState[t][c] = "requested" => Kinds(t, c, n) = {"tool.call.requested"}
              /\ toolState[t][c] = "running" =>
                   Kinds(t, c, n) =
                     {"tool.call.requested", "tool.call.approved", "tool.call.started"}

\* The state of an item tells Codex what it has said about it, likewise.
CodexLife(t) ==
    ~closed[t] => \A c \in Calls :
        /\ items[t][c] = "none" => Kinds(t, c, 1) = {}
        /\ items[t][c] = "started" =>
             Kinds(t, c, 1) = {"tool.call.requested", "tool.call.started"}

LifeOf(t) ==
    /\ CallsLive(Sent(t))
    /\ adapter = "claude" => ClaudeLife(t)
    /\ adapter = "gemini" => GeminiLife(t)
    /\ adapter = "opencode" => OpencodeLife(t)
    /\ adapter = "codex" => CodexLife(t)

\* A handler that was called is never one that was not.
LEMMA HandlersStay ==
    ASSUME ClaudeTypeOK, NEW t \in Tasks, ClaudeStep(t)
    PROVE  \A u \in Tasks, c \in Calls : handler[u][c] # NoCall => handler'[u][c] # NoCall
<1>1. CASE ClaudeToolCall(t)
  <2>1. PICK d \in Calls : handler' = [handler EXCEPT ![t][d] = Waiting]
    BY <1>1 DEF ClaudeToolCall
  <2>2. QED  BY <2>1 DEF ClaudeTypeOK, NoCall, Waiting
<1>2. CASE ClaudeAnswer(t)
  <2>1. PICK e \in Unanswered(t), verdict \in {"result", "denied"} :
           handler' = [u \in Tasks |->
                          IF u \in PendingFor(t, e.id)
                          THEN [handler[u] EXCEPT
                                  ![e.id] = [task |-> t, verdict |-> verdict]]
                          ELSE handler[u]]
    BY <1>2 DEF ClaudeAnswer
  <2>2. [task |-> t, verdict |-> verdict] # NoCall
    BY DEF NoCall
  <2>3. QED  BY <2>1, <2>2 DEF ClaudeTypeOK
<1>3. CASE ~ClaudeToolCall(t) /\ ~ClaudeAnswer(t)
  <2>1. handler' = handler
    BY <1>3 DEF ClaudeStep, ClaudeStart, ClaudeOpen, ClaudeReject, ClaudeMessage,
                ClaudeEnd, ClaudeThrow,
         ClaudeStop, claudeVars
  <2>2. QED  BY <2>1
<1>4. QED  BY <1>1, <1>2, <1>3

\* Claude's steps.
LEMMA ClaudeLives ==
    ASSUME AdapterInv, NEW t \in Tasks, Stepped(t), adapter = "claude", ClaudeStep(t),
           CallsLive(Sent(t)), ClaudeLife(t)
    PROVE  CallsLive(Sent(t)') /\ ClaudeLife(t)'
<1>1. /\ StreamInv /\ StreamTypeOK /\ ClaudeTypeOK
      /\ Said(t) \subseteq SentEvents
  BY DEF AdapterInv, AdapterTypeOK, StreamInv, StreamTypeOK, Said, Sent
<1>2. \A e \in SentEvents : e.type \in CallTypes => e.id \in Calls
  BY DEF SentEvents, PlainTypes
<1>3. \A c \in Calls : handler[t][c] # NoCall => handler'[t][c] # NoCall
  BY <1>1, HandlersStay
<1>4. CASE ClaudeToolCall(t)
  <2>1. PICK c \in Calls :
           /\ handler[t][c] = NoCall
           /\ handler' = [handler EXCEPT ![t][c] = Waiting]
           /\ Push(t, <<Event("tool.call.requested", c, 1)>>)
    BY <1>4 DEF ClaudeToolCall
  <2> DEFINE types == <<"tool.call.requested">>
  <2>2. <<Event("tool.call.requested", c, 1)>> =
          [i \in 1 .. Len(types) |-> Event(types[i], c, 1)]
    OBVIOUS
  <2>3. types \in Seq(CallTypes) /\ SaidBy(types) = {"tool.call.requested"}
    BY SaidOne DEF CallTypes
  <2>4. KindsIn(Sent(t), c, 1) = {}
    <3>1. \A type \in CallTypes : Event(type, c, 1) \notin Said(t)
      BY <2>1 DEF ClaudeLife, Event
    <3>2. QED  BY <3>1 DEF KindsIn, SaidBy, Said
  <2>5. Follows(KindsIn(Sent(t), c, 1), types)
    BY <2>4, FollowsAre
  <2>6. Push(t, [i \in 1 .. Len(types) |-> Event(types[i], c, 1)])
    BY <2>1, <2>2
  <2>7. \A i \in 1 .. Len(types) : types[i] = "tool.call.requested"
    OBVIOUS
  <2> HIDE DEF types
  <2>8. /\ CallsLive(Sent(t)')
        /\ \A e \in Said(t)' :
             e \in Said(t) \/ \E i \in 1 .. Len(types) : e = Event(types[i], c, 1)
    BY <1>1, <2>3, <2>5, <2>6, CallSaid
  <2>9. handler'[t][c] # NoCall
    BY <1>1, <2>1 DEF ClaudeTypeOK, NoCall, Waiting
  <2>10. ASSUME NEW e \in Said(t)', e.type \in CallTypes
         PROVE  e.type = "tool.call.requested" /\ e.n = 1 /\ handler'[t][e.id] # NoCall
    <3>1. CASE e \in Said(t)
      BY <1>1, <1>2, <1>3, <2>10, <3>1 DEF ClaudeLife
    <3>2. CASE e = Event("tool.call.requested", c, 1)
      BY <2>9, <3>2 DEF Event
    <3>3. QED  BY <2>7, <2>8, <3>1, <3>2
  <2>11. QED  BY <2>8, <2>10 DEF ClaudeLife
<1>5. CASE ~ClaudeToolCall(t)
  <2>1. ~ToolStep(t)
    BY <1>5 DEF ToolStep
  <2>2. /\ CallsLive(Sent(t)')
        /\ \A e : e.type \in CallTypes => (e \in Said(t)' <=> e \in Said(t))
    BY <1>1, <2>1, NotOfCalls
  <2>3. ASSUME NEW e \in Said(t)', e.type \in CallTypes
        PROVE  e.type = "tool.call.requested" /\ e.n = 1 /\ handler'[t][e.id] # NoCall
    BY <1>1, <1>2, <1>3, <2>2, <2>3 DEF ClaudeLife
  <2>4. QED  BY <2>2, <2>3 DEF ClaudeLife
<1>6. QED  BY <1>4, <1>5

\* Gemini's steps.
LEMMA GeminiLives ==
    ASSUME AdapterInv, RequestsCounted, NEW t \in Tasks, Stepped(t), adapter = "gemini",
           GeminiStep(t), CallsLive(Sent(t)), GeminiLife(t)
    PROVE  CallsLive(Sent(t)') /\ GeminiLife(t)'
<1>1. StreamInv /\ StreamTypeOK /\ attempts \in [Calls -> Nat]
  BY AdapterAssumption DEF AdapterInv, AdapterTypeOK, StreamInv, AttemptsBounded
<1>2. CASE GeminiToolCall(t)
  <2>1. PICK c \in Calls : Push(t, <<Event("tool.call.requested", c, attempts[c] + 1)>>)
    BY <1>2 DEF GeminiToolCall, NextAttempt
  <2> DEFINE types == <<"tool.call.requested">>
             n == attempts[c] + 1
  <2>2. <<Event("tool.call.requested", c, n)>> = [i \in 1 .. Len(types) |-> Event(types[i], c, n)]
    OBVIOUS
  <2>3. types \in Seq(CallTypes) /\ n \in Nat /\ n > attempts[c] /\ attempts[c] \in Nat
    BY <1>1 DEF CallTypes
  <2>4. \A i \in 1 .. Len(types) : types[i] = "tool.call.requested"
    OBVIOUS
  <2>5. Push(t, [i \in 1 .. Len(types) |-> Event(types[i], c, n)])
    BY <2>1, <2>2
  <2> HIDE DEF n
  <2>6. \A type \in CallTypes : Event(type, c, n) \notin Said(t)
    <3> SUFFICES ASSUME NEW type \in CallTypes, Event(type, c, n) \in Said(t) PROVE FALSE
      OBVIOUS
    <3> DEFINE e == Event(type, c, n)
    <3>1. e.type = type /\ e.id = c /\ e.n = n
      BY DEF Event
    <3>2. e.type = "tool.call.requested"
      BY <3>1 DEF GeminiLife
    <3> HIDE DEF e
    <3>3. e.n <= attempts[e.id]
      BY <3>2 DEF RequestsCounted, e
    <3>4. QED  BY <2>3, <3>1, <3>3
  <2>7. KindsIn(Sent(t), c, n) = {}
    BY <2>6 DEF KindsIn, SaidBy, Said
  <2>8. Follows(KindsIn(Sent(t), c, n), types)
    BY <2>7, FollowsAre
  <2> HIDE DEF types
  <2>9. /\ CallsLive(Sent(t)')
        /\ \A e \in Said(t)' :
             e \in Said(t) \/ \E i \in 1 .. Len(types) : e = Event(types[i], c, n)
    BY <1>1, <2>3, <2>5, <2>8, CallSaid
  <2>10. ASSUME NEW e \in Said(t)', e.type \in CallTypes
         PROVE  e.type = "tool.call.requested"
    <3>1. CASE e \in Said(t)
      BY <2>10, <3>1 DEF GeminiLife
    <3>2. CASE e = Event("tool.call.requested", c, n)
      BY <3>2 DEF Event
    <3>3. QED  BY <2>4, <2>9, <3>1, <3>2
  <2>11. QED  BY <2>9, <2>10 DEF GeminiLife
<1>3. CASE ~GeminiToolCall(t)
  <2>1. ~ToolStep(t)
    BY <1>3 DEF ToolStep
  <2>2. /\ CallsLive(Sent(t)')
        /\ \A e : e.type \in CallTypes => (e \in Said(t)' <=> e \in Said(t))
    BY <1>1, <2>1, NotOfCalls
  <2>3. QED  BY <2>2 DEF GeminiLife
<1>4. QED  BY <1>2, <1>3

\* What two sequences are when they are joined.
LEMMA JoinIs ==
    ASSUME NEW S, NEW x \in Seq(S), NEW y \in Seq(S), NEW z \in Seq(S),
           Len(z) = Len(x) + Len(y),
           \A i \in 1 .. Len(x) : z[i] = x[i],
           \A i \in 1 .. Len(y) : z[Len(x) + i] = y[i]
    PROVE  x \o y = z
<1> DEFINE r == x \o y
<1>1. /\ r \in Seq(S) /\ Len(r) = Len(z) /\ Len(x) \in Nat /\ Len(y) \in Nat
      /\ \A i \in 1 .. Len(r) : r[i] = IF i <= Len(x) THEN x[i] ELSE y[i - Len(x)]
  BY ConcatProperties
<1> HIDE DEF r
<1>2. ASSUME NEW i \in 1 .. Len(r)
      PROVE  r[i] = z[i]
  <2>1. CASE i <= Len(x)
    BY <1>1, <2>1
  <2>2. CASE i > Len(x)
    <3> DEFINE k == i - Len(x)
    <3>1. k \in 1 .. Len(y) /\ Len(x) + k = i /\ r[i] = y[k]
      BY <1>1, <2>2
    <3> HIDE DEF k
    <3>2. z[Len(x) + k] = y[k]
      BY <3>1
    <3>3. QED  BY <3>1, <3>2
  <2>3. QED  BY <1>1, <2>1, <2>2
<1>3. r = z
  BY <1>1, <1>2, SeqEqual
<1>4. QED  BY <1>3 DEF r

\* Short sequences, joined.
LEMMA ShortJoins ==
    ASSUME NEW a \in CallTypes, NEW b \in CallTypes, NEW c \in CallTypes
    PROVE  /\ <<a>> \o <<b>> = <<a, b>>
           /\ <<a, b>> \o <<c>> = <<a, b, c>>
           /\ <<a>> \o <<b, c>> = <<a, b, c>>
           /\ <<a>> \o << >> = <<a>> /\ << >> \o <<a>> = <<a>>
           /\ <<a, b>> \o << >> = <<a, b>> /\ << >> \o <<a, b>> = <<a, b>>
<1>1. <<a>> \o <<b>> = <<a, b>>
  <2> DEFINE x == <<a>>
             y == <<b>>
             z == <<a, b>>
  <2>1. /\ x \in Seq(CallTypes) /\ Len(x) = 1 /\ x[1] = a
        /\ y \in Seq(CallTypes) /\ Len(y) = 1 /\ y[1] = b
        /\ z \in Seq(CallTypes) /\ Len(z) = 2 /\ z[1] = a /\ z[2] = b
    OBVIOUS
  <2> HIDE DEF x, y, z
  <2>2. /\ Len(z) = Len(x) + Len(y)
        /\ \A i \in 1 .. Len(x) : z[i] = x[i]
        /\ \A i \in 1 .. Len(y) : z[Len(x) + i] = y[i]
    BY <2>1
  <2>3. x \o y = z
    BY ONLY <2>1, <2>2, JoinIs
  <2>4. QED  BY <2>3 DEF x, y, z
<1>2. <<a, b>> \o <<c>> = <<a, b, c>>
  <2> DEFINE x == <<a, b>>
             y == <<c>>
             z == <<a, b, c>>
  <2>1. /\ x \in Seq(CallTypes) /\ Len(x) = 2 /\ x[1] = a /\ x[2] = b
        /\ y \in Seq(CallTypes) /\ Len(y) = 1 /\ y[1] = c
        /\ z \in Seq(CallTypes) /\ Len(z) = 3 /\ z[1] = a /\ z[2] = b /\ z[3] = c
    OBVIOUS
  <2> HIDE DEF x, y, z
  <2>2. /\ Len(z) = Len(x) + Len(y)
        /\ \A i \in 1 .. Len(x) : z[i] = x[i]
        /\ \A i \in 1 .. Len(y) : z[Len(x) + i] = y[i]
    BY <2>1
  <2>3. x \o y = z
    BY ONLY <2>1, <2>2, JoinIs
  <2>4. QED  BY <2>3 DEF x, y, z
<1>3. <<a>> \o <<b, c>> = <<a, b, c>>
  <2> DEFINE x == <<a>>
             y == <<b, c>>
             z == <<a, b, c>>
  <2>1. /\ x \in Seq(CallTypes) /\ Len(x) = 1 /\ x[1] = a
        /\ y \in Seq(CallTypes) /\ Len(y) = 2 /\ y[1] = b /\ y[2] = c
        /\ z \in Seq(CallTypes) /\ Len(z) = 3 /\ z[1] = a /\ z[2] = b /\ z[3] = c
    OBVIOUS
  <2> HIDE DEF x, y, z
  <2>2. /\ Len(z) = Len(x) + Len(y)
        /\ \A i \in 1 .. Len(x) : z[i] = x[i]
        /\ \A i \in 1 .. Len(y) : z[Len(x) + i] = y[i]
    BY <2>1
  <2>3. x \o y = z
    BY ONLY <2>1, <2>2, JoinIs
  <2>4. QED  BY <2>3 DEF x, y, z
<1>4. /\ <<a>> \o << >> = <<a>> /\ << >> \o <<a>> = <<a>>
      /\ <<a, b>> \o << >> = <<a, b>> /\ << >> \o <<a, b>> = <<a, b>>
  <2>1. <<a>> \in Seq(CallTypes) /\ <<a, b>> \in Seq(CallTypes)
    OBVIOUS
  <2>2. \A s \in Seq(CallTypes) : s \o << >> = s /\ << >> \o s = s
    BY ConcatEmptySeq
  <2>3. QED  BY ONLY <2>1, <2>2
<1>5. QED  BY <1>1, <1>2, <1>3, <1>4

\* Codex's steps.
LEMMA CodexLives ==
    ASSUME AdapterInv, NEW t \in Tasks, Stepped(t), adapter = "codex", CodexStep(t),
           CallsLive(Sent(t)), CodexLife(t)
    PROVE  CallsLive(Sent(t)') /\ CodexLife(t)'
<1>1. StreamInv /\ StreamTypeOK /\ CodexTypeOK
  BY DEF AdapterInv, AdapterTypeOK, StreamInv
<1>2. CASE CodexItem(t)
  <2>1. PICK c \in Calls, finished \in BOOLEAN :
           LET types == Opening(t, c) \o IF finished THEN <<"tool.call.completed">> ELSE << >>
           IN  /\ items[t][c] # "completed"
               /\ items' = [items EXCEPT ![t][c] = IF finished THEN "completed" ELSE "started"]
               /\ Push(t, [i \in 1 .. Len(types) |-> Event(types[i], c, 1)])
    BY <1>2 DEF CodexItem
  <2> DEFINE types == Opening(t, c) \o IF finished THEN <<"tool.call.completed">> ELSE << >>
             after == IF finished THEN "completed" ELSE "started"
             kinds == Kinds(t, c, 1)
  <2>2. types =
          IF items[t][c] = "none"
          THEN IF finished
               THEN <<"tool.call.requested", "tool.call.started", "tool.call.completed">>
               ELSE <<"tool.call.requested", "tool.call.started">>
          ELSE IF finished THEN <<"tool.call.completed">> ELSE << >>
    BY ShortJoins, << >> \o << >> = << >> DEF Opening, CallTypes
  <2>3. items[t][c] \in {"none", "started"} /\ items' = [items EXCEPT ![t][c] = after]
    BY <1>1, <2>1 DEF CodexTypeOK
  <2>4. Push(t, [i \in 1 .. Len(types) |-> Event(types[i], c, 1)])
    BY <2>1
  <2>5. ~closed[t] => kinds = IF items[t][c] = "none" THEN {}
                             ELSE {"tool.call.requested", "tool.call.started"}
    BY <2>3 DEF CodexLife
  <2>6. /\ types \in Seq(CallTypes)
        /\ ~closed[t] => Follows(kinds, types)
        /\ ~closed[t] /\ after = "started" =>
             kinds \cup SaidBy(types) = {"tool.call.requested", "tool.call.started"}
    <3> HIDE DEF types, kinds
    <3>1. CASE items[t][c] = "none" /\ finished
      <4>1. types = <<"tool.call.requested", "tool.call.started", "tool.call.completed">>
        BY <2>2, <3>1
      <4>2. types \in Seq(CallTypes) /\ after = "completed"
        BY <3>1, <4>1 DEF CallTypes
      <4>3. ~closed[t] => Follows(kinds, types)
        BY <2>5, <3>1, <4>1, FollowsAre
      <4>4. QED  BY <4>2, <4>3
    <3>2. CASE items[t][c] = "none" /\ ~finished
      <4>1. types = <<"tool.call.requested", "tool.call.started">>
        BY <2>2, <3>2
      <4>2. SaidBy(types) = {"tool.call.requested", "tool.call.started"}
        BY <4>1, SaidTwo
      <4>3. QED  BY <2>5, <3>2, <4>1, <4>2, FollowsAre DEF CallTypes
    <3>3. CASE items[t][c] = "started" /\ finished
      <4>1. types = <<"tool.call.completed">>
        BY <2>2, <3>3
      <4>2. types \in Seq(CallTypes) /\ after = "completed"
        BY <3>3, <4>1 DEF CallTypes
      <4>3. ~closed[t] => Follows(kinds, types)
        BY <2>5, <3>3, <4>1, FollowsAre
      <4>4. QED  BY <4>2, <4>3
    <3>4. CASE items[t][c] = "started" /\ ~finished
      <4>1. types = << >>
        BY <2>2, <3>4
      <4>2. SaidBy(types) = {}
        BY <4>1 DEF SaidBy
      <4>3. types \in Seq(CallTypes)
        BY <4>1
      <4>4. QED  BY <2>5, <3>4, <4>1, <4>2, <4>3, FollowsAre
    <3>5. QED  BY <2>3, <3>1, <3>2, <3>3, <3>4
  <2> HIDE DEF types
  <2>7. CallsLive(Sent(t)') /\ closed' = closed
    BY <1>1, <2>4, <2>6, CallSaid DEF Kinds
  <2>8. ASSUME ~closed'[t], NEW d \in Calls
        PROVE  /\ items'[t][d] = "none" => Kinds(t, d, 1)' = {}
               /\ items'[t][d] = "started" =>
                    Kinds(t, d, 1)' = {"tool.call.requested", "tool.call.started"}
    <3>1. ~closed[t]
      BY <2>7, <2>8
    <3>2. Kinds(t, d, 1)' = IF d = c THEN kinds \cup SaidBy(types) ELSE Kinds(t, d, 1)
      BY <1>1, <2>4, <2>6, <3>1, KindsGrow
    <3>3. CASE d = c
      BY <1>1, <2>3, <2>6, <3>1, <3>2, <3>3 DEF CodexTypeOK
    <3>4. CASE d # c
      <4>1. items'[t][d] = items[t][d]
        BY <1>1, <2>3, <3>4 DEF CodexTypeOK
      <4>2. QED  BY <3>1, <3>2, <3>4, <4>1 DEF CodexLife
    <3>5. QED  BY <3>3, <3>4
  <2>9. QED  BY <2>7, <2>8 DEF CodexLife
<1>3. CASE ~CodexItem(t)
  <2>1. ~ToolStep(t)
    BY <1>3 DEF ToolStep
  <2>2. /\ CallsLive(Sent(t)')
        /\ \A e : e.type \in CallTypes => (e \in Said(t)' <=> e \in Said(t))
        /\ closed[t] => closed'[t]
    BY <1>1, <2>1, NotOfCalls
  <2>3. \A c \in Calls : Kinds(t, c, 1)' = Kinds(t, c, 1)
    BY <2>2, KindsStay
  <2>4. items' = items
    BY <1>3 DEF CodexStep, CodexStart, CodexExists, CodexRead, CodexTruncate, CodexWrite,
         CodexReject, CodexInput, CodexOpen, CodexEvent, CodexEnd, CodexThrow, CodexStop,
         codexVars
  <2>5. QED  BY <2>2, <2>3, <2>4 DEF CodexLife
<1>4. QED  BY <1>2, <1>3

\* What handleToolPart says of a call may follow what it has said of the
\* attempt, and the status that it records stands for all of it.
LEMMA PartLives ==
    ASSUME NEW isNew \in BOOLEAN, NEW before \in {"requested", "running"},
           NEW state \in {"pending", "running", "completed"}, NEW kinds,
           isNew => before = "requested" /\ kinds = {},
           ~isNew => kinds = IF before = "requested" THEN {"tool.call.requested"}
                             ELSE {"tool.call.requested", "tool.call.approved",
                                   "tool.call.started"}
    PROVE  LET types == PartTypes(isNew, before, state)
               after == StatusAfter(before, state)
           IN  /\ Follows(kinds, types)
               /\ after = "requested" => kinds \cup SaidBy(types) = {"tool.call.requested"}
               /\ after = "running" =>
                    kinds \cup SaidBy(types) =
                      {"tool.call.requested", "tool.call.approved", "tool.call.started"}
<1> DEFINE types == PartTypes(isNew, before, state)
           after == StatusAfter(before, state)
<1>1. /\ << >> \o << >> = << >>
      /\ "tool.call.requested" \in CallTypes /\ "tool.call.approved" \in CallTypes
      /\ "tool.call.started" \in CallTypes /\ "tool.call.completed" \in CallTypes
  BY DEF CallTypes
<1>2. CASE isNew
  <2>1. before = "requested" /\ kinds = {}
    BY <1>2
  <2>2. types = <<"tool.call.requested">> \o ToolEvents(before, state)
    BY <1>2 DEF PartTypes
  <2> HIDE DEF types
  <2>3. CASE state = "pending"
    <3>1. types = <<"tool.call.requested">> /\ after = "requested"
      BY <1>1, <2>1, <2>2, <2>3, ShortJoins DEF ToolEvents, StatusAfter
    <3>2. QED  BY <2>1, <3>1, FollowsAre, SaidOne DEF types
  <2>4. CASE state = "running"
    <3>1. /\ types = <<"tool.call.requested", "tool.call.approved", "tool.call.started">>
          /\ after = "running"
      BY <1>1, <2>1, <2>2, <2>4, ShortJoins DEF ToolEvents, StatusAfter
    <3>2. SaidBy(types) =
            {"tool.call.requested", "tool.call.approved", "tool.call.started"}
      BY <3>1, SaidThree
    <3>3. Follows(kinds, types)
      BY <2>1, <3>1, FollowsAre
    <3>4. QED  BY <2>1, <3>1, <3>2, <3>3 DEF types
  <2>5. CASE state = "completed"
    <3>1. types = <<"tool.call.requested", "tool.call.completed">> /\ after = "completed"
      BY <1>1, <2>1, <2>2, <2>5, ShortJoins DEF ToolEvents, StatusAfter
    <3>2. QED  BY <2>1, <3>1, FollowsAre DEF types
  <2>6. QED  BY <2>3, <2>4, <2>5
<1>3. CASE ~isNew
  <2>1. types = << >> \o ToolEvents(before, state)
    BY <1>3 DEF PartTypes
  <2> HIDE DEF types
  <2>2. CASE state = "pending" \/ state = before
    <3>1. types = << >> /\ after = before
      BY <1>1, <2>1, <2>2 DEF ToolEvents, StatusAfter
    <3>2. SaidBy(types) = {}
      BY <3>1 DEF SaidBy
    <3>3. QED  BY <1>3, <3>1, <3>2, FollowsAre DEF types
  <2>3. CASE state = "running" /\ before = "requested"
    <3>1. types = <<"tool.call.approved", "tool.call.started">> /\ after = "running"
      BY <1>1, <2>1, <2>3, ShortJoins DEF ToolEvents, StatusAfter
    <3>2. SaidBy(types) = {"tool.call.approved", "tool.call.started"}
      BY <3>1, SaidTwo
    <3>3. kinds = {"tool.call.requested"} /\ Follows(kinds, types)
      BY <1>3, <2>3, <3>1, FollowsAre
    <3>4. QED  BY <3>1, <3>2, <3>3 DEF types
  <2>4. CASE state = "completed"
    <3>1. types = <<"tool.call.completed">> /\ after = "completed"
      BY <1>1, <2>1, <2>4, ShortJoins DEF ToolEvents, StatusAfter
    <3>2. Follows(kinds, types)
      BY <1>3, <3>1, FollowsAre
    <3>3. QED  BY <3>1, <3>2 DEF types
  <2>5. QED  BY <2>2, <2>3, <2>4
<1>4. QED  BY <1>2, <1>3

\* OpenCode's steps.
LEMMA OpencodeLives ==
    ASSUME AdapterInv, NEW t \in Tasks, Stepped(t), adapter = "opencode", OpencodeStep(t),
           CallsLive(Sent(t)), OpencodeLife(t)
    PROVE  CallsLive(Sent(t)') /\ OpencodeLife(t)'
<1>1. StreamInv /\ StreamTypeOK /\ OpencodeTypeOK /\ attempts \in [Calls -> Nat]
      /\ Said(t) \subseteq SentEvents
  BY AdapterAssumption
     DEF AdapterInv, AdapterTypeOK, StreamInv, AttemptsBounded, StreamTypeOK, Said, Sent
<1>2. \A e \in SentEvents : e.type \in CallTypes => e.id \in Calls /\ e.n \in Nat
  BY DEF SentEvents, PlainTypes
<1>3. CASE OpencodeToolPart(t)
  <2>1. PICK c \in Calls, state \in {"pending", "running", "completed"} :
           LET isNew  == IsNewAttempt(t, c)
               n      == IF isNew THEN attempts[c] + 1 ELSE attemptOf[t][c]
               before == IF isNew THEN "requested" ELSE toolState[t][c]
               types  == PartTypes(isNew, before, state)
           IN  /\ attempts' = [attempts EXCEPT ![c] = IF isNew THEN n ELSE attempts[c]]
               /\ attemptOf' = [attemptOf EXCEPT ![t][c] = n]
               /\ toolState' = [toolState EXCEPT ![t][c] = StatusAfter(before, state)]
               /\ Push(t, [i \in 1 .. Len(types) |-> Event(types[i], c, n)])
    BY <1>3 DEF OpencodeToolPart, PartTypes
  <2> DEFINE isNew  == IsNewAttempt(t, c)
             n      == IF isNew THEN attempts[c] + 1 ELSE attemptOf[t][c]
             before == IF isNew THEN "requested" ELSE toolState[t][c]
             types  == PartTypes(isNew, before, state)
             after  == StatusAfter(before, state)
             kinds  == Kinds(t, c, n)
  <2>2. /\ attempts' = [attempts EXCEPT ![c] = IF isNew THEN n ELSE attempts[c]]
        /\ attemptOf' = [attemptOf EXCEPT ![t][c] = n]
        /\ toolState' = [toolState EXCEPT ![t][c] = after]
        /\ Push(t, [i \in 1 .. Len(types) |-> Event(types[i], c, n)])
    BY <2>1
  <2>3. /\ isNew \in BOOLEAN /\ before \in {"requested", "running"}
        /\ isNew => before = "requested"
        /\ attemptOf[t][c] \in Nat /\ attempts[c] \in Nat /\ n \in Nat
        /\ ~isNew => before = toolState[t][c] /\ n = attemptOf[t][c]
    BY <1>1 DEF OpencodeTypeOK, IsNewAttempt
  <2>4. /\ attempts'[c] \in Nat /\ n <= attempts'[c]
        /\ \A d \in Calls : attempts'[d] >= attempts[d]
    BY <1>1, <2>2, <2>3 DEF OpencodeLife
  <2>5. isNew => kinds = {}
    <3> SUFFICES ASSUME isNew, NEW type \in CallTypes, Event(type, c, n) \in Said(t)
                 PROVE  FALSE
      BY DEF Kinds, KindsIn, SaidBy, Said
    <3>1. Event(type, c, n).type = type /\ Event(type, c, n).id = c /\ Event(type, c, n).n = n
      BY DEF Event
    <3>2. n <= attempts[c]
      BY <3>1 DEF OpencodeLife
    <3>3. QED  BY <2>3, <3>2
  <2>6. ~closed[t] /\ ~isNew =>
           kinds = IF before = "requested" THEN {"tool.call.requested"}
                   ELSE {"tool.call.requested", "tool.call.approved", "tool.call.started"}
    BY <2>3 DEF OpencodeLife
  <2>7. types \in Seq(CallTypes)
    BY <2>3, PartTypesAre
  <2>8. ~closed[t] =>
           /\ Follows(kinds, types)
           /\ after = "requested" => kinds \cup SaidBy(types) = {"tool.call.requested"}
           /\ after = "running" =>
                kinds \cup SaidBy(types) =
                  {"tool.call.requested", "tool.call.approved", "tool.call.started"}
    <3> SUFFICES ASSUME ~closed[t]
                 PROVE  /\ Follows(kinds, types)
                        /\ after = "requested" =>
                             kinds \cup SaidBy(types) = {"tool.call.requested"}
                        /\ after = "running" =>
                             kinds \cup SaidBy(types) =
                               {"tool.call.requested", "tool.call.approved",
                                "tool.call.started"}
      OBVIOUS
    <3>1. ~isNew =>
             kinds = IF before = "requested" THEN {"tool.call.requested"}
                     ELSE {"tool.call.requested", "tool.call.approved", "tool.call.started"}
      BY <2>6
    <3>2. isNew => before = "requested" /\ kinds = {}
      BY <2>3, <2>5
    <3>3. /\ isNew \in BOOLEAN /\ before \in {"requested", "running"}
          /\ state \in {"pending", "running", "completed"}
      BY <2>3
    <3> HIDE DEF isNew, before, kinds, n
    <3>4. /\ Follows(kinds, PartTypes(isNew, before, state))
          /\ StatusAfter(before, state) = "requested" =>
               kinds \cup SaidBy(PartTypes(isNew, before, state)) = {"tool.call.requested"}
          /\ StatusAfter(before, state) = "running" =>
               kinds \cup SaidBy(PartTypes(isNew, before, state)) =
                 {"tool.call.requested", "tool.call.approved", "tool.call.started"}
      BY ONLY <3>1, <3>2, <3>3, PartLives
    <3>5. QED  BY ONLY <3>4
  <2> HIDE DEF isNew, n, before, types, after
  <2>9. /\ CallsLive(Sent(t)') /\ closed' = closed
        /\ \A e \in Said(t)' :
             e \in Said(t) \/ \E i \in 1 .. Len(types) : e = Event(types[i], c, n)
    BY <1>1, <2>2, <2>3, <2>7, <2>8, CallSaid DEF Kinds
  <2>10. ASSUME NEW e \in Said(t)', e.type \in CallTypes
         PROVE  e.n <= attempts'[e.id]
    <3>1. CASE e \in Said(t)
      <4>1. e.id \in Calls /\ e.n \in Nat /\ e.n <= attempts[e.id]
        BY <1>1, <1>2, <2>10, <3>1 DEF OpencodeLife
      <4>2. attempts[e.id] \in Nat /\ attempts'[e.id] \in Nat /\ attempts'[e.id] >= attempts[e.id]
        BY <1>1, <2>2, <2>3, <2>4, <4>1
      <4>3. QED  BY ONLY <4>1, <4>2
    <3>2. CASE \E i \in 1 .. Len(types) : e = Event(types[i], c, n)
      <4>1. e.id = c /\ e.n = n
        BY <3>2 DEF Event
      <4>2. QED  BY <2>4, <4>1
    <3>3. QED  BY <2>9, <3>1, <3>2
  <2>11. ASSUME NEW d \in Calls
         PROVE  attemptOf'[t][d] <= attempts'[d]
    <3>1. CASE d = c
      BY <1>1, <2>2, <2>4, <3>1 DEF OpencodeTypeOK
    <3>2. CASE d # c
      <4>1. attemptOf'[t][d] = attemptOf[t][d] /\ attempts'[d] = attempts[d]
        BY <1>1, <2>2, <3>2 DEF OpencodeTypeOK
      <4>2. QED  BY <4>1 DEF OpencodeLife
    <3>3. QED  BY <3>1, <3>2
  <2>12. ASSUME ~closed'[t], NEW d \in Calls, NEW m \in Nat, m = attemptOf'[t][d]
         PROVE  /\ toolState'[t][d] = "requested" => Kinds(t, d, m)' = {"tool.call.requested"}
                /\ toolState'[t][d] = "running" =>
                     Kinds(t, d, m)' =
                       {"tool.call.requested", "tool.call.approved", "tool.call.started"}
    <3>1. ~closed[t]
      BY <2>9, <2>12
    <3>2. Kinds(t, d, m)' = IF d = c /\ m = n THEN kinds \cup SaidBy(types)
                            ELSE Kinds(t, d, m)
      <4>1. PICK k \in Nat, ts \in Seq(CallTypes) : k = n /\ ts = types
        BY <2>3, <2>7
      <4>2. Push(t, [i \in 1 .. Len(ts) |-> Event(ts[i], c, k)])
        <5>1. [i \in 1 .. Len(ts) |-> Event(ts[i], c, k)]
                = [i \in 1 .. Len(types) |-> Event(types[i], c, n)]
          BY ONLY <4>1
        <5>2. Push(t, [i \in 1 .. Len(types) |-> Event(types[i], c, n)])
          BY <2>2
        <5>3. QED  BY ONLY <5>1, <5>2
      <4>3. Kinds(t, d, m)' = IF d = c /\ m = k THEN Kinds(t, c, k) \cup SaidBy(ts)
                              ELSE Kinds(t, d, m)
        <5>1. StreamTypeOK
          BY <1>1
        <5>2. QED  BY ONLY <3>1, <4>2, <5>1, KindsGrow
      <4>4. QED  BY <4>1, <4>3
    <3>3. CASE d = c
      <4>1. m = n /\ toolState'[t][d] = after
        BY <1>1, <2>2, <2>12, <3>3 DEF OpencodeTypeOK
      <4>2. Kinds(t, d, m)' = kinds \cup SaidBy(types)
        BY <3>2, <3>3, <4>1
      <4>3. QED  BY <2>8, <3>1, <4>1, <4>2
    <3>4. CASE d # c
      <4>1. attemptOf'[t][d] = attemptOf[t][d] /\ toolState'[t][d] = toolState[t][d]
        BY <1>1, <2>2, <3>4 DEF OpencodeTypeOK
      <4>2. Kinds(t, d, m)' = Kinds(t, d, m) /\ m = attemptOf[t][d]
        BY <2>12, <3>2, <3>4, <4>1
      <4>3. QED  BY <3>1, <4>1, <4>2 DEF OpencodeLife
    <3>5. QED  BY <3>3, <3>4
  <2>13. QED  BY <2>9, <2>10, <2>11, <2>12 DEF OpencodeLife
<1>4. CASE ~OpencodeToolPart(t)
  <2>1. ~ToolStep(t)
    BY <1>4 DEF ToolStep
  <2>2. /\ CallsLive(Sent(t)')
        /\ \A e : e.type \in CallTypes => (e \in Said(t)' <=> e \in Said(t))
        /\ closed[t] => closed'[t]
    BY <1>1, <2>1, NotOfCalls
  <2>3. \A c, n : Kinds(t, c, n)' = Kinds(t, c, n)
    BY <2>2, KindsStay
  <2>4. UNCHANGED <<attempts, attemptOf, toolState>>
    BY <1>4 DEF OpencodeStep, OpencodeStart, OpencodeReject, OpencodeMcpStatus, OpencodeMcpAdd,
         OpencodeMcpConnect, OpencodeNoTools, OpencodeCapture, OpencodeOpen, OpencodeText,
         OpencodeMessage, OpencodeFail, OpencodeEnd, OpencodeStop, OpencodeAborted,
         opencodeVars, partVars
  <2>5. QED  BY <2>2, <2>3, <2>4 DEF OpencodeLife
<1>5. QED  BY <1>3, <1>4

LifeInv == RequestsCounted /\ AttemptsUnique /\ \A t \in Tasks : LifeOf(t)

\* OpenCode's counters are shared by the tasks; they only grow.
LEMMA OpencodeOthers ==
    ASSUME AdapterInv, NEW t \in Tasks, OpencodeStep(t), NEW u \in Tasks \ {t},
           OpencodeLife(u), Said(u)' = Said(u), closed'[u] = closed[u]
    PROVE  OpencodeLife(u)'
<1>1. /\ OpencodeTypeOK /\ attempts \in [Calls -> Nat] /\ Said(u) \subseteq SentEvents
  BY AdapterAssumption
     DEF AdapterInv, AdapterTypeOK, StreamInv, AttemptsBounded, StreamTypeOK, Said, Sent
<1>2. \A e \in SentEvents : e.type \in CallTypes => e.id \in Calls /\ e.n \in Nat
  BY DEF SentEvents, PlainTypes
<1>3. /\ attempts' \in [Calls -> Nat]
      /\ \A c \in Calls : /\ attempts'[c] >= attempts[c]
                          /\ attemptOf'[u][c] = attemptOf[u][c]
                          /\ toolState'[u][c] = toolState[u][c]
  <2>1. CASE OpencodeToolPart(t)
    <3>1. PICK c \in Calls, state \in {"pending", "running", "completed"} :
             LET isNew  == IsNewAttempt(t, c)
                 n      == IF isNew THEN attempts[c] + 1 ELSE attemptOf[t][c]
                 before == IF isNew THEN "requested" ELSE toolState[t][c]
             IN  /\ attempts' = [attempts EXCEPT ![c] = IF isNew THEN n ELSE attempts[c]]
                 /\ attemptOf' = [attemptOf EXCEPT ![t][c] = n]
                 /\ toolState' = [toolState EXCEPT ![t][c] = StatusAfter(before, state)]
      BY <2>1 DEF OpencodeToolPart
    <3>2. attempts[c] \in Nat
      BY <1>1
    <3>3. \/ attempts' = [attempts EXCEPT ![c] = attempts[c] + 1]
          \/ attempts' = [attempts EXCEPT ![c] = attempts[c]]
      BY <3>1
    <3>4. attempts' \in [Calls -> Nat] /\ \A d \in Calls : attempts'[d] >= attempts[d]
      BY <1>1, <3>2, <3>3
    <3>5. \A d \in Calls : attemptOf'[u][d] = attemptOf[u][d] /\ toolState'[u][d] = toolState[u][d]
      BY <1>1, <3>1 DEF OpencodeTypeOK
    <3>6. QED  BY <3>4, <3>5
  <2>2. CASE ~OpencodeToolPart(t)
    <3>1. UNCHANGED <<attempts, attemptOf, toolState>>
      BY <2>2 DEF OpencodeStep, OpencodeStart, OpencodeReject, OpencodeMcpStatus,
           OpencodeMcpAdd, OpencodeMcpConnect, OpencodeNoTools, OpencodeCapture, OpencodeOpen,
           OpencodeText, OpencodeMessage, OpencodeFail, OpencodeEnd, OpencodeStop,
           OpencodeAborted, opencodeVars, partVars
    <3>2. QED  BY <1>1, <3>1
  <2>3. QED  BY <2>1, <2>2
<1>4. \A c, n : Kinds(u, c, n)' = Kinds(u, c, n)
  BY KindsStay
<1>5. ASSUME NEW e \in Said(u)', e.type \in CallTypes
      PROVE  e.n <= attempts'[e.id]
  <2>1. e.id \in Calls /\ e.n \in Nat /\ e.n <= attempts[e.id]
    BY <1>1, <1>2, <1>5 DEF OpencodeLife
  <2>2. attempts[e.id] \in Nat /\ attempts'[e.id] \in Nat /\ attempts'[e.id] >= attempts[e.id]
    BY <1>1, <1>3, <2>1
  <2>3. QED  BY ONLY <2>1, <2>2
<1>6. ASSUME NEW c \in Calls
      PROVE  attemptOf'[u][c] <= attempts'[c]
  <2>1. attemptOf[u][c] \in Nat /\ attempts[c] \in Nat /\ attempts'[c] \in Nat
    BY <1>1, <1>3 DEF OpencodeTypeOK
  <2>2. attemptOf[u][c] <= attempts[c] /\ attempts'[c] >= attempts[c]
    BY <1>3 DEF OpencodeLife
  <2>3. attemptOf'[u][c] = attemptOf[u][c]
    BY <1>3
  <2>4. QED  BY ONLY <2>1, <2>2, <2>3
<1>7. QED  BY <1>3, <1>4, <1>5, <1>6 DEF OpencodeLife

\* Whatever an adapter says of a call, the call lives as it should.
LEMMA LifeStep ==
    ASSUME AdapterInv, LifeInv, Next
    PROVE  LifeInv'
<1>1. RequestsCounted' /\ AttemptsUnique'
  BY AttemptsStep DEF LifeInv
<1>2. CASE ~AdapterStep
  <2> SUFFICES ASSUME NEW u \in Tasks PROVE LifeOf(u)'
    BY <1>1 DEF LifeInv
  <2>1. /\ UNCHANGED <<closed, attempts, adapter>>
        /\ UNCHANGED <<handler, attemptOf, toolState, items>>
        /\ Sent(u)' = Sent(u) /\ Said(u)' = Said(u)
    BY <1>2, OtherSteps DEF claudeVars, opencodeVars, codexVars
  <2>2. \A c, n : Kinds(u, c, n)' = Kinds(u, c, n)
    BY <2>1, KindsStay
  <2>3. LifeOf(u)
    BY DEF LifeInv
  <2>4. QED
    BY <2>1, <2>2, <2>3 DEF LifeOf, ClaudeLife, GeminiLife, OpencodeLife, CodexLife
<1>3. CASE AdapterStep
  <2>1. PICK t \in Tasks :
          /\ Stepped(t)
          /\ adapter = "claude" => ClaudeStep(t)
          /\ adapter = "gemini" => GeminiStep(t)
          /\ adapter = "opencode" => OpencodeStep(t)
          /\ adapter = "codex" => CodexStep(t)
    BY <1>3, TheStep
  <2>2. /\ StreamInv /\ adapter' = adapter /\ ClaudeTypeOK /\ CodexTypeOK
        /\ adapter \in {"claude", "gemini", "opencode", "codex"}
    BY <1>3, <2>1, OthersStay DEF AdapterInv, AdapterTypeOK, AdapterStep
  <2> SUFFICES ASSUME NEW u \in Tasks PROVE LifeOf(u)'
    BY <1>1 DEF LifeInv
  <2>3. LifeOf(t) /\ LifeOf(u) /\ RequestsCounted
    BY DEF LifeInv
  <2>4. CASE u = t
    BY <2>1, <2>2, <2>3, <2>4, ClaudeLives, GeminiLives, OpencodeLives, CodexLives DEF LifeOf
  <2>5. CASE u # t
    <3>1. /\ Sent(u)' = Sent(u) /\ Said(u)' = Said(u) /\ closed'[u] = closed[u]
      BY <2>1, <2>2, <2>5, OthersStay
    <3>2. \A c, n : Kinds(u, c, n)' = Kinds(u, c, n)
      BY <3>1, KindsStay
    <3>3. CASE adapter = "claude"
      <4>1. Said(u) \subseteq SentEvents
        BY <2>2 DEF StreamInv, StreamTypeOK, Said, Sent
      <4>2. \A e \in Said(u) : e.type \in CallTypes => e.id \in Calls
        BY <4>1 DEF SentEvents, PlainTypes
      <4>3. \A c \in Calls : handler[u][c] # NoCall => handler'[u][c] # NoCall
        BY <2>1, <2>2, <3>3, HandlersStay
      <4>4. ClaudeLife(u)'
        BY <2>3, <3>1, <3>3, <4>2, <4>3 DEF LifeOf, ClaudeLife
      <4>5. QED  BY <2>2, <2>3, <3>1, <3>3, <4>4 DEF LifeOf
    <3>4. CASE adapter = "gemini"
      BY <2>2, <2>3, <3>1, <3>4 DEF LifeOf, GeminiLife
    <3>5. CASE adapter = "opencode"
      <4>1. OpencodeLife(u)'
        BY <2>1, <2>3, <2>5, <3>1, <3>5, OpencodeOthers DEF LifeOf
      <4>2. QED  BY <2>2, <2>3, <3>1, <3>5, <4>1 DEF LifeOf
    <3>6. CASE adapter = "codex"
      <4>1. \A c \in Calls : items'[u][c] = items[u][c]
        <5>1. CASE CodexItem(t)
          BY <2>2, <2>5, <5>1 DEF CodexItem, CodexTypeOK
        <5>2. CASE ~CodexItem(t)
          <6>1. items' = items
            BY <2>1, <3>6, <5>2 DEF CodexStep, CodexStart, CodexExists, CodexRead,
                 CodexTruncate, CodexWrite, CodexReject, CodexInput, CodexOpen, CodexEvent,
                 CodexEnd, CodexThrow, CodexStop, codexVars
          <6>2. QED  BY <6>1
        <5>3. QED  BY <5>1, <5>2
      <4>2. CodexLife(u)'
        BY <2>3, <3>1, <3>2, <3>6, <4>1 DEF LifeOf, CodexLife
      <4>3. QED  BY <2>2, <2>3, <3>1, <3>6, <4>2 DEF LifeOf
    <3>7. QED  BY <2>2, <3>3, <3>4, <3>5, <3>6
  <2>6. QED  BY <2>4, <2>5
<1>4. QED  BY <1>2, <1>3

\* Nothing is said of any call at first.
LEMMA LifeStarts == Init => LifeInv
<1> SUFFICES ASSUME Init PROVE LifeInv
  OBVIOUS
<1>1. \A t \in Tasks : Sent(t) = << >> /\ Said(t) = {}
  <2>1. << >> \o << >> = << >> /\ Len(<< >>) = 0
    BY ConcatEmptySeq
  <2>2. QED  BY <2>1 DEF Init, StreamInit, Sent, Said
<1>2. RequestsCounted
  BY <1>1 DEF RequestsCounted
<1>3. AttemptsUnique
  BY <1>1 DEF AttemptsUnique
<1>4. ASSUME NEW t \in Tasks
      PROVE  LifeOf(t)
  <2>1. CallsLive(Sent(t))
    BY <1>1 DEF CallsLive
  <2>2. ClaudeLife(t) /\ GeminiLife(t)
    BY <1>1 DEF ClaudeLife, GeminiLife
  <2>3. OpencodeLife(t)
    BY <1>1 DEF OpencodeLife, Init, StreamInit, OpencodeInit
  <2>4. CodexLife(t)
    <3>1. \A c \in Calls : Kinds(t, c, 1) = {}
      BY <1>1 DEF Kinds, KindsIn, SaidBy, Said
    <3>2. \A c \in Calls : items[t][c] = "none"
      BY DEF Init, CodexInit
    <3>3. QED  BY <3>1, <3>2 DEF CodexLife
  <2>5. QED  BY <2>1, <2>2, <2>3, <2>4 DEF LifeOf
<1>5. QED  BY <1>2, <1>3, <1>4 DEF LifeInv

\* What holds of the calls of every state.
LEMMA LifeHolds == Spec => []LifeInv
<1>1. Init => LifeInv
  BY LifeStarts
<1>2. AdapterInv /\ LifeInv /\ [Next]_vars => LifeInv'
  <2> SUFFICES ASSUME AdapterInv, LifeInv, [Next]_vars PROVE LifeInv'
    OBVIOUS
  <2>1. CASE Next
    BY <2>1, LifeStep
  <2>2. CASE UNCHANGED vars
    <3>1. UNCHANGED <<adapter, queue, got, closed, attempts, handler, attemptOf, toolState, items>>
      BY <2>2 DEF vars, streamVars, adapterVars, claudeVars, opencodeVars, codexVars
    <3>2. \A t \in Tasks : Sent(t)' = Sent(t) /\ Said(t)' = Said(t)
      BY <3>1 DEF Sent, Said
    <3>3. RequestsCounted' /\ AttemptsUnique'
      BY <3>1, <3>2 DEF LifeInv, RequestsCounted, AttemptsUnique
    <3>4. ASSUME NEW t \in Tasks
          PROVE  LifeOf(t)'
      <4>1. \A c, n : Kinds(t, c, n)' = Kinds(t, c, n)
        BY <3>2, KindsStay
      <4>2. LifeOf(t)
        BY DEF LifeInv
      <4>3. QED
        BY <3>1, <3>2, <4>1, <4>2
           DEF LifeOf, ClaudeLife, GeminiLife, OpencodeLife, CodexLife
    <3>5. QED  BY <3>3, <3>4 DEF LifeInv
  <2>3. QED  BY <2>1, <2>2
<1>3. QED  BY <1>1, <1>2, InvHolds, PTL DEF Spec

\* In every stream of every adapter, however the runtime repeats, reorders or
\* reuses its calls: an attempt is requested once, before anything else about
\* it, is started and completed at most once in that order, and an attempt of
\* a call id is never used again, in one task or in two.
THEOREM CallsAreAttempts == Spec => []ToolAttempts
<1>1. LifeInv => ToolAttempts
  BY DEF LifeInv, LifeOf, ToolAttempts, ToolLifecycle
<1>2. QED  BY <1>1, LifeHolds, PTL

-----------------------------------------------------------------------------
(* Claude's answers                                                        *)

\* Claude's handler of a call, and the answers the engine has sent.
HandlerKnown(t) ==
    \A c \in Calls :
        IF handler[t][c] \in {NoCall, Waiting} THEN \A a \in answered[t] : a.id # c
        ELSE /\ handler[t][c].task = t
             /\ [id |-> c, n |-> 1, verdict |-> handler[t][c].verdict] \in answered[t]

HandlersKnown ==
    \A t \in Tasks :
        IF adapter = "claude" THEN HandlerKnown(t)
        ELSE \A c \in Calls : handler[t][c] = NoCall

\* An answer finds its handler waiting.
LEMMA AnswerFinds ==
    ASSUME AdapterInv, NEW t \in Tasks, adapter = "claude", ClaudeLife(t), HandlerKnown(t),
           NEW e \in Unanswered(t)
    PROVE  /\ e.id \in Calls /\ e.n = 1
           /\ handler[t][e.id] = Waiting
           /\ PendingFor(t, e.id) = {t}
<1>1. /\ StreamInv /\ got[t] \in Seq(SentEvents) /\ queue[t] \in Seq(SentEvents)
  BY DEF AdapterInv, StreamInv, StreamTypeOK
<1>2. /\ e.type = "tool.call.requested" /\ e.id \in Calls
      /\ \E i \in 1 .. Len(got[t]) : e = got[t][i]
      /\ \A a \in answered[t] : a.id # e.id \/ a.n # e.n
  BY <1>1, UnansweredHasId
<1>3. PICK i \in 1 .. Len(got[t]) : e = got[t][i]
  BY <1>2
<1>4. e \in Said(t)
  <2>1. /\ Len(Sent(t)) = Len(got[t]) + Len(queue[t])
        /\ \A j \in 1 .. Len(got[t]) + Len(queue[t]) :
             Sent(t)[j] = IF j <= Len(got[t]) THEN got[t][j] ELSE queue[t][j - Len(got[t])]
    BY <1>1, ConcatProperties DEF Sent
  <2>2. Len(got[t]) \in Nat /\ Len(queue[t]) \in Nat
    BY <1>1
  <2>3. i \in 1 .. Len(got[t]) + Len(queue[t]) /\ i <= Len(got[t])
    <3>1. \A a, b \in Nat : i \in 1 .. a => i \in 1 .. a + b /\ i <= a
      OBVIOUS
    <3>2. QED  BY <2>2, <3>1
  <2>4. i \in 1 .. Len(Sent(t)) /\ Sent(t)[i] = e
    BY ONLY <1>3, <2>1, <2>3
  <2>5. QED  BY <2>4 DEF Said
<1>5. e.n = 1 /\ handler[t][e.id] # NoCall
  BY <1>2, <1>4 DEF ClaudeLife, CallTypes
<1>6. handler[t][e.id] = Waiting
  <2> SUFFICES ASSUME handler[t][e.id] # Waiting PROVE FALSE
    OBVIOUS
  <2> DEFINE a == [id |-> e.id, n |-> 1, verdict |-> handler[t][e.id].verdict]
  <2>1. a \in answered[t]
    BY <1>2, <1>5 DEF HandlerKnown
  <2>2. a.id = e.id /\ a.n = e.n
    BY <1>5
  <2>3. QED  BY <1>2, <2>1, <2>2
<1>7. QED  BY <1>2, <1>5, <1>6 DEF PendingFor

\* Only an adapter answers calls.
LEMMA AnswersStay ==
    ASSUME AdapterInv, Next, ~AdapterStep
    PROVE  UNCHANGED answered
BY NextIs, CreateTypes
   DEF Consume, Shift, TurnAway, CreateStep, AdapterInv, AdapterTypeOK, callerVars

\* Every step keeps what is known of Claude's handlers.
LEMMA HandlersStep ==
    ASSUME AdapterInv, LifeInv, HandlersKnown, Next
    PROVE  HandlersKnown'
<1>1. ClaudeTypeOK /\ AnsweredOK /\ StreamInv
  BY DEF AdapterInv, AdapterTypeOK
<1>2. CASE UNCHANGED <<adapter, handler, answered>>
  BY <1>2 DEF HandlersKnown, HandlerKnown
<1>3. CASE ~AdapterStep
  <2>1. UNCHANGED <<adapter, handler>>
    BY <1>3, OtherSteps DEF claudeVars
  <2>2. answered' = answered
    BY <1>3, AnswersStay
  <2>3. QED  BY <1>2, <2>1, <2>2
<1>4. CASE AdapterStep
  <2>1. PICK t \in Tasks :
          /\ Stepped(t)
          /\ adapter = "claude" => ClaudeStep(t)
          /\ adapter # "claude" => UNCHANGED claudeVars
    BY <1>4, TheStep
  <2>2. adapter' = adapter
    BY <1>1, <2>1, OthersStay
  <2>3. CASE adapter # "claude"
    BY <2>1, <2>2, <2>3 DEF claudeVars, HandlersKnown
  <2>4. CASE adapter = "claude"
    <3>1. ClaudeStep(t) /\ \A u \in Tasks : HandlerKnown(u) /\ ClaudeLife(u)
      BY <2>1, <2>4 DEF HandlersKnown, LifeInv, LifeOf
    <3> SUFFICES ASSUME NEW u \in Tasks, NEW c \in Calls
                 PROVE  IF handler'[u][c] \in {NoCall, Waiting}
                        THEN \A a \in answered'[u] : a.id # c
                        ELSE /\ handler'[u][c].task = u
                             /\ [id |-> c, n |-> 1, verdict |-> handler'[u][c].verdict]
                                  \in answered'[u]
      BY <2>2, <2>4 DEF HandlersKnown, HandlerKnown
    <3>2. IF handler[u][c] \in {NoCall, Waiting} THEN \A a \in answered[u] : a.id # c
          ELSE /\ handler[u][c].task = u
               /\ [id |-> c, n |-> 1, verdict |-> handler[u][c].verdict] \in answered[u]
      BY <3>1 DEF HandlerKnown
    <3>3. CASE ClaudeToolCall(t)
      <4>1. PICK d \in Calls :
               handler[t][d] = NoCall /\ handler' = [handler EXCEPT ![t][d] = Waiting]
        BY <3>3 DEF ClaudeToolCall
      <4>2. answered' = answered
        BY <3>3 DEF ClaudeToolCall, callerVars
      <4>3. CASE u = t /\ c = d
        <5>1. handler'[u][c] = Waiting /\ handler[u][c] = NoCall
          BY <1>1, <4>1, <4>3 DEF ClaudeTypeOK
        <5>2. QED  BY <3>2, <4>2, <5>1
      <4>4. CASE ~(u = t /\ c = d)
        <5>1. handler'[u][c] = handler[u][c]
          BY <1>1, <4>1, <4>4 DEF ClaudeTypeOK
        <5>2. QED  BY <3>2, <4>2, <5>1
      <4>5. QED  BY <4>3, <4>4
    <3>4. CASE ClaudeAnswer(t)
      <4>1. PICK e \in Unanswered(t), verdict \in {"result", "denied"} :
               /\ Answer(t, e, verdict)
               /\ handler' = [w \in Tasks |->
                                IF w \in PendingFor(t, e.id)
                                THEN [handler[w] EXCEPT
                                        ![e.id] = [task |-> t, verdict |-> verdict]]
                                ELSE handler[w]]
        BY <3>4 DEF ClaudeAnswer
      <4> DEFINE a == [id |-> e.id, n |-> e.n, verdict |-> verdict]
      <4>2. e.id \in Calls /\ e.n = 1 /\ handler[t][e.id] = Waiting /\ PendingFor(t, e.id) = {t}
        BY <2>4, <3>1, AnswerFinds
      <4>3. answered' = [answered EXCEPT ![t] = answered[t] \cup {a}] /\ a.id = e.id
        BY <4>1 DEF Answer
      <4>4. CASE u = t /\ c = e.id
        <5>1. handler'[u][c] = [task |-> t, verdict |-> verdict]
          BY <1>1, <4>1, <4>2, <4>4 DEF ClaudeTypeOK
        <5>2. a \in answered'[u]
          BY <1>1, <4>3, <4>4 DEF AnsweredOK
        <5>3. /\ handler'[u][c] \notin {NoCall, Waiting}
              /\ handler'[u][c].task = t /\ handler'[u][c].verdict = verdict
          BY <5>1 DEF NoCall, Waiting
        <5>4. a = [id |-> c, n |-> 1, verdict |-> handler'[u][c].verdict]
          BY <4>2, <4>4, <5>3
        <5>5. QED  BY <4>4, <5>2, <5>3, <5>4
      <4>5. CASE ~(u = t /\ c = e.id)
        <5>1. handler'[u][c] = handler[u][c]
          BY <1>1, <4>1, <4>2, <4>5 DEF ClaudeTypeOK
        <5>2. /\ answered[u] \subseteq answered'[u]
              /\ \A b \in answered'[u] : b \in answered[u] \/ b.id # c
          BY <1>1, <4>3, <4>5 DEF AnsweredOK
        <5>3. QED  BY <3>2, <5>1, <5>2
      <4>6. QED  BY <4>4, <4>5
    <3>5. CASE ~ClaudeToolCall(t) /\ ~ClaudeAnswer(t)
      <4>1. UNCHANGED <<handler, answered>>
        BY <3>1, <3>5 DEF ClaudeStep, ClaudeStart, ClaudeOpen, ClaudeReject, ClaudeMessage,
                          ClaudeEnd,
             ClaudeThrow, ClaudeStop, claudeVars, callerVars
      <4>2. QED  BY <3>2, <4>1
    <3>6. QED  BY <3>3, <3>4, <3>5
  <2>5. QED  BY <2>3, <2>4
<1>5. QED  BY <1>3, <1>4

-----------------------------------------------------------------------------
(* Gemini's turns                                                          *)

\* The calls that were answered to the model, or will be in the next turn.
Told(t) == FedIds(t) \o toolIds[t]

\* They are those that the stream asks for, in its order.
Matches(s, told) ==
    /\ Len(told) = Asked(s, Len(s))
    /\ \A i \in 1 .. Len(s) :
         s[i].type = "tool.call.requested" => told[Asked(s, i)] = Identity(s[i])

\* How many requests there are among the first events of a stream.
LEMMA AskedIs ==
    ASSUME NEW s, Len(s) \in Nat
    PROVE  \A n \in 0 .. Len(s) :
             /\ Asked(s, n) \in Nat /\ Asked(s, n) <= Asked(s, Len(s))
             /\ n > 0 /\ s[n].type = "tool.call.requested" => Asked(s, n) > 0
<1> SUFFICES ASSUME NEW n \in 0 .. Len(s)
             PROVE  /\ Asked(s, n) \in Nat /\ Asked(s, n) <= Asked(s, Len(s))
                    /\ n > 0 /\ s[n].type = "tool.call.requested" => Asked(s, n) > 0
  OBVIOUS
<1> DEFINE A == {i \in 1 .. n : s[i].type = "tool.call.requested"}
           B == {i \in 1 .. Len(s) : s[i].type = "tool.call.requested"}
<1>1. A \subseteq B /\ A \subseteq 1 .. n /\ B \subseteq 1 .. Len(s)
  OBVIOUS
<1>2. IsFiniteSet(1 .. Len(s)) /\ IsFiniteSet(1 .. n)
  BY FS_Interval
<1>3. IsFiniteSet(A) /\ IsFiniteSet(B)
  BY <1>1, <1>2, FS_Subset
<1>4. Asked(s, n) = Cardinality(A) /\ Asked(s, Len(s)) = Cardinality(B)
  BY DEF Asked
<1>5. n > 0 /\ s[n].type = "tool.call.requested" => n \in A
  OBVIOUS
<1> HIDE DEF A, B
<1>6. Cardinality(A) \in Nat /\ Cardinality(A) <= Cardinality(B)
  BY <1>1, <1>3, FS_CardinalityType, FS_Subset
<1>7. A # {} => Cardinality(A) # 0
  BY <1>3, FS_EmptySet
<1>8. QED  BY <1>4, <1>5, <1>6, <1>7

\* A longer stream has asked for the same in its first events.
LEMMA AskedStays ==
    ASSUME NEW s, NEW r, Len(s) \in Nat, Len(r) \in Nat, Len(s) <= Len(r),
           \A i \in 1 .. Len(s) : r[i] = s[i]
    PROVE  \A n \in 0 .. Len(s) : Asked(r, n) = Asked(s, n)
<1> SUFFICES ASSUME NEW n \in 0 .. Len(s)
             PROVE  Asked(r, n) = Asked(s, n)
  OBVIOUS
<1>1. {i \in 1 .. n : r[i].type = "tool.call.requested"}
        = {i \in 1 .. n : s[i].type = "tool.call.requested"}
  OBVIOUS
<1>2. QED  BY <1>1 DEF Asked

\* What is no request leaves the calls as they are.
LEMMA MatchesPlain ==
    ASSUME NEW s, NEW r, NEW told, Len(s) \in Nat, Len(r) \in Nat, Len(s) <= Len(r),
           \A i \in 1 .. Len(s) : r[i] = s[i],
           \A i \in 1 .. Len(r) : i > Len(s) => r[i].type # "tool.call.requested",
           Matches(s, told)
    PROVE  Matches(r, told)
<1>1. \A n \in 0 .. Len(s) : Asked(r, n) = Asked(s, n)
  BY AskedStays
<1>2. {i \in 1 .. Len(r) : r[i].type = "tool.call.requested"}
        = {i \in 1 .. Len(s) : r[i].type = "tool.call.requested"}
  OBVIOUS
<1>3. Asked(r, Len(r)) = Asked(r, Len(s))
  BY <1>2 DEF Asked
<1>4. Len(told) = Asked(r, Len(r))
  BY <1>1, <1>3 DEF Matches
<1>5. ASSUME NEW i \in 1 .. Len(r), r[i].type = "tool.call.requested"
      PROVE  told[Asked(r, i)] = Identity(r[i])
  <2>1. i \in 1 .. Len(s)
    BY <1>5
  <2>2. QED  BY <1>1, <1>5, <2>1 DEF Matches
<1>6. QED  BY <1>4, <1>5 DEF Matches

\* A request is the next of the calls.
LEMMA MatchesCall ==
    ASSUME NEW s, NEW r, NEW told \in Seq(CallIds), NEW call \in CallIds,
           Len(s) \in Nat, Len(r) = Len(s) + 1,
           \A i \in 1 .. Len(s) : r[i] = s[i],
           r[Len(s) + 1].type = "tool.call.requested", Identity(r[Len(s) + 1]) = call,
           Matches(s, told)
    PROVE  Matches(r, Append(told, call))
<1>1. \A n \in 0 .. Len(s) : Asked(r, n) = Asked(s, n)
  <2>1. Len(s) \in Nat /\ Len(r) \in Nat /\ Len(s) <= Len(r)
    OBVIOUS
  <2>2. \A i \in 1 .. Len(s) : r[i] = s[i]
    OBVIOUS
  <2>3. QED  BY ONLY <2>1, <2>2, AskedStays
<1> DEFINE A == {i \in 1 .. Len(s) : r[i].type = "tool.call.requested"}
           B == {i \in 1 .. Len(r) : r[i].type = "tool.call.requested"}
<1>2. B = A \cup {Len(s) + 1} /\ Len(s) + 1 \notin A
  OBVIOUS
<1>3. IsFiniteSet(A)
  <2>1. A \subseteq 1 .. Len(s) /\ IsFiniteSet(1 .. Len(s))
    BY FS_Interval
  <2>2. QED  BY <2>1, FS_Subset
<1>4. Cardinality(A) = Asked(r, Len(s)) /\ Cardinality(B) = Asked(r, Len(r))
  BY DEF Asked
<1> HIDE DEF A, B
<1>5. Cardinality(B) = Cardinality(A) + 1
  BY <1>2, <1>3, FS_AddElement
<1> DEFINE k == Len(told)
<1>6. k \in Nat /\ k = Asked(s, Len(s)) /\ Asked(r, Len(r)) = k + 1
  BY <1>1, <1>4, <1>5 DEF Matches
<1>7. /\ Len(Append(told, call)) = k + 1 /\ Append(told, call)[k + 1] = call
      /\ \A j \in 1 .. k : Append(told, call)[j] = told[j]
  BY DEF CallIds
<1> HIDE DEF k
<1>8. ASSUME NEW i \in 1 .. Len(r), r[i].type = "tool.call.requested"
      PROVE  Append(told, call)[Asked(r, i)] = Identity(r[i])
  <2>1. CASE i \in 1 .. Len(s)
    <3>1. Asked(r, i) = Asked(s, i) /\ Asked(s, i) \in Nat /\ Asked(s, i) <= k /\ Asked(s, i) > 0
      BY <1>1, <1>6, <1>8, <2>1, AskedIs
    <3>2. told[Asked(s, i)] = Identity(s[i]) /\ r[i] = s[i]
      BY <1>8, <2>1 DEF Matches
    <3>3. QED  BY <1>6, <1>7, <3>1, <3>2
  <2>2. CASE i = Len(s) + 1
    <3>1. i = Len(r)
      BY <2>2
    <3>2. Asked(r, i) = k + 1
      BY <1>6, <3>1
    <3>3. Identity(r[i]) = call
      BY <2>2
    <3>4. QED  BY <1>7, <3>2, <3>3
  <2>3. i \in 1 .. Len(s) \/ i = Len(s) + 1
    <3>1. \A a \in Nat : 1 .. a + 1 = (1 .. a) \cup {a + 1}
      OBVIOUS
    <3>2. QED  BY <3>1
  <2>4. QED  BY <2>1, <2>2, <2>3
<1>9. QED  BY <1>6, <1>7, <1>8 DEF Matches

\* What is fed was answered, and while nobody has stopped the task, what is
\* pending was too, and the calls are those the stream asks for.
TurnOf(t) ==
    /\ ToSet(fed[t]) \subseteq answered[t]
    /\ stopped[t] => halted[t]
    /\ ~halted[t] => pending[t] \subseteq answered[t]
    /\ ~stopped[t] =>
         /\ closed[t] => loop[t] = "ended"
         /\ Matches(Sent(t), Told(t))

TurnsKnown ==
    adapter = "gemini" =>
        /\ fed \in [Tasks -> Seq(Answers)]
        /\ \A t \in Tasks : TurnOf(t)

\* The calls a model was told the answers of are calls.
LEMMA ToldIs ==
    ASSUME NEW t \in Tasks, fed[t] \in Seq(Answers), toolIds[t] \in Seq(CallIds)
    PROVE  /\ FedIds(t) \in Seq(CallIds) /\ Told(t) \in Seq(CallIds)
           /\ Len(FedIds(t)) = Len(fed[t])
<1>1. \A a \in Answers : Identity(a) \in CallIds
  BY DEF Answers, Identity, CallIds
<1>2. FedIds(t) \in Seq(CallIds) /\ Len(FedIds(t)) = Len(fed[t])
  BY <1>1 DEF FedIds
<1>3. QED  BY <1>2 DEF Told

\* No step but a call's adds to what a stream asks for.
LEMMA MatchesStay ==
    ASSUME StreamInv, NEW t \in Tasks, Stepped(t), ~ToolStep(t), NEW told,
           Matches(Sent(t), told)
    PROVE  Matches(Sent(t)', told)
<1>1. PICK events \in Seq(SentEvents), shut \in BOOLEAN :
        Emit(t, events, shut) /\ Tells(t, events)
  BY DEF Stepped, Moves
<1>2. \A i \in 1 .. Len(events) : events[i].type # "tool.call.requested"
  BY <1>1 DEF Tells, CallTypes
<1>3. /\ Sent(t) \in Seq(SentEvents) /\ Sent(t)' \in Seq(SentEvents)
      /\ Len(Sent(t)') = IF closed[t] THEN Len(Sent(t)) ELSE Len(Sent(t)) + Len(events)
      /\ \A i \in 1 .. Len(Sent(t)) : Sent(t)'[i] = Sent(t)[i]
      /\ \A i \in 1 .. Len(Sent(t)') : i > Len(Sent(t)) =>
           /\ ~closed[t]
           /\ i - Len(Sent(t)) \in 1 .. Len(events)
           /\ Sent(t)'[i] = events[i - Len(Sent(t))]
  BY <1>1, SentGrows DEF StreamInv
<1>4. PICK s \in Seq(SentEvents), r \in Seq(SentEvents) : s = Sent(t) /\ r = Sent(t)'
  BY <1>3
<1>5. /\ Len(s) \in Nat /\ Len(r) \in Nat /\ Len(s) <= Len(r)
      /\ \A i \in 1 .. Len(s) : r[i] = s[i]
      /\ \A i \in 1 .. Len(r) : i > Len(s) => r[i].type # "tool.call.requested"
      /\ Matches(s, told)
  <2>1. Len(s) \in Nat /\ Len(r) \in Nat /\ Len(events) \in Nat
    OBVIOUS
  <2>2. Len(r) = IF closed[t] THEN Len(s) ELSE Len(s) + Len(events)
    BY <1>3, <1>4
  <2>3. Len(s) <= Len(r)
    BY ONLY <2>1, <2>2
  <2>4. QED  BY <1>2, <1>3, <1>4, <2>1, <2>3
<1>6. Matches(r, told)
  BY <1>5, MatchesPlain
<1>7. QED  BY <1>4, <1>6

\* Whatever happens to a task, the turns of the others are as they were.
LEMMA TurnsOfOthers ==
    ASSUME AdapterInv, NEW t \in Tasks, GeminiStep(t), fed \in [Tasks -> Seq(Answers)]
    PROVE  \A u \in Tasks \ {t} :
             /\ answered'[u] = answered[u] /\ fed'[u] = fed[u] /\ toolIds'[u] = toolIds[u]
             /\ pending'[u] = pending[u] /\ halted'[u] = halted[u]
<1>1. /\ answered \in [Tasks -> SUBSET Answers]
      /\ toolIds \in [Tasks -> Seq(CallIds)]
      /\ pending \in [Tasks -> SUBSET Answers]
      /\ halted \in [Tasks -> BOOLEAN]
  BY DEF AdapterInv, AdapterTypeOK, GeminiTypeOK, AnsweredOK
<1>2. UNCHANGED answered \/ \E S : answered' = [answered EXCEPT ![t] = S]
  BY DEF GeminiStep, GeminiStart, GeminiEnter, GeminiInitBegin, GeminiInitDone,
         GeminiInitFail, GeminiReject,
         GeminiOpen, GeminiText, GeminiToolCall, GeminiError, GeminiTurnDone, GeminiNextTurn,
         GeminiThrow, GeminiAnswer, GeminiStop, callerVars, Answer
<1>3. UNCHANGED toolIds \/ \E S : toolIds' = [toolIds EXCEPT ![t] = S]
  BY DEF GeminiStep, GeminiStart, GeminiEnter, GeminiInitBegin, GeminiInitDone,
         GeminiInitFail, GeminiReject,
         GeminiOpen, GeminiText, GeminiToolCall, GeminiError, GeminiTurnDone, GeminiNextTurn,
         GeminiThrow, GeminiAnswer, GeminiStop, geminiVars, turnVars
<1>4. UNCHANGED pending \/ \E S : pending' = [pending EXCEPT ![t] = S]
  BY DEF GeminiStep, GeminiStart, GeminiEnter, GeminiInitBegin, GeminiInitDone,
         GeminiInitFail, GeminiReject,
         GeminiOpen, GeminiText, GeminiToolCall, GeminiError, GeminiTurnDone, GeminiNextTurn,
         GeminiThrow, GeminiAnswer, GeminiStop, geminiVars, turnVars
<1>5. UNCHANGED fed \/ \E S : fed' = [fed EXCEPT ![t] = S]
  BY DEF GeminiStep, GeminiStart, GeminiEnter, GeminiInitBegin, GeminiInitDone,
         GeminiInitFail, GeminiReject,
         GeminiOpen, GeminiText, GeminiToolCall, GeminiError, GeminiTurnDone, GeminiNextTurn,
         GeminiThrow, GeminiAnswer, GeminiStop, geminiVars, turnVars
<1>6. UNCHANGED halted \/ \E S : halted' = [halted EXCEPT ![t] = S]
  BY DEF GeminiStep, GeminiStart, GeminiEnter, GeminiInitBegin, GeminiInitDone,
         GeminiInitFail, GeminiReject,
         GeminiOpen, GeminiText, GeminiToolCall, GeminiError, GeminiTurnDone, GeminiNextTurn,
         GeminiThrow, GeminiAnswer, GeminiStop, geminiVars, turnVars
<1> SUFFICES ASSUME NEW u \in Tasks \ {t}
             PROVE  /\ answered'[u] = answered[u] /\ fed'[u] = fed[u]
                    /\ toolIds'[u] = toolIds[u]
                    /\ pending'[u] = pending[u] /\ halted'[u] = halted[u]
  OBVIOUS
<1>7. answered'[u] = answered[u]
  BY <1>1, <1>2
<1>8. toolIds'[u] = toolIds[u]
  BY <1>1, <1>3
<1>9. pending'[u] = pending[u]
  BY <1>1, <1>4
<1>10. fed'[u] = fed[u]
  BY <1>5
<1>11. halted'[u] = halted[u]
  BY <1>1, <1>6
<1>12. QED  BY <1>7, <1>8, <1>9, <1>10, <1>11

\* The next turn's request answers the calls of this one, in their order, with
\* what is pending for them.
LEMMA RequestIs ==
    ASSUME AdapterInv, NEW t \in Tasks, \A e \in ToSet(toolIds[t]) : Resolved(t, e)
    PROVE  /\ Responses(t) \in Seq(Answers) /\ Len(Responses(t)) = Len(toolIds[t])
           /\ \A i \in 1 .. Len(toolIds[t]) :
                /\ Responses(t)[i] \in pending[t]
                /\ Identity(Responses(t)[i]) = toolIds[t][i]
<1>1. toolIds[t] \in Seq(CallIds) /\ pending[t] \subseteq Answers
  BY DEF AdapterInv, AdapterTypeOK, GeminiTypeOK
<1>2. ASSUME NEW i \in 1 .. Len(toolIds[t])
      PROVE  /\ Responses(t)[i] \in pending[t]
             /\ Identity(Responses(t)[i]) = toolIds[t][i]
  <2> DEFINE e == toolIds[t][i]
  <2>1. e \in CallIds /\ e \in ToSet(toolIds[t])
    BY <1>1 DEF ToSet
  <2>2. \E p \in pending[t] : p.id = e.id /\ p.n = e.n
    BY <2>1 DEF Resolved
  <2>3. Responses(t)[i] = [id |-> e.id, n |-> e.n, verdict |-> VerdictOf(t, e)]
    BY DEF Responses
  <2> HIDE DEF e
  <2>4. PICK p \in pending[t] :
           p.id = e.id /\ p.n = e.n /\ VerdictOf(t, e) = p.verdict
    BY <2>2 DEF VerdictOf
  <2>5. p = [id |-> e.id, n |-> e.n, verdict |-> VerdictOf(t, e)]
    BY <1>1, <2>4 DEF Answers
  <2>6. Responses(t)[i] \in pending[t]
    BY <2>3, <2>4, <2>5
  <2>7. [id |-> e.id, n |-> e.n] = e
    BY <2>1 DEF CallIds
  <2>8. Identity(Responses(t)[i]) = e
    BY <2>3, <2>7 DEF Identity
  <2>9. QED  BY <2>6, <2>8 DEF e
<1>3. Responses(t) \in Seq(Answers) /\ Len(Responses(t)) = Len(toolIds[t])
  <2>1. \A i \in 1 .. Len(toolIds[t]) : Responses(t)[i] \in Answers
    BY <1>1, <1>2
  <2>2. PICK k \in Nat : k = Len(toolIds[t])
    BY <1>1
  <2>3. Responses(t) = [i \in 1 .. k |-> Responses(t)[i]] /\ \A i \in 1 .. k : Responses(t)[i] \in Answers
    BY <2>1, <2>2 DEF Responses
  <2>4. QED  BY <2>2, <2>3
<1>4. QED  BY <1>2, <1>3

\* Feeding the calls' answers leaves what the model was told of as it was.
LEMMA FedIs ==
    ASSUME NEW before \in Seq(Answers), NEW now \in Seq(Answers), NEW calls \in Seq(CallIds),
           Len(now) = Len(calls),
           \A i \in 1 .. Len(calls) : Identity(now[i]) = calls[i]
    PROVE  [i \in 1 .. Len(before \o now) |-> Identity((before \o now)[i])] \o << >>
             = [i \in 1 .. Len(before) |-> Identity(before[i])] \o calls
<1>1. \A a \in Answers : Identity(a) \in CallIds
  BY DEF Answers, Identity, CallIds
<1> DEFINE all == before \o now
           a == [i \in 1 .. Len(all) |-> Identity(all[i])]
           b == [i \in 1 .. Len(before) |-> Identity(before[i])]
<1>2. /\ all \in Seq(Answers) /\ Len(all) = Len(before) + Len(now)
      /\ \A i \in 1 .. Len(before) + Len(now) :
           all[i] = IF i <= Len(before) THEN before[i] ELSE now[i - Len(before)]
  <2>1. before \in Seq(Answers) /\ now \in Seq(Answers)
    OBVIOUS
  <2>2. QED  BY ONLY <2>1, ConcatProperties
<1> HIDE DEF all
<1>3. /\ a \in Seq(CallIds) /\ Len(a) = Len(before) + Len(calls)
      /\ \A i \in 1 .. Len(before) + Len(calls) : a[i] = Identity(all[i])
  <2>1. PICK k \in Nat : k = Len(before) + Len(calls)
    OBVIOUS
  <2>2. Len(all) = k
    BY <1>2, <2>1
  <2>3. a = [i \in 1 .. k |-> Identity(all[i])]
    BY <2>2
  <2>4. \A i \in 1 .. k : Identity(all[i]) \in CallIds
    BY <1>1, <1>2, <2>2
  <2> HIDE DEF a
  <2>5. a \in Seq(CallIds) /\ Len(a) = k /\ \A i \in 1 .. k : a[i] = Identity(all[i])
    BY ONLY <2>1, <2>3, <2>4
  <2>6. QED  BY <2>1, <2>5
<1>4. /\ b \in Seq(CallIds) /\ Len(b) = Len(before)
      /\ \A i \in 1 .. Len(before) : b[i] = Identity(before[i])
  BY <1>1
<1> HIDE DEF a, b
<1>5. /\ b \o calls \in Seq(CallIds) /\ Len(b \o calls) = Len(before) + Len(calls)
      /\ \A i \in 1 .. Len(before) + Len(calls) :
           (b \o calls)[i] = IF i <= Len(before) THEN b[i] ELSE calls[i - Len(before)]
  <2>1. b \in Seq(CallIds) /\ Len(b) = Len(before)
    BY <1>4
  <2>2. /\ b \o calls \in Seq(CallIds) /\ Len(b \o calls) = Len(b) + Len(calls)
        /\ \A i \in 1 .. Len(b) + Len(calls) :
             (b \o calls)[i] = IF i <= Len(b) THEN b[i] ELSE calls[i - Len(b)]
    BY ONLY <2>1, calls \in Seq(CallIds), ConcatProperties
  <2>3. QED  BY ONLY <2>1, <2>2
<1>6. a \o << >> = a
  BY <1>3, ConcatEmptySeq
<1>7. \A i \in 1 .. Len(a) : a[i] = (b \o calls)[i]
  <2> SUFFICES ASSUME NEW i \in 1 .. Len(before) + Len(calls)
               PROVE  a[i] = (b \o calls)[i]
    BY <1>3
  <2>1. CASE i <= Len(before)
    <3>1. i \in 1 .. Len(before)
      BY <2>1
    <3>2. all[i] = before[i] /\ (b \o calls)[i] = b[i]
      BY <1>2, <1>5, <2>1
    <3>3. a[i] = Identity(all[i]) /\ b[i] = Identity(before[i])
      BY <1>3, <1>4, <3>1
    <3>4. QED  BY <3>2, <3>3
  <2>2. CASE i > Len(before)
    <3>1. i - Len(before) \in 1 .. Len(calls) /\ ~(i <= Len(before))
      BY <2>2
    <3>2. all[i] = now[i - Len(before)]
      BY <1>2, <3>1
    <3>3. (b \o calls)[i] = calls[i - Len(before)]
      BY <1>5, <3>1
    <3>4. QED  BY <1>3, <3>1, <3>2, <3>3
  <2>3. i <= Len(before) \/ i > Len(before)
    <3>1. \A k \in Nat : i <= k \/ i > k
      OBVIOUS
    <3>2. QED  BY <3>1
  <2>4. QED  BY <2>1, <2>2, <2>3
<1>8. a = b \o calls
  <2>1. PICK c \in Seq(CallIds) : c = b \o calls
    BY <1>5
  <2>2. Len(a) = Len(c) /\ \A i \in 1 .. Len(a) : a[i] = c[i]
    BY <1>3, <1>5, <1>7, <2>1
  <2>3. a = c
    BY ONLY <1>3, <2>2, c \in Seq(CallIds), SeqEqual
  <2>4. QED  BY <2>1, <2>3
<1>9. QED  BY <1>6, <1>8 DEF a, b, all

\* A step of a task keeps what is known of its turns.
LEMMA TurnStep ==
    ASSUME AdapterInv, NEW t \in Tasks, Stepped(t), adapter = "gemini", GeminiStep(t),
           fed \in [Tasks -> Seq(Answers)], TurnOf(t)
    PROVE  TurnOf(t)' /\ fed' \in [Tasks -> Seq(Answers)]
<1>1. /\ StreamInv /\ closed \in [Tasks -> BOOLEAN] /\ stopped \in [Tasks -> BOOLEAN]
      /\ halted \in [Tasks -> BOOLEAN] /\ answered \in [Tasks -> SUBSET Answers]
      /\ toolIds \in [Tasks -> Seq(CallIds)] /\ pending \in [Tasks -> SUBSET Answers]
      /\ loop \in [Tasks -> Before \cup After \cup {"rejected"}]
      /\ queue \in [Tasks -> Seq(SentEvents)] /\ got \in [Tasks -> Seq(SentEvents)]
  BY DEF AdapterInv, AdapterTypeOK, GeminiTypeOK, AnsweredOK, StreamInv, StreamTypeOK
<1>2. ToolStep(t) => GeminiToolCall(t)
  BY DEF ToolStep
<1>3. /\ ToSet(fed[t]) \subseteq answered[t]
      /\ stopped[t] => halted[t]
      /\ ~halted[t] => pending[t] \subseteq answered[t]
      /\ ~stopped[t] => /\ closed[t] => loop[t] = "ended"
                        /\ Matches(Sent(t), Told(t))
  BY DEF TurnOf
<1>4. ASSUME UNCHANGED <<fed, toolIds>>, ~GeminiToolCall(t), Matches(Sent(t), Told(t))
      PROVE  Matches(Sent(t), Told(t))'
  <2>1. PICK told : told = Told(t)
    OBVIOUS
  <2>2. Told(t)' = told
    BY <1>4, <2>1 DEF Told, FedIds, Identity
  <2>3. Matches(Sent(t)', told)
    BY <1>1, <1>2, <1>4, <2>1, MatchesStay
  <2>4. QED  BY <2>2, <2>3 DEF Matches, Asked, Identity
<1>5. CASE \/ GeminiStart(t) \/ GeminiEnter(t) \/ GeminiInitBegin(t)
           \/ GeminiInitDone(t) \/ GeminiInitFail(t) \/ GeminiReject(t) \/ GeminiOpen(t)
  <2>1. UNCHANGED <<answered, stopped, turnVars>> /\ loop[t] # "ended" /\ ~GeminiToolCall(t)
    BY <1>5 DEF GeminiStart, GeminiEnter, GeminiInitBegin, GeminiInitDone, GeminiInitFail,
                GeminiReject,
                GeminiOpen, callerVars, geminiVars, MayStart, GeminiToolCall, MayProduce
  <2>2. closed'[t] = closed[t]
    <3>1. UNCHANGED queueVars \/ Push(t, <<Plain("model.input")>>)
      BY <1>5 DEF GeminiStart, GeminiEnter, GeminiInitBegin, GeminiInitDone,
                  GeminiInitFail, GeminiReject,
                  GeminiOpen
    <3>2. QED  BY <1>1, <3>1 DEF queueVars, Push, Emit
  <2>3. UNCHANGED <<fed, toolIds, pending, halted>>
    BY <2>1 DEF turnVars
  <2>4. QED  BY <1>3, <1>4, <2>1, <2>2, <2>3 DEF TurnOf
<1>6. CASE GeminiText(t)
  <2>1. UNCHANGED <<answered, stopped, loop, fed, toolIds, pending, halted>>
        /\ loop[t] = "streaming"
    BY <1>6 DEF GeminiText, callerVars, MayProduce
  <2>2. closed'[t] = closed[t]
    BY <1>1, <1>6 DEF GeminiText, Push, Emit
  <2>3. CASE ~GeminiToolCall(t)
    BY <1>3, <1>4, <2>1, <2>2, <2>3 DEF TurnOf
  <2>4. CASE GeminiToolCall(t)
    <3>1. PICK c \in Calls :
            toolIds' = [toolIds EXCEPT ![t] = Append(toolIds[t], [id |-> c, n |-> attempts[c] + 1])]
      BY <2>4 DEF GeminiToolCall, NextAttempt
    <3>2. Len(toolIds'[t]) = Len(toolIds[t]) + 1 /\ Len(toolIds[t]) \in Nat
      <4>1. ASSUME NEW q \in Seq(CallIds), NEW x
            PROVE  Len(Append(q, x)) = Len(q) + 1
        OBVIOUS
      <4>2. toolIds'[t] = Append(toolIds[t], [id |-> c, n |-> attempts[c] + 1])
        BY <1>1, <3>1
      <4>3. QED  BY <1>1, <4>1, <4>2
    <3>3. QED  BY <2>1, <3>2
  <2>5. QED  BY <2>3, <2>4
<1>7. CASE GeminiToolCall(t)
  <2>1. PICK c \in Calls :
          /\ attempts[c] < MaxAttempts
          /\ toolIds' = [toolIds EXCEPT ![t] = Append(toolIds[t], [id |-> c, n |-> attempts[c] + 1])]
          /\ Push(t, <<Event("tool.call.requested", c, attempts[c] + 1)>>)
    BY <1>7 DEF GeminiToolCall, NextAttempt
  <2>2. UNCHANGED <<answered, stopped, loop, fed, pending, halted>> /\ loop[t] = "streaming"
    BY <1>7 DEF GeminiToolCall, callerVars, MayProduce
  <2>3. closed'[t] = closed[t]
    BY <1>1, <2>1 DEF Push, Emit
  <2>4. ASSUME ~stopped[t]
        PROVE  Matches(Sent(t), Told(t))'
    <3>1. ~closed[t] /\ Matches(Sent(t), Told(t))
      BY <1>3, <2>2, <2>4
    <3> DEFINE n == attempts[c] + 1
               call == [id |-> c, n |-> n]
               e == Event("tool.call.requested", c, n)
    <3>2. n \in Nat
      BY AdapterAssumption DEF AdapterInv, AdapterTypeOK, AttemptsBounded
    <3>3. call \in CallIds /\ e \in SentEvents
      BY <3>2 DEF CallIds, Event, SentEvents, CallTypes
    <3>4. e.type = "tool.call.requested" /\ Identity(e) = call
      BY DEF Event, Identity
    <3>5. toolIds'[t] = Append(toolIds[t], call)
      BY <1>1, <2>1
    <3>6. Sent(t)' = Sent(t) \o <<e>>
      <4>1. Emit(t, <<e>>, FALSE)
        BY <2>1 DEF Push
      <4> HIDE DEF e
      <4>2. <<e>> \in Seq(SentEvents)
        BY <3>3
      <4>3. QED  BY <1>1, <3>1, <4>1, <4>2, SentAfter DEF StreamInv
    <3> HIDE DEF call, e, n
    <3>7. Told(t)' = Append(Told(t), call)
      <4>1. FedIds(t)' = FedIds(t)
        BY <2>2 DEF FedIds, Identity
      <4>2. PICK f \in Seq(CallIds), q \in Seq(CallIds) : f = FedIds(t) /\ q = toolIds[t]
        BY <1>1, ToldIs
      <4>3. f \o Append(q, call) = Append(f \o q, call)
        <5>1. /\ Append(q, call) = q \o <<call>> /\ Append(f \o q, call) = (f \o q) \o <<call>>
              /\ <<call>> \in Seq(CallIds) /\ f \o q \in Seq(CallIds)
          BY <3>3, AppendIsConcat
        <5>2. f \o (q \o <<call>>) = (f \o q) \o <<call>>
          BY <5>1, ConcatAssociative
        <5>3. QED  BY <5>1, <5>2
      <4>4. QED  BY <3>5, <4>1, <4>2, <4>3 DEF Told
    <3>8. Told(t) \in Seq(CallIds)
      BY <1>1, ToldIs
    <3>9. PICK s \in Seq(SentEvents), r \in Seq(SentEvents) : s = Sent(t) /\ r = s \o <<e>>
      <4>1. <<e>> \in Seq(SentEvents) /\ Sent(t) \in Seq(SentEvents)
        BY <1>1, <3>3 DEF Sent
      <4>2. Sent(t) \o <<e>> \in Seq(SentEvents)
        BY ONLY <4>1
      <4>3. QED  BY <4>1, <4>2
    <3>10. /\ Len(s) \in Nat /\ Len(r) = Len(s) + 1
           /\ \A i \in 1 .. Len(s) : r[i] = s[i]
           /\ r[Len(s) + 1] = e
      <4>1. Append(s, e) = r
        BY <3>3, <3>9, AppendIsConcat
      <4>2. /\ Len(Append(s, e)) = Len(s) + 1
            /\ \A i \in 1 .. Len(s) : Append(s, e)[i] = s[i]
            /\ Append(s, e)[Len(s) + 1] = e
        BY ONLY <3>3, s \in Seq(SentEvents), AppendProperties
      <4>3. QED  BY <4>1, <4>2
    <3>11. PICK told \in Seq(CallIds) : told = Told(t)
      BY <3>8
    <3>12. Matches(s, told)
      BY <3>1, <3>9, <3>11
    <3>13. Matches(r, Append(told, call))
      <4>1. r[Len(s) + 1].type = "tool.call.requested" /\ Identity(r[Len(s) + 1]) = call
        BY <3>4, <3>10
      <4>2. QED  BY <3>3, <3>10, <3>12, <4>1, MatchesCall
    <3>14. Sent(t)' = r /\ Told(t)' = Append(told, call)
      BY <3>6, <3>7, <3>9, <3>11
    <3>15. QED  BY ONLY <3>13, <3>14 DEF Matches, Asked, Identity
  <2>5. QED  BY <1>3, <2>2, <2>3, <2>4 DEF TurnOf
<1>8. CASE GeminiError(t) \/ GeminiThrow(t) \/ GeminiTurnDone(t)
  <2>1. /\ UNCHANGED <<answered, stopped, fed, toolIds, pending>>
        /\ loop[t] = "streaming"
        /\ halted[t] => halted'[t]
        /\ \/ loop'[t] = "ended"
           \/ UNCHANGED closed
    <3>1. UNCHANGED <<answered, stopped, fed, toolIds, pending>> /\ loop[t] = "streaming"
      BY <1>8 DEF GeminiError, GeminiThrow, GeminiTurnDone, callerVars, turnVars
    <3>2. halted[t] => halted'[t]
      BY <1>1, <1>8 DEF GeminiError, GeminiThrow, GeminiTurnDone, turnVars
    <3>3. Goto(t, "ended") \/ UNCHANGED queueVars
      BY <1>8 DEF GeminiError, GeminiThrow, GeminiTurnDone, Leave
    <3>4. QED  BY <1>1, <3>1, <3>2, <3>3 DEF Goto, queueVars
  <2>2. closed'[t] /\ closed[t] = FALSE => loop'[t] = "ended"
    BY <2>1
  <2>3. ~stopped[t] => ~closed[t]
    BY <1>1, <1>3, <2>1
  <2>4. CASE ~GeminiToolCall(t)
    BY <1>3, <1>4, <2>1, <2>2, <2>3, <2>4 DEF TurnOf
  <2>5. CASE GeminiToolCall(t)
    BY <1>7, <2>5
  <2>6. QED  BY <2>4, <2>5
<1>9. CASE GeminiNextTurn(t)
  <2>1. /\ loop[t] = "tools" /\ UNCHANGED <<answered, stopped>> /\ ~GeminiToolCall(t)
        /\ \A e \in ToSet(toolIds[t]) : Resolved(t, e)
    BY <1>9 DEF GeminiNextTurn, callerVars, GeminiToolCall, MayProduce
  <2>2. ~stopped[t] => ~closed[t]
    BY <1>3, <2>1
  <2>3. CASE halted[t]
    <3>1. Goto(t, "ended") /\ UNCHANGED <<fed, toolIds, pending, halted>>
      BY <1>9, <2>3 DEF GeminiNextTurn, Leave, turnVars
    <3>2. loop'[t] = "ended"
      BY <1>1, <3>1 DEF Goto
    <3>3. QED  BY <1>3, <1>4, <2>1, <3>1, <3>2 DEF TurnOf
  <2>4. CASE ~halted[t]
    <3>1. /\ fed' = [fed EXCEPT ![t] = fed[t] \o Responses(t)]
          /\ toolIds' = [toolIds EXCEPT ![t] = << >>]
          /\ pending' = [pending EXCEPT
                           ![t] = {p \in pending[t] : \A e \in ToSet(toolIds[t]) :
                                               p.id # e.id \/ p.n # e.n}]
          /\ UNCHANGED <<queueVars, halted>>
      BY <1>9, <2>4 DEF GeminiNextTurn
    <3>2. /\ Responses(t) \in Seq(Answers) /\ Len(Responses(t)) = Len(toolIds[t])
          /\ \A i \in 1 .. Len(toolIds[t]) :
               /\ Responses(t)[i] \in pending[t]
               /\ Identity(Responses(t)[i]) = toolIds[t][i]
      BY <2>1, RequestIs
    <3>3. PICK before \in Seq(Answers), now \in Seq(Answers), calls \in Seq(CallIds) :
            before = fed[t] /\ now = Responses(t) /\ calls = toolIds[t]
      BY <1>1, <3>2
    <3>4. before \o now \in Seq(Answers)
      OBVIOUS
    <3>5. fed'[t] = before \o now /\ fed' \in [Tasks -> Seq(Answers)]
      BY <3>1, <3>3, <3>4
    <3>6. toolIds'[t] = << >> /\ pending'[t] \subseteq pending[t]
      BY <1>1, <3>1
    <3>7. ToSet(before \o now) \subseteq ToSet(before) \cup pending[t]
      <4>1. /\ Len(before \o now) = Len(before) + Len(now)
            /\ \A i \in 1 .. Len(before) + Len(now) :
                 (before \o now)[i] = IF i <= Len(before) THEN before[i] ELSE now[i - Len(before)]
        BY ConcatProperties
      <4>2. Len(now) = Len(calls) /\ \A i \in 1 .. Len(now) : now[i] \in pending[t]
        BY <3>2, <3>3
      <4>3. ToSet(before \o now) = {(before \o now)[i] : i \in 1 .. Len(before) + Len(now)}
        <5>1. PICK all \in Seq(Answers) : all = before \o now
          BY <3>4
        <5>2. ToSet(all) = {all[i] : i \in 1 .. Len(all)}
          BY DEF ToSet
        <5>3. QED  BY <4>1, <5>1, <5>2
      <4> SUFFICES ASSUME NEW i \in 1 .. Len(before) + Len(now)
                   PROVE  (before \o now)[i] \in ToSet(before) \cup pending[t]
        BY <4>3
      <4>4. CASE i <= Len(before)
        BY <4>1, <4>4 DEF ToSet
      <4>5. CASE ~(i <= Len(before))
        <5>1. i - Len(before) \in 1 .. Len(now)
          BY <4>5
        <5>2. QED  BY <4>1, <4>2, <4>5, <5>1
      <4>6. QED  BY <4>4, <4>5
    <3>8. ToSet(fed'[t]) \subseteq answered[t] /\ pending'[t] \subseteq answered[t]
      BY <1>3, <2>4, <3>3, <3>5, <3>6, <3>7
    <3>9. Told(t)' = Told(t)
      <4>1. [i \in 1 .. Len(before \o now) |-> Identity((before \o now)[i])] \o << >>
              = [i \in 1 .. Len(before) |-> Identity(before[i])] \o calls
        <5>1. Len(now) = Len(calls) /\ \A i \in 1 .. Len(calls) : Identity(now[i]) = calls[i]
          BY <3>2, <3>3
        <5>2. QED  BY <5>1, FedIs
      <4>2. Told(t) = [i \in 1 .. Len(before) |-> Identity(before[i])] \o calls
        BY <3>3 DEF Told, FedIds
      <4>3. Told(t)' = [i \in 1 .. Len(before \o now) |-> Identity((before \o now)[i])] \o << >>
        BY <3>5, <3>6 DEF Told, FedIds, Identity
      <4>4. QED  BY <4>1, <4>2, <4>3
    <3>10. Sent(t)' = Sent(t) /\ closed' = closed
      BY <3>1 DEF queueVars, Sent
    <3>11. Matches(Sent(t), Told(t)) => Matches(Sent(t), Told(t))'
      BY <3>9, <3>10 DEF Matches, Asked, Identity
    <3>12. QED
      BY <1>3, <2>1, <2>2, <3>1, <3>5, <3>8, <3>10, <3>11 DEF TurnOf
  <2>5. QED  BY <2>3, <2>4
<1>10. CASE GeminiAnswer(t)
  <2>1. PICK e \in Unanswered(t), verdict \in {"result", "denied"} :
         /\ Answer(t, e, verdict)
         /\ pending' = IF [id |-> e.id, n |-> e.n] \in ToSet(toolIds[t]) /\ ~Resolved(t, e)
                       THEN [pending EXCEPT
                               ![t] = pending[t] \cup
                                        {[id |-> e.id, n |-> e.n, verdict |-> verdict]}]
                       ELSE pending
    BY <1>10 DEF GeminiAnswer
  <2> DEFINE a == [id |-> e.id, n |-> e.n, verdict |-> verdict]
  <2>2. /\ UNCHANGED <<stopped, loop, closed, queue, got, fed, toolIds, halted>>
    BY <1>10 DEF GeminiAnswer, queueVars
  <2>3. answered'[t] = answered[t] \cup {a}
    BY <1>1, <2>1 DEF Answer
  <2>4. pending'[t] \subseteq pending[t] \cup {a}
    <3>1. pending' = [pending EXCEPT ![t] = pending[t] \cup {a}] \/ pending' = pending
      BY <2>1
    <3> HIDE DEF a
    <3>2. QED  BY ONLY <1>1, <3>1, t \in Tasks
  <2> HIDE DEF a
  <2>5. Matches(Sent(t), Told(t)) => Matches(Sent(t), Told(t))'
    <3>1. Sent(t)' = Sent(t) /\ Told(t)' = Told(t)
      BY <2>2 DEF Sent, Told, FedIds, Identity
    <3>2. QED  BY <3>1 DEF Matches, Asked, Identity
  <2>6. QED  BY <1>3, <2>2, <2>3, <2>4, <2>5 DEF TurnOf
<1>11. CASE GeminiStop(t)
  <2>1. /\ stopped' = [stopped EXCEPT ![t] = TRUE]
        /\ halted' = [halted EXCEPT ![t] = TRUE]
        /\ UNCHANGED <<answered, fed>>
    BY <1>11 DEF GeminiStop
  <2>2. stopped'[t] /\ halted'[t]
    BY <1>1, <2>1
  <2>3. QED  BY <1>3, <2>1, <2>2 DEF TurnOf
<1>12. QED
  BY <1>5, <1>6, <1>7, <1>8, <1>9, <1>10, <1>11 DEF GeminiStep

\* Every step keeps what is known of Gemini's turns.
LEMMA TurnsStep ==
    ASSUME AdapterInv, TurnsKnown, Next
    PROVE  TurnsKnown'
<1>1. CASE ~AdapterStep
  <2>1. /\ UNCHANGED <<adapter, loop, closed, stopped, turnVars, answered>>
        /\ \A u \in Tasks : Sent(u)' = Sent(u)
    BY <1>1, OtherSteps, AnswersStay
  <2>2. \A u \in Tasks : Told(u)' = Told(u)
    BY <2>1 DEF turnVars, Told, FedIds, Identity
  <2>3. \A u \in Tasks : Matches(Sent(u), Told(u)) => Matches(Sent(u), Told(u))'
    BY <2>1, <2>2 DEF Matches, Asked, Identity
  <2>4. QED  BY <2>1, <2>3 DEF turnVars, TurnsKnown, TurnOf
<1>2. CASE AdapterStep
  <2>1. PICK t \in Tasks :
          /\ Stepped(t)
          /\ adapter = "gemini" => GeminiStep(t)
    BY <1>2, TheStep
  <2>2. adapter' = adapter
    BY <2>1, OthersStay DEF AdapterInv
  <2> SUFFICES ASSUME adapter = "gemini"
               PROVE  fed' \in [Tasks -> Seq(Answers)] /\ \A u \in Tasks : TurnOf(u)'
    BY <2>2 DEF TurnsKnown
  <2>3. fed \in [Tasks -> Seq(Answers)] /\ \A u \in Tasks : TurnOf(u)
    BY DEF TurnsKnown
  <2>4. TurnOf(t)' /\ fed' \in [Tasks -> Seq(Answers)]
    BY <2>1, <2>3, TurnStep
  <2>5. ASSUME NEW u \in Tasks \ {t}
        PROVE  TurnOf(u)'
    <3>1. /\ answered'[u] = answered[u] /\ fed'[u] = fed[u] /\ toolIds'[u] = toolIds[u]
          /\ pending'[u] = pending[u] /\ halted'[u] = halted[u]
      BY <2>1, <2>3, TurnsOfOthers
    <3>2. /\ Sent(u)' = Sent(u)
          /\ loop'[u] = loop[u] /\ closed'[u] = closed[u] /\ stopped'[u] = stopped[u]
      BY <2>1, OthersStay DEF AdapterInv
    <3>3. Told(u)' = Told(u)
      BY <3>1 DEF Told, FedIds, Identity
    <3>4. Matches(Sent(u), Told(u)) => Matches(Sent(u), Told(u))'
      BY <3>2, <3>3 DEF Matches, Asked, Identity
    <3>5. TurnOf(u)
      BY <2>3
    <3>6. QED  BY <3>1, <3>2, <3>4, <3>5 DEF TurnOf
  <2>6. QED  BY <2>4, <2>5
<1>3. QED  BY <1>1, <1>2

\* Nothing is asked for, or answered, at first.
LEMMA AnswersStart ==
    ASSUME Init
    PROVE  HandlersKnown /\ TurnsKnown
<1>1. HandlersKnown
  BY DEF Init, StreamInit, ClaudeInit, HandlersKnown, HandlerKnown
<1>2. << >> \in Seq(Answers) /\ << >> \o << >> = << >> /\ Len(<< >>) = 0 /\ ToSet(<< >>) = {}
  BY ConcatEmptySeq DEF ToSet
<1>3. fed \in [Tasks -> Seq(Answers)]
  BY <1>2 DEF Init, GeminiInit
<1>4. ASSUME NEW t \in Tasks
      PROVE  TurnOf(t)
  <2>1. /\ fed[t] = << >> /\ toolIds[t] = << >> /\ pending[t] = {} /\ answered[t] = {}
        /\ ~stopped[t] /\ ~closed[t] /\ Sent(t) = << >>
    BY <1>2 DEF Init, GeminiInit, StreamInit, Sent
  <2>2. FedIds(t) = << >>
    BY <1>2, <2>1 DEF FedIds
  <2>3. Told(t) = << >>
    BY <1>2, <2>1, <2>2 DEF Told
  <2>4. Asked(<< >>, 0) = 0
    <3>1. {i \in 1 .. 0 : << >>[i].type = "tool.call.requested"} = {}
      OBVIOUS
    <3>2. QED  BY <3>1, FS_EmptySet DEF Asked
  <2>5. Matches(Sent(t), Told(t))
    BY <1>2, <2>1, <2>3, <2>4 DEF Matches
  <2>6. QED  BY <1>2, <2>1, <2>5 DEF TurnOf
<1>5. QED  BY <1>1, <1>3, <1>4 DEF TurnsKnown

\* What is known of the answers in every state.
LEMMA AnswersHold == Spec => [](HandlersKnown /\ TurnsKnown)
<1>1. Init => HandlersKnown /\ TurnsKnown
  BY AnswersStart
<1>2. /\ AdapterInv /\ LifeInv /\ HandlersKnown /\ TurnsKnown /\ [Next]_vars
      => (HandlersKnown /\ TurnsKnown)'
  <2> SUFFICES ASSUME AdapterInv, LifeInv, HandlersKnown, TurnsKnown, [Next]_vars
               PROVE  HandlersKnown' /\ TurnsKnown'
    OBVIOUS
  <2>1. CASE Next
    BY <2>1, HandlersStep, TurnsStep
  <2>2. CASE UNCHANGED vars
    <3>1. UNCHANGED <<adapter, loop, queue, got, closed, stopped, answered, handler, fed,
                      toolIds, pending, halted>>
      BY <2>2 DEF vars, streamVars, adapterVars, claudeVars, geminiVars, turnVars
    <3>2. HandlersKnown'
      BY <3>1 DEF HandlersKnown, HandlerKnown
    <3>3. \A u \in Tasks : Sent(u)' = Sent(u) /\ Told(u)' = Told(u)
      BY <3>1 DEF Sent, Told, FedIds, Identity
    <3>4. \A u \in Tasks : Matches(Sent(u), Told(u)) => Matches(Sent(u), Told(u))'
      BY <3>3 DEF Matches, Asked, Identity
    <3>5. QED  BY <3>1, <3>2, <3>4 DEF TurnsKnown, TurnOf
  <2>3. QED  BY <2>1, <2>2
<1>3. QED  BY <1>1, <1>2, InvHolds, LifeHolds, PTL DEF Spec

\* The answer that the engine sends to a call reaches that call and no other:
\* in Claude the handler that waits for it, and it is never lost; in Gemini the
\* model, which is told of the calls of the turns before, in its own order,
\* each with the engine's first answer.
THEOREM AnswersReach == Spec => []AnswersReachCalls
<1>1. AdapterInv /\ HandlersKnown /\ TurnsKnown => AnswersReachCalls
  <2> SUFFICES ASSUME AdapterInv, HandlersKnown, TurnsKnown PROVE AnswersReachCalls
    OBVIOUS
  <2>1. ClaudeAnswers
    <3> SUFFICES ASSUME NEW t \in Tasks, NEW c \in Calls
                 PROVE  /\ handler[t][c] \notin {NoCall, Waiting} =>
                             /\ handler[t][c].task = t
                             /\ [id |-> c, n |-> 1, verdict |-> handler[t][c].verdict]
                                  \in answered[t]
                        /\ handler[t][c] = Waiting => \A a \in answered[t] : a.id # c
      BY DEF ClaudeAnswers
    <3>1. CASE adapter = "claude"
      BY <3>1 DEF HandlersKnown, HandlerKnown
    <3>2. CASE adapter # "claude"
      BY <3>2 DEF HandlersKnown, NoCall, Waiting
    <3>3. QED  BY <3>1, <3>2
  <2>2. GeminiTurns
    BY DEF TurnsKnown, TurnOf, GeminiTurns, Matches, Told
  <2>3. QED  BY <2>1, <2>2 DEF AnswersReachCalls
<1>2. QED  BY <1>1, InvHolds, AnswersHold, PTL

-----------------------------------------------------------------------------
(* What tasks share: OpenCode's table of MCP servers                       *)

\* Where the tasks of each adapter can be.
Places ==
    [claude   |-> {"new", "starting", "streaming", "ended", "rejected"},
     gemini   |-> {"new", "starting", "joining", "auth", "init", "streaming", "tools", "ended",
                   "rejected"},
     opencode |-> {"new", "starting", "adding", "connecting", "capturing", "subscribing",
                   "streaming", "ended", "rejected"},
     codex    |-> {"new", "starting", "configuring", "reading", "writing", "truncated",
                   "running", "streaming", "ended", "rejected"}]

InPlace ==
    /\ adapter = "claude" => \A t \in Tasks : loop[t] \in Places.claude
    /\ adapter = "gemini" => \A t \in Tasks : loop[t] \in Places.gemini
    /\ adapter = "opencode" => \A t \in Tasks : loop[t] \in Places.opencode
    /\ adapter = "codex" => \A t \in Tasks : loop[t] \in Places.codex

\* A task goes on to a place of its adapter.
LEMMA PlacesStep ==
    ASSUME AdapterInv, InPlace, Next
    PROVE  InPlace'
<1>1. CASE ~AdapterStep
  <2>1. UNCHANGED <<adapter, loop>>
    BY <1>1, OtherSteps
  <2>2. QED  BY <2>1 DEF InPlace
<1>2. CASE AdapterStep
  <2>1. PICK t \in Tasks :
          /\ Stepped(t)
          /\ \/ adapter = "claude" /\ ClaudeStep(t)
             \/ adapter = "gemini" /\ GeminiStep(t)
             \/ adapter = "opencode" /\ OpencodeStep(t)
             \/ adapter = "codex" /\ CodexStep(t)
    BY <1>2, TheStep
  <2>2. /\ adapter' = adapter
        /\ \A u \in Tasks \ {t} : loop'[u] = loop[u]
    BY <2>1, OthersStay DEF AdapterInv
  <2>3. loop \in [Tasks -> Before \cup After \cup {"rejected"}]
    BY DEF AdapterInv, StreamInv, StreamTypeOK
  <2>4. CASE adapter = "claude" /\ ClaudeStep(t)
    <3>1. loop' = loop \/ \E to \in Places.claude : Goto(t, to)
      BY <2>4 DEF ClaudeStep, ClaudeStart, ClaudeOpen, ClaudeReject, ClaudeMessage,
                  ClaudeToolCall,
                  ClaudeAnswer, ClaudeEnd, ClaudeThrow, ClaudeStop, Places
    <3>2. loop'[t] \in Places.claude
      BY <2>3, <2>4, <3>1 DEF Goto, InPlace
    <3>3. QED  BY <2>2, <2>4, <3>2 DEF InPlace
  <2>5. CASE adapter = "gemini" /\ GeminiStep(t)
    <3>1. loop' = loop \/ \E to \in Places.gemini : Goto(t, to)
      BY <2>5 DEF GeminiStep, GeminiStart, GeminiEnter, GeminiInitBegin, GeminiInitDone,
                  GeminiInitFail, GeminiReject, GeminiOpen, GeminiText, GeminiToolCall,
                  GeminiError,
                  GeminiTurnDone, GeminiNextTurn, GeminiThrow, GeminiAnswer, GeminiStop,
                  Leave, Places
    <3>2. loop'[t] \in Places.gemini
      BY <2>3, <2>5, <3>1 DEF Goto, InPlace
    <3>3. QED  BY <2>2, <2>5, <3>2 DEF InPlace
  <2>6. CASE adapter = "opencode" /\ OpencodeStep(t)
    <3>1. loop' = loop \/ \E to \in Places.opencode : Goto(t, to)
      BY <2>6 DEF OpencodeStep, OpencodeStart, OpencodeReject, OpencodeMcpStatus,
                  OpencodeMcpAdd, OpencodeMcpConnect, OpencodeNoTools, OpencodeCapture,
                  OpencodeOpen, OpencodeText, OpencodeToolPart, OpencodeMessage, OpencodeFail,
                  OpencodeEnd, OpencodeStop, OpencodeAborted, AfterStatus, callerVars, Places
    <3>2. loop'[t] \in Places.opencode
      BY <2>3, <2>6, <3>1 DEF Goto, InPlace
    <3>3. QED  BY <2>2, <2>6, <3>2 DEF InPlace
  <2>7. CASE adapter = "codex" /\ CodexStep(t)
    <3>1. loop' = loop \/ \E to \in Places.codex : Goto(t, to)
      BY <2>7 DEF CodexStep, CodexStart, CodexExists, CodexRead, CodexTruncate, CodexWrite,
                  CodexReject, CodexInput, CodexOpen, CodexEvent, CodexItem, CodexEnd,
                  CodexThrow, CodexStop, Places
    <3>2. loop'[t] \in Places.codex
      BY <2>3, <2>7, <3>1 DEF Goto, InPlace
    <3>3. QED  BY <2>2, <2>7, <3>2 DEF InPlace
  <2>8. QED  BY <2>1, <2>4, <2>5, <2>6, <2>7
<1>3. QED  BY <1>1, <1>2

\* A task that connects the MCP server knows that it is there, and one that is
\* past that knows how it went.
McpKnown ==
    \A t \in Tasks :
        /\ loop[t] = "connecting" => mcp # "absent"
        /\ loop[t] = "capturing" => mcp \in {"connected", "refused"}

\* The table's entry only ever gets further, whoever of the tasks does it.
LEMMA McpStep ==
    ASSUME AdapterInv, InPlace, McpKnown, Next
    PROVE  McpKnown'
<1>1. CASE adapter # "opencode"
  <2>1. adapter' = adapter
    BY OtherSteps, TheStep, OthersStay DEF AdapterInv
  <2>2. InPlace'
    BY PlacesStep
  <2>3. adapter \in {"claude", "gemini", "codex"} \/ UNCHANGED <<loop, mcp>>
    BY <1>1, OtherSteps DEF AdapterStep, opencodeVars
  <2>4. QED  BY <1>1, <2>1, <2>2, <2>3 DEF InPlace, Places, McpKnown
<1>2. CASE ~AdapterStep
  BY <1>2, OtherSteps DEF opencodeVars, McpKnown
<1>3. CASE AdapterStep /\ adapter = "opencode"
  <2>1. PICK t \in Tasks : Stepped(t) /\ OpencodeStep(t)
    BY <1>3, TheStep
  <2>2. \A u \in Tasks \ {t} : loop'[u] = loop[u]
    BY <2>1, OthersStay DEF AdapterInv
  <2>3. loop \in [Tasks -> Before \cup After \cup {"rejected"}] /\ mcp \in {"absent", "added", "connected", "refused"}
    BY DEF AdapterInv, AdapterTypeOK, OpencodeTypeOK, StreamInv, StreamTypeOK
  <2>4. /\ mcp # "absent" => mcp' # "absent"
        /\ mcp \in {"connected", "refused"} => mcp' \in {"connected", "refused"}
    BY <2>1 DEF OpencodeStep, OpencodeStart, OpencodeReject, OpencodeMcpStatus,
                  OpencodeMcpAdd, OpencodeMcpConnect, OpencodeNoTools, OpencodeCapture,
                  OpencodeOpen, OpencodeText, OpencodeToolPart, OpencodeMessage, OpencodeFail,
                  OpencodeEnd, OpencodeStop, OpencodeAborted, opencodeVars
  <2>5. /\ loop'[t] = "connecting" => mcp' # "absent"
        /\ loop'[t] = "capturing" => mcp' \in {"connected", "refused"}
    <3>1. CASE OpencodeMcpStatus(t)
      BY <2>3, <3>1 DEF OpencodeMcpStatus, AfterStatus, Goto, opencodeVars
    <3>2. CASE OpencodeMcpAdd(t)
      BY <2>3, <3>2 DEF OpencodeMcpAdd, Goto
    <3>3. CASE OpencodeMcpConnect(t)
      BY <2>3, <3>3 DEF OpencodeMcpConnect, Goto, McpKnown
    <3>4. CASE ~OpencodeMcpStatus(t) /\ ~OpencodeMcpAdd(t) /\ ~OpencodeMcpConnect(t)
      <4>1. \/ loop' = loop
            \/ \E to \in {"starting", "rejected", "subscribing", "streaming", "ended"} :
                 Goto(t, to)
        BY <2>1, <3>4 DEF OpencodeStep, OpencodeStart, OpencodeReject, OpencodeNoTools,
             OpencodeCapture, OpencodeOpen, OpencodeText, OpencodeToolPart, OpencodeMessage,
             OpencodeFail, OpencodeEnd, OpencodeStop, OpencodeAborted, callerVars
      <4>2. QED  BY <2>3, <2>4, <4>1 DEF Goto, McpKnown
    <3>5. QED  BY <3>1, <3>2, <3>3, <3>4
  <2>6. QED  BY <2>2, <2>4, <2>5 DEF McpKnown
<1>4. QED  BY <1>1, <1>2, <1>3

-----------------------------------------------------------------------------
(* What tasks share: the user's config file of Codex                       *)

ConfigFiles == [exists : BOOLEAN, user : SUBSET UserParts, section : Tasks \cup {Nobody}]

\* What a configured task wrote is still there when nobody has come to write
\* since, and there is a section unless somebody is writing.
SectionSafe(t) ==
    /\ t \notin rewritten => file.section = t
    /\ file.section # Nobody \/ \E u \in Tasks : loop[u] = "truncated"

\* A task that is about to write has a draft with its own section.  Unless a
\* write was torn, one write at most is under way; what is drafted has what the
\* user wrote, and so has the file whenever it is not being written.
ConfigSafe ==
    /\ file \in ConfigFiles
    /\ draft \in [Tasks -> ConfigFiles]
    /\ adapter # "codex" => \A t \in Tasks : ~draft[t].exists
    /\ \A t \in Tasks :
         /\ loop[t] \in {"new", "configuring", "reading"} => ~draft[t].exists
         /\ loop[t] \in {"writing", "truncated"} => draft[t].exists
         /\ draft[t].exists => draft[t].section = t
         /\ Configured(t) => SectionSafe(t)
    /\ ~torn =>
         /\ \A t, u \in Tasks : loop[t] = "truncated" /\ loop[u] = "truncated" => t = u
         /\ \A t \in Tasks :
              loop[t] \in {"writing", "truncated"} => draft[t].user = original
         /\ (\A t \in Tasks : loop[t] # "truncated") => file.user = original
         /\ ~file.exists => original = {}

\* A write under way is the only one, and restores what it truncated.
LEMMA ConfigStep ==
    ASSUME AdapterInv, InPlace, ConfigSafe, Next
    PROVE  ConfigSafe'
<1>1. loop \in [Tasks -> Before \cup After \cup {"rejected"}]
  BY DEF AdapterInv, StreamInv, StreamTypeOK
<1>2. CASE UNCHANGED <<adapter, loop, file, original, draft, torn, rewritten>>
  BY <1>2 DEF ConfigSafe, Configured, SectionSafe
<1>3. CASE adapter # "codex"
  <2>1. InPlace' /\ adapter' = adapter
    BY PlacesStep, OtherSteps, TheStep, OthersStay DEF AdapterInv
  <2>2. UNCHANGED <<file, original, draft, torn, rewritten>>
    BY <1>3, OtherSteps DEF AdapterStep, codexVars
  <2>3. CASE UNCHANGED loop
    BY <1>2, <2>1, <2>2, <2>3
  <2>4. CASE adapter \in {"claude", "gemini", "opencode"}
    <3>1. \A t \in Tasks : /\ loop[t] # "truncated" /\ loop[t] # "writing"
                           /\ loop'[t] # "truncated" /\ loop'[t] # "writing"
      BY <2>1, <2>4 DEF InPlace, Places
    <3>2. \A t \in Tasks : ~draft[t].exists /\ ~draft'[t].exists
      BY <1>3, <2>2 DEF ConfigSafe
    <3>3. QED  BY <2>1, <2>2, <3>1, <3>2 DEF ConfigSafe, Configured
  <2>5. QED  BY <1>3, <2>3, <2>4, OtherSteps DEF AdapterStep
<1>4. CASE ~AdapterStep
  BY <1>2, <1>4, OtherSteps DEF codexVars
<1>5. CASE AdapterStep /\ adapter = "codex"
  <2>1. PICK t \in Tasks : Stepped(t) /\ CodexStep(t)
    BY <1>5, TheStep
  <2>2. adapter' = adapter /\ \A u \in Tasks \ {t} : loop'[u] = loop[u]
    BY <2>1, OthersStay DEF AdapterInv
  <2>3. /\ file \in ConfigFiles /\ draft \in [Tasks -> ConfigFiles]
        /\ \A u \in Tasks :
             /\ loop[u] \in {"new", "configuring", "reading"} => ~draft[u].exists
             /\ loop[u] \in {"writing", "truncated"} => draft[u].exists
             /\ draft[u].exists => draft[u].section = u
             /\ Configured(u) => SectionSafe(u)
        /\ ~torn =>
             /\ \A v, u \in Tasks : loop[v] = "truncated" /\ loop[u] = "truncated" => v = u
             /\ \A u \in Tasks :
                  loop[u] \in {"writing", "truncated"} => draft[u].user = original
             /\ (\A u \in Tasks : loop[u] # "truncated") => file.user = original
             /\ ~file.exists => original = {}
    BY DEF ConfigSafe
  <2>4. ASSUME UNCHANGED <<file, original, draft, torn, rewritten>>,
               loop[t] # "truncated", loop'[t] \notin {"writing", "truncated"},
               loop'[t] \in {"new", "configuring", "reading"} => ~draft[t].exists,
               Configured(t)' => Configured(t)
        PROVE  ConfigSafe'
    <3>1. \A u \in Tasks : Configured(u)' => Configured(u)
      BY <2>2, <2>4 DEF Configured
    <3>2. \A u \in Tasks : loop'[u] = "truncated" <=> loop[u] = "truncated"
      BY <2>2, <2>4
    <3>3. \A u \in Tasks : loop'[u] \in {"writing", "truncated"} =>
                              loop[u] \in {"writing", "truncated"}
      BY <2>2, <2>4
    <3>4. \A u \in Tasks : loop'[u] \in {"new", "configuring", "reading"} => ~draft[u].exists
      BY <2>2, <2>3, <2>4
    <3>5. \A u \in Tasks : Configured(u)' => SectionSafe(u)'
      BY <2>3, <2>4, <3>1, <3>2 DEF SectionSafe
    <3>6. QED
      BY <1>5, <2>2, <2>3, <2>4, <3>2, <3>3, <3>4, <3>5 DEF ConfigSafe
  <2>5. CASE CodexStart(t)
    <3>1. UNCHANGED <<file, original, draft, torn, rewritten>> /\ loop[t] = "new"
      BY <2>5 DEF CodexStart, MayStart, codexVars
    <3>2. loop'[t] \in {"configuring", "starting"}
      BY <1>1, <2>5 DEF CodexStart, Goto
    <3>3. ~draft[t].exists
      BY <2>3, <3>1
    <3>4. QED  BY <2>4, <3>1, <3>2, <3>3 DEF Configured
  <2>6. CASE CodexExists(t)
    <3>1. UNCHANGED <<file, original, torn, rewritten>> /\ loop[t] = "configuring"
      BY <2>6 DEF CodexExists
    <3>2. CASE file.exists
      <4>1. loop'[t] = "reading" /\ UNCHANGED draft
        BY <1>1, <2>6, <3>2 DEF CodexExists, Goto
      <4>2. QED  BY <2>3, <2>4, <3>1, <4>1 DEF Configured
    <3>3. CASE ~file.exists
      <4> DEFINE fresh == [exists |-> TRUE, user |-> {}, section |-> t]
      <4>1. loop'[t] = "writing" /\ draft' = [draft EXCEPT ![t] = fresh]
        BY <1>1, <2>6, <3>3 DEF CodexExists, Goto
      <4>2. /\ fresh \in ConfigFiles /\ fresh.exists /\ fresh.section = t
            /\ ~torn => fresh.user = original
        BY <2>3, <3>3 DEF ConfigFiles
      <4> HIDE DEF fresh
      <4>3. \A u \in Tasks : Configured(u)' => SectionSafe(u)'
        BY <2>2, <2>3, <3>1, <4>1 DEF Configured, SectionSafe
      <4>4. QED  BY <1>5, <2>1, <2>2, <2>3, <3>1, <4>1, <4>2, <4>3 DEF ConfigSafe
    <3>4. QED  BY <3>2, <3>3
  <2>7. CASE CodexRead(t)
    <3>1. /\ UNCHANGED <<file, original, rewritten>> /\ loop[t] = "reading"
          /\ loop'[t] = "writing" /\ draft' = [draft EXCEPT ![t] = WithSection(t)]
          /\ torn' = (torn \/ BeingWritten(t))
      BY <1>1, <2>7 DEF CodexRead, Goto
    <3>2. ~torn' => ~torn /\ \A u \in Tasks : loop[u] # "truncated"
      BY <3>1 DEF BeingWritten
    <3>3. /\ WithSection(t) \in ConfigFiles /\ WithSection(t).exists
          /\ WithSection(t).section = t
          /\ ~torn' => WithSection(t).user = original
      BY <2>3, <3>2 DEF WithSection, ConfigFiles
    <3>4. \A u \in Tasks : Configured(u)' => SectionSafe(u)'
      BY <2>2, <2>3, <3>1 DEF Configured, SectionSafe
    <3>5. QED
      BY <1>5, <2>1, <2>2, <2>3, <3>1, <3>2, <3>3, <3>4 DEF ConfigSafe
  <2>8. CASE CodexTruncate(t)
    <3>1. /\ UNCHANGED <<original, draft>> /\ loop[t] = "writing"
          /\ loop'[t] = "truncated" /\ file' = Truncated
          /\ torn' = (torn \/ BeingWritten(t))
          /\ rewritten' = rewritten \cup {u \in Tasks : Configured(u)}
      BY <1>1, <2>8 DEF CodexTruncate, Goto
    <3>2. ~torn' => ~torn /\ \A u \in Tasks : loop[u] # "truncated"
      BY <3>1 DEF BeingWritten
    <3>3. Truncated \in ConfigFiles /\ Truncated.exists
      BY DEF Truncated, ConfigFiles
    <3>4. \A u \in Tasks : Configured(u)' => SectionSafe(u)'
      BY <2>2, <3>1 DEF Configured, SectionSafe
    <3>5. QED  BY <1>5, <2>1, <2>2, <2>3, <3>1, <3>2, <3>3, <3>4 DEF ConfigSafe
  <2>9. CASE CodexWrite(t)
    <3>1. /\ UNCHANGED <<original, draft, torn>> /\ loop[t] = "truncated"
          /\ loop'[t] = "starting" /\ file' = draft[t]
          /\ rewritten' = rewritten \cup {u \in Tasks : Configured(u)}
      BY <1>1, <2>9 DEF CodexWrite, Goto
    <3>2. file' \in ConfigFiles /\ file'.exists /\ file'.section = t
      BY <2>3, <3>1
    <3>3. ~torn => /\ file'.user = original
                   /\ \A u \in Tasks : loop'[u] # "truncated"
      BY <2>2, <2>3, <3>1
    <3>4. \A u \in Tasks : Configured(u)' => SectionSafe(u)'
      BY <2>2, <3>1, <3>2, CodexAssumption DEF Configured, SectionSafe
    <3>5. QED  BY <1>5, <2>1, <2>2, <2>3, <3>1, <3>2, <3>3, <3>4 DEF ConfigSafe
  <2>10. CASE CodexReject(t)
    <3>1. /\ UNCHANGED <<file, original, draft, torn, rewritten>> /\ loop[t] # "truncated"
          /\ loop'[t] = "rejected"
      BY <1>1, <2>10 DEF CodexReject, Goto, codexVars
    <3>2. QED  BY <2>4, <3>1 DEF Configured
  <2>11. CASE \/ CodexInput(t) \/ CodexOpen(t) \/ CodexEvent(t) \/ CodexItem(t)
              \/ CodexEnd(t) \/ CodexThrow(t) \/ CodexStop(t)
    <3>1. /\ UNCHANGED <<file, original, draft, torn, rewritten>>
          /\ \/ loop' = loop
             \/ loop[t] = "starting" /\ Goto(t, "running")
             \/ /\ loop[t] \in {"running", "streaming"}
                /\ \E to \in {"streaming", "ended"} : Goto(t, to)
      BY <2>11 DEF CodexInput, CodexOpen, CodexEvent, CodexItem, CodexEnd, CodexThrow,
                   CodexStop, codexVars, configVars
    <3>2. CASE loop' = loop
      BY <1>2, <2>2, <3>1, <3>2
    <3>3. CASE loop[t] = "starting" /\ Goto(t, "running")
      <4>1. loop'[t] = "running"
        BY <1>1, <3>3 DEF Goto
      <4>2. QED  BY <2>4, <3>1, <3>3, <4>1 DEF Configured
    <3>4. CASE /\ loop[t] \in {"running", "streaming"}
               /\ \E to \in {"streaming", "ended"} : Goto(t, to)
      <4>1. loop'[t] \in {"streaming", "ended"}
        BY <1>1, <3>4 DEF Goto
      <4>2. QED  BY <2>4, <3>1, <3>4, <4>1 DEF Configured
    <3>5. QED  BY <3>1, <3>2, <3>3, <3>4
  <2>12. QED
    BY <2>1, <2>5, <2>6, <2>7, <2>8, <2>9, <2>10, <2>11 DEF CodexStep
<1>6. QED  BY <1>3, <1>4, <1>5

-----------------------------------------------------------------------------
(* What tasks share: the process environment of Gemini                     *)

\* Whose environment a holder has put in place.
EnvOf(h) == IF h[1] = "create" THEN h[2] ELSE sessionOf[h[2]]

\* A holder has not restored the environment yet.
Holds(h) == \E i \in 1 .. Len(frames) : frames[i] = h

\* The holders are a stack: each will restore the environment of the one
\* below it, and the last one's is in place.
Stack ==
    /\ frames \in Seq(Holders)
    /\ \A i, j \in 1 .. Len(frames) : frames[i] = frames[j] => i = j
    /\ procEnv = IF Len(frames) = 0 THEN Base ELSE EnvOf(frames[Len(frames)])
    /\ \A i \in 1 .. Len(frames) :
         saved[frames[i]] = IF i = 1 THEN Base ELSE EnvOf(frames[i - 1])

\* Replacing the environment puts one more on top.
LEMMA ApplyStacks ==
    ASSUME Stack, saved \in [Holders -> Sessions \cup {Base}], UNCHANGED sessionOf,
           NEW holder \in Holders, ~Holds(holder), Apply(holder, EnvOf(holder))
    PROVE  /\ Stack'
           /\ \A h : Holds(h)' <=> (Holds(h) \/ h = holder)
<1>1. PICK f \in Seq(Holders) : f = frames
  BY DEF Stack
<1> DEFINE r == Append(f, holder)
           k == Len(f)
<1>2. /\ k \in Nat /\ r \in Seq(Holders) /\ Len(r) = k + 1 /\ r[k + 1] = holder
      /\ \A i \in 1 .. k : r[i] = f[i]
  OBVIOUS
<1>3. frames' = r /\ procEnv' = EnvOf(holder) /\ saved' = [saved EXCEPT ![holder] = procEnv]
  BY <1>1 DEF Apply
<1>4. /\ \A i, j \in 1 .. k : f[i] = f[j] => i = j
      /\ procEnv = IF k = 0 THEN Base ELSE EnvOf(f[k])
      /\ \A i \in 1 .. k : saved[f[i]] = IF i = 1 THEN Base ELSE EnvOf(f[i - 1])
      /\ \A i \in 1 .. k : f[i] # holder
  BY <1>1 DEF Stack, Holds
<1> HIDE DEF r, k
<1>5. \A i \in 1 .. k + 1 : i \in 1 .. k \/ i = k + 1
  BY <1>2
<1>7. \A i, j \in 1 .. k + 1 : r[i] = r[j] => i = j
  BY <1>2, <1>4, <1>5
<1>8. ASSUME NEW i \in 1 .. k + 1
      PROVE  saved'[r[i]] = IF i = 1 THEN Base ELSE EnvOf(r[i - 1])
  <2>1. CASE i = k + 1
    <3>1. saved'[r[i]] = procEnv
      BY <1>2, <1>3, <2>1
    <3>2. k > 0 => r[i - 1] = f[k]
      BY <1>2, <2>1
    <3>3. QED  BY <1>2, <1>4, <2>1, <3>1, <3>2
  <2>2. CASE i \in 1 .. k
    <3>1. r[i] = f[i] /\ f[i] # holder /\ f[i] \in Holders
      BY <1>1, <1>2, <1>4, <2>2 DEF k
    <3>2. saved'[r[i]] = saved[f[i]]
      BY <1>3, <3>1
    <3>3. i # 1 => r[i - 1] = f[i - 1]
      BY <1>2, <2>2
    <3>4. QED  BY <1>4, <2>2, <3>2, <3>3
  <2>3. QED  BY <1>5, <2>1, <2>2
<1>9. Stack'
  <2>1. frames' \in Seq(Holders) /\ Len(frames') = k + 1
    BY <1>2, <1>3
  <2>2. procEnv' = EnvOf(frames'[Len(frames')])
    BY <1>2, <1>3
  <2>3. \A i \in 1 .. k + 1 : saved'[frames'[i]] = IF i = 1 THEN Base ELSE EnvOf(frames'[i - 1])
    BY <1>3, <1>8
  <2>4. Len(frames') # 0
    BY <1>2, <2>1
  <2>5. QED
    BY ONLY <1>3, <1>7, <2>1, <2>2, <2>3, <2>4, sessionOf' = sessionOf DEF Stack, EnvOf
<1>10. ASSUME NEW h
       PROVE  Holds(h)' <=> (Holds(h) \/ h = holder)
  <2>1. Holds(h) <=> \E i \in 1 .. k : f[i] = h
    BY <1>1 DEF Holds, k
  <2>2. Holds(h)' <=> \E i \in 1 .. k + 1 : r[i] = h
    BY <1>2, <1>3 DEF Holds
  <2>3. 1 .. k \subseteq 1 .. k + 1 /\ k + 1 \in 1 .. k + 1
    BY <1>2
  <2>4. QED  BY <1>2, <1>5, <2>1, <2>2, <2>3
<1>11. QED  BY <1>9, <1>10

\* Restoring it takes the last one off.
LEMMA RestoreUnstacks ==
    ASSUME Stack, saved \in [Holders -> Sessions \cup {Base}], UNCHANGED sessionOf,
           NEW holder \in Holders, Holds(holder), Restore(holder), ~tangled'
    PROVE  /\ Stack'
           /\ \A h : Holds(h)' <=> (Holds(h) /\ h # holder)
<1>1. PICK f \in Seq(Holders) : f = frames
  BY DEF Stack
<1> DEFINE k == Len(f)
           r == SubSeq(f, 1, k - 1)
<1>2. k \in Nat \ {0} /\ f[k] = holder
  <2>1. k \in Nat /\ k # 0
    BY <1>1 DEF Holds
  <2>2. Last(frames) = holder
    BY DEF Restore
  <2>3. QED  BY <1>1, <2>1, <2>2 DEF Last
<1>3. /\ \A i, j \in 1 .. k : f[i] = f[j] => i = j
      /\ \A i \in 1 .. k : saved[f[i]] = IF i = 1 THEN Base ELSE EnvOf(f[i - 1])
  BY <1>1 DEF Stack
<1> HIDE DEF k
<1>4. (CHOOSE i \in 1 .. k : f[i] = holder) = k
  <2>1. k \in 1 .. k
    BY <1>2
  <2>2. \A i \in 1 .. k : f[i] = holder => i = k
    BY <1>2, <1>3, <2>1
  <2>3. QED  BY <1>2, <2>1, <2>2
<1>5. /\ r \in Seq(Holders) /\ Len(r) = k - 1
      /\ \A i \in 1 .. k - 1 : r[i] = f[i]
  <2>1. k - 1 \in Nat /\ k - 1 <= Len(f)
    BY <1>2 DEF k
  <2>2. \A i \in 1 .. k - 1 : f[i] \in Holders
    BY <2>1 DEF k
  <2>3. /\ r \in Seq(Holders)
        /\ Len(r) = IF 1 <= k - 1 THEN k - 1 - 1 + 1 ELSE 0
        /\ \A i \in 1 .. k - 1 - 1 + 1 : r[i] = f[1 + i - 1]
    BY <2>1, <2>2, SubSeqProperties
  <2>4. \A i \in 1 .. k - 1 : 1 + i - 1 = i
    OBVIOUS
  <2>5. QED  BY <2>1, <2>3, <2>4
<1>6. frames' = r
  <2>1. frames' = RemoveAt(f, k)
    BY <1>1, <1>4 DEF Restore, k
  <2>2. RemoveAt(f, k) = SubSeq(f, 1, k - 1) \o SubSeq(f, k + 1, k)
    BY DEF RemoveAt, k
  <2>3. SubSeq(f, k + 1, k) = << >>
    BY <1>2 DEF k
  <2> HIDE DEF r
  <2>4. r \o << >> = r
    BY <1>5, ConcatEmptySeq
  <2>5. QED  BY <2>1, <2>2, <2>3, <2>4 DEF r
<1> HIDE DEF r
<1>7. procEnv' = saved[holder] /\ saved' = [saved EXCEPT ![holder] = Base]
  BY DEF Restore
<1>9. procEnv' = IF k - 1 = 0 THEN Base ELSE EnvOf(r[k - 1])
  <2>1. saved[holder] = IF k = 1 THEN Base ELSE EnvOf(f[k - 1])
    BY <1>2, <1>3
  <2>2. k # 1 => r[k - 1] = f[k - 1]
    BY <1>2, <1>5
  <2>3. QED  BY <1>2, <1>7, <2>1, <2>2
<1>10. ASSUME NEW i \in 1 .. k - 1
       PROVE  saved'[r[i]] = IF i = 1 THEN Base ELSE EnvOf(r[i - 1])
  <2>1. i \in 1 .. k /\ k \in 1 .. k /\ i # k
    BY <1>2
  <2>2. r[i] = f[i] /\ f[i] # holder /\ r[i] \in Holders
    BY <1>2, <1>3, <1>5, <2>1
  <2>3. saved'[r[i]] = saved[f[i]]
    BY <1>7, <2>2
  <2>4. i # 1 => r[i - 1] = f[i - 1]
    BY <1>2, <1>5
  <2>5. QED  BY <1>3, <2>1, <2>3, <2>4
<1>11. Stack'
  <2>1. frames' \in Seq(Holders) /\ Len(frames') = k - 1
    BY <1>5, <1>6
  <2>2. procEnv' = IF Len(frames') = 0 THEN Base ELSE EnvOf(frames'[Len(frames')])
    BY <1>6, <1>9, <2>1
  <2>3. \A i \in 1 .. k - 1 : saved'[frames'[i]] = IF i = 1 THEN Base ELSE EnvOf(frames'[i - 1])
    BY <1>6, <1>10
  <2>4. \A i, j \in 1 .. k - 1 : r[i] = r[j] => i = j
    <3>1. 1 .. k - 1 \subseteq 1 .. k
      BY <1>2
    <3>2. QED  BY <1>3, <1>5, <3>1
  <2>5. QED
    BY ONLY <1>6, <2>1, <2>2, <2>3, <2>4, sessionOf' = sessionOf DEF Stack, EnvOf
<1>12. ASSUME NEW h
       PROVE  Holds(h)' <=> (Holds(h) /\ h # holder)
  <2>1. Holds(h) <=> \E i \in 1 .. k : f[i] = h
    BY <1>1 DEF Holds, k
  <2>2. Holds(h)' <=> \E i \in 1 .. k - 1 : r[i] = h
    BY <1>5, <1>6 DEF Holds
  <2>3. \A i \in 1 .. k : i \in 1 .. k - 1 \/ i = k
    BY <1>2
  <2>4. \A i \in 1 .. k - 1 : i \in 1 .. k /\ i # k /\ k \in 1 .. k
    BY <1>2
  <2>5. QED  BY <1>2, <1>3, <1>5, <2>1, <2>2, <2>3, <2>4
<1>13. QED  BY <1>11, <1>12

\* A task has replaced the environment from its model.input on, until its loop
\* ends; it never restores it when its start fails.
Running(t) == loop[t] \in {"joining", "auth", "init", "streaming", "tools", "rejected"}

\* Who holds the environment is told by where the tasks and the sessions are.
HoldersAre ==
    /\ \A t \in Tasks : /\ Holds(<<"task", t>>) => Running(t)
                        /\ Running(t) /\ loop[t] # "rejected" => Holds(<<"task", t>>)
                        /\ Holds(<<"init", t>>) <=> loop[t] = "init"
    /\ \A s \in Sessions : Holds(<<"create", s>>) <=> creating[s] = "init"

\* A task that nobody stepped in upon has its session's environment in place,
\* and its initialization will put it back.
OwnEnv(t) ==
    Running(t) /\ loop[t] # "rejected" /\ t \notin crossed =>
        /\ procEnv = sessionOf[t]
        /\ loop[t] = "init" => saved[<<"init", t>>] = sessionOf[t]

EnvKnown ==
    adapter = "gemini" =>
        /\ \A s \in Sessions : creating[s] # "no" => s \in clients
        /\ \A t \in Tasks : OwnEnv(t)
        /\ ~tangled => Stack /\ HoldersAre

\* No holder is another.
LEMMA HoldersDiffer ==
    ASSUME NEW t \in Tasks, NEW s \in Sessions
    PROVE  /\ <<"task", t>> \in Holders /\ <<"init", t>> \in Holders
           /\ <<"create", s>> \in Holders
           /\ EnvOf(<<"task", t>>) = sessionOf[t] /\ EnvOf(<<"init", t>>) = sessionOf[t]
           /\ EnvOf(<<"create", s>>) = s
           /\ \A u \in Tasks : /\ <<"task", u>> = <<"task", t>> <=> u = t
                               /\ <<"init", u>> = <<"init", t>> <=> u = t
                               /\ <<"init", u>> # <<"task", t>>
                               /\ <<"task", u>> # <<"init", t>>
                               /\ <<"task", u>> # <<"create", s>>
                               /\ <<"init", u>> # <<"create", s>>
           /\ \A z \in Sessions : /\ <<"create", z>> = <<"create", s>> <=> z = s
                                  /\ <<"create", z>> # <<"task", t>>
                                  /\ <<"create", z>> # <<"init", t>>
<1>1. /\ <<"task", t>> \in Holders /\ <<"init", t>> \in Holders
      /\ <<"create", s>> \in Holders
  BY DEF Holders
<1>2. /\ EnvOf(<<"task", t>>) = sessionOf[t] /\ EnvOf(<<"init", t>>) = sessionOf[t]
      /\ EnvOf(<<"create", s>>) = s
  BY DEF EnvOf
<1>3. \A a, b, c, d : <<a, b>> = <<c, d>> <=> a = c /\ b = d
  OBVIOUS
<1>4. "task" # "init" /\ "task" # "create" /\ "init" # "create"
  OBVIOUS
<1>5. QED  BY <1>1, <1>2, <1>3, <1>4

\* Whoever replaces or restores the environment steps in upon all the others.
LEMMA OthersCrossed ==
    ASSUME NEW holder, NEW env, Apply(holder, env) \/ Restore(holder)
    PROVE  /\ crossed \subseteq crossed'
           /\ \A t \in Tasks :
                /\ Running(t) /\ loop[t] # "rejected"
                /\ holder # <<"task", t>> /\ holder # <<"init", t>>
                => t \in crossed'
<1>1. crossed' = crossed \cup Disturbed(holder)
  BY DEF Apply, Restore
<1>2. \A t \in Tasks : Running(t) /\ loop[t] # "rejected" => t \in InEnv
  BY DEF Running, InEnv
<1>3. QED  BY <1>1, <1>2 DEF Disturbed

\* createSession replaces the environment while it initializes the session.
LEMMA EnvCreates ==
    ASSUME AdapterInv, EnvKnown, adapter = "gemini", GeminiCreates
    PROVE  EnvKnown'
<1>1. PICK s \in Sessions : GeminiCreate(s) \/ GeminiCreateInit(s) \/ GeminiCreateDone(s)
  BY DEF GeminiCreates
<1>2. /\ saved \in [Holders -> Sessions \cup {Base}]
      /\ creating \in [Sessions -> {"no", "auth", "init"}]
  BY DEF AdapterInv, AdapterTypeOK, GeminiTypeOK
<1>3. /\ \A z \in Sessions : creating[z] # "no" => z \in clients
      /\ ~tangled => Stack /\ HoldersAre
      /\ \A t \in Tasks : OwnEnv(t)
  BY DEF EnvKnown
<1>4. UNCHANGED <<adapter, sessionOf, loop>>
  BY <1>1 DEF GeminiCreate, GeminiCreateInit, GeminiCreateDone, callerVars
<1>9. \A t \in Tasks : OwnEnv(t)'
  <2>1. CASE UNCHANGED procVars
    BY <1>3, <1>4, <2>1 DEF OwnEnv, Running, procVars
  <2>2. CASE Apply(<<"create", s>>, s) \/ Restore(<<"create", s>>)
    <3>1. \A t \in Tasks : <<"create", s>> # <<"task", t>> /\ <<"create", s>> # <<"init", t>>
      BY HoldersDiffer
    <3>2. \A t \in Tasks : Running(t) /\ loop[t] # "rejected" => t \in crossed'
      BY <2>2, <3>1, OthersCrossed
    <3>3. QED  BY <1>4, <3>2 DEF OwnEnv, Running
  <2>3. QED  BY <1>1, <2>1, <2>2 DEF GeminiCreate, GeminiCreateInit, GeminiCreateDone
<1>5. CASE GeminiCreate(s)
  <2>1. /\ UNCHANGED <<procEnv, saved, frames, tangled>>
        /\ clients' = clients \cup {s} /\ creating' = [creating EXCEPT ![s] = "auth"]
        /\ creating[s] = "no"
    BY <1>3, <1>5 DEF GeminiCreate, procVars
  <2>2. \A z \in Sessions : creating'[z] = "init" <=> creating[z] = "init"
    BY <1>2, <2>1
  <2>3. \A z \in Sessions : creating'[z] # "no" => z \in clients'
    BY <1>2, <1>3, <2>1
  <2>4. Stack => Stack'
    BY <1>4, <2>1 DEF Stack, EnvOf
  <2>5. HoldersAre => HoldersAre'
    BY <1>4, <2>1, <2>2 DEF HoldersAre, Holds, Running
  <2>6. QED  BY <1>3, <1>4, <1>9, <2>1, <2>3, <2>4, <2>5 DEF EnvKnown
<1>6. CASE GeminiCreateInit(s)
  <2>1. /\ Apply(<<"create", s>>, s) /\ creating[s] = "auth" /\ UNCHANGED clients
        /\ creating' = [creating EXCEPT ![s] = "init"]
    BY <1>6 DEF GeminiCreateInit
  <2>2. \A z \in Sessions : creating'[z] # "no" => z \in clients'
    BY <1>2, <1>3, <2>1
  <2>3. ASSUME ~tangled'
        PROVE  Stack' /\ HoldersAre'
    <3>1. ~tangled
      BY <2>1, <2>3 DEF Apply
    <3>2. Stack /\ HoldersAre
      BY <1>3, <3>1
    <3>3. ~Holds(<<"create", s>>)
      BY <2>1, <3>2 DEF HoldersAre
    <3>4. EnvOf(<<"create", s>>) = s /\ <<"create", s>> \in Holders
      BY DEF EnvOf, Holders
    <3>5. /\ Stack' /\ \A h : Holds(h)' <=> (Holds(h) \/ h = <<"create", s>>)
      BY <1>2, <1>4, <2>1, <3>2, <3>3, <3>4, ApplyStacks
    <3>6. ASSUME NEW t \in Tasks
          PROVE  /\ Holds(<<"task", t>>)' => Running(t)'
                 /\ Running(t)' /\ loop'[t] # "rejected" => Holds(<<"task", t>>)'
                 /\ Holds(<<"init", t>>)' <=> loop'[t] = "init"
      BY <1>4, <3>2, <3>5, HoldersDiffer DEF HoldersAre, Running
    <3>7. ASSUME NEW z \in Sessions
          PROVE  Holds(<<"create", z>>)' <=> creating'[z] = "init"
      BY <1>2, <2>1, <3>2, <3>5 DEF HoldersAre
    <3>8. QED  BY <3>5, <3>6, <3>7 DEF HoldersAre
  <2>4. QED  BY <1>4, <1>9, <2>2, <2>3 DEF EnvKnown
<1>7. CASE GeminiCreateDone(s)
  <2>1. /\ Restore(<<"create", s>>) /\ creating[s] = "init" /\ UNCHANGED clients
        /\ creating' = [creating EXCEPT ![s] = "no"]
    BY <1>7 DEF GeminiCreateDone
  <2>2. \A z \in Sessions : creating'[z] # "no" => z \in clients'
    BY <1>2, <1>3, <2>1
  <2>3. ASSUME ~tangled'
        PROVE  Stack' /\ HoldersAre'
    <3>1. ~tangled
      BY <2>1, <2>3 DEF Restore
    <3>2. Stack /\ HoldersAre
      BY <1>3, <3>1
    <3>3. Holds(<<"create", s>>) /\ <<"create", s>> \in Holders
      BY <2>1, <3>2 DEF HoldersAre, Holders
    <3>4. /\ Stack' /\ \A h : Holds(h)' <=> (Holds(h) /\ h # <<"create", s>>)
      BY <1>2, <1>4, <2>1, <2>3, <3>2, <3>3, RestoreUnstacks
    <3>5. ASSUME NEW t \in Tasks
          PROVE  /\ Holds(<<"task", t>>)' => Running(t)'
                 /\ Running(t)' /\ loop'[t] # "rejected" => Holds(<<"task", t>>)'
                 /\ Holds(<<"init", t>>)' <=> loop'[t] = "init"
      BY <1>4, <3>2, <3>4, HoldersDiffer DEF HoldersAre, Running
    <3>6. ASSUME NEW z \in Sessions
          PROVE  Holds(<<"create", z>>)' <=> creating'[z] = "init"
      BY <1>2, <2>1, <3>2, <3>4 DEF HoldersAre
    <3>7. QED  BY <3>4, <3>5, <3>6 DEF HoldersAre
  <2>4. QED  BY <1>4, <1>9, <2>2, <2>3 DEF EnvKnown
<1>8. QED  BY <1>1, <1>5, <1>6, <1>7

\* A task that has replaced the environment has replaced it still, and one that
\* has not does not go on as if it had.
Remains(t) ==
    /\ Running(t) => Running(t)'
    /\ Running(t)' /\ loop'[t] # "rejected" => Running(t) /\ loop[t] # "rejected"

\* A task's steps, whatever they do with the environment: nothing while the
\* task runs on, or replace or restore it as the task goes on.
EnvMove(t) ==
    \/ UNCHANGED procVars /\ Remains(t) /\ (loop'[t] = "init" <=> loop[t] = "init")
    \/ Apply(<<"task", t>>, sessionOf[t]) /\ ~Running(t) /\ Running(t)' /\ loop'[t] # "init"
    \/ Apply(<<"init", t>>, sessionOf[t]) /\ loop[t] = "auth" /\ loop'[t] = "init"
    \/ Restore(<<"init", t>>) /\ loop[t] = "init" /\ loop'[t] \in {"joining", "rejected"}
    \/ Restore(<<"task", t>>) /\ loop[t] \in {"streaming", "tools"} /\ loop'[t] = "ended"

\* Every step of a task of Gemini is one of these moves, and no client is dropped.
LEMMA EnvMoves ==
    ASSUME AdapterInv, NEW t \in Tasks, GeminiStep(t)
    PROVE  EnvMove(t) /\ UNCHANGED creating /\ clients \subseteq clients'
<1>1. loop \in [Tasks -> Before \cup After \cup {"rejected"}]
  BY DEF AdapterInv, StreamInv, StreamTypeOK
<1>2. UNCHANGED creating /\ clients \subseteq clients'
  BY DEF GeminiStep, GeminiStart, GeminiEnter, GeminiInitBegin, GeminiInitDone,
         GeminiInitFail, GeminiReject, GeminiOpen, GeminiText, GeminiToolCall, GeminiError,
         GeminiTurnDone,
         GeminiNextTurn, GeminiThrow, GeminiAnswer, GeminiStop, Leave, geminiVars, envVars
<1>3. CASE GeminiStart(t) \/ GeminiReject(t) \/ GeminiOpen(t)
  <2>1. \/ loop[t] = "new" /\ Goto(t, "starting")
        \/ loop[t] \in {"starting", "auth", "joining"} /\ Goto(t, "rejected")
        \/ loop[t] = "joining" /\ Goto(t, "streaming")
    BY <1>3 DEF GeminiStart, GeminiReject, GeminiOpen, MayStart
  <2>2. UNCHANGED procVars
    BY <1>3 DEF GeminiStart, GeminiReject, GeminiOpen, geminiVars, envVars
  <2>3. QED  BY <1>1, <1>2, <2>1, <2>2 DEF EnvMove, Remains, Running, Goto
<1>4. CASE GeminiText(t) \/ GeminiToolCall(t) \/ GeminiAnswer(t) \/ GeminiStop(t)
  <2>1. UNCHANGED <<loop, procVars>>
    BY <1>4 DEF GeminiText, GeminiToolCall, GeminiAnswer, GeminiStop, envVars
  <2>2. QED  BY <1>2, <2>1 DEF EnvMove, Remains, Running
<1>5. CASE GeminiEnter(t)
  <2>1. /\ loop[t] = "starting" /\ Apply(<<"task", t>>, sessionOf[t])
        /\ Goto(t, "joining") \/ Goto(t, "auth")
    BY <1>5 DEF GeminiEnter
  <2>2. QED  BY <1>1, <1>2, <2>1 DEF EnvMove, Running, Goto
<1>6. CASE GeminiInitBegin(t) \/ GeminiInitDone(t) \/ GeminiInitFail(t)
  BY <1>1, <1>2, <1>6 DEF GeminiInitBegin, GeminiInitDone, GeminiInitFail, GeminiReject,
                          EnvMove, Goto
<1>7. CASE GeminiError(t) \/ GeminiThrow(t) \/ GeminiTurnDone(t) \/ GeminiNextTurn(t)
  <2>1. /\ loop[t] \in {"streaming", "tools"}
        /\ \/ \E events : Leave(t, events)
           \/ UNCHANGED envVars /\ \E to \in {"streaming", "tools"} : Goto(t, to)
    BY <1>7 DEF GeminiError, GeminiThrow, GeminiTurnDone, GeminiNextTurn
  <2>2. \/ Restore(<<"task", t>>) /\ Goto(t, "ended")
        \/ UNCHANGED procVars /\ \E to \in {"streaming", "tools"} : Goto(t, to)
    BY <2>1 DEF Leave, envVars
  <2>3. QED  BY <1>1, <1>2, <2>1, <2>2 DEF EnvMove, Remains, Running, Goto
<1>8. QED  BY <1>3, <1>4, <1>5, <1>6, <1>7 DEF GeminiStep

\* A task's step keeps what is known of the environment.
LEMMA EnvTasks ==
    ASSUME AdapterInv, EnvKnown, adapter = "gemini", NEW t \in Tasks, Stepped(t), GeminiStep(t)
    PROVE  EnvKnown'
<1>1. saved \in [Holders -> Sessions \cup {Base}]
  BY DEF AdapterInv, AdapterTypeOK, GeminiTypeOK
<1>2. /\ \A s \in Sessions : creating[s] # "no" => s \in clients
      /\ ~tangled => Stack /\ HoldersAre
      /\ \A u \in Tasks : OwnEnv(u)
  BY DEF EnvKnown
<1>3. /\ UNCHANGED <<adapter, sessionOf>>
      /\ \A u \in Tasks \ {t} : loop'[u] = loop[u] /\ (Running(u)' <=> Running(u))
  BY OthersStay DEF AdapterInv, Running
<1>4. EnvMove(t) /\ UNCHANGED creating /\ clients \subseteq clients'
  BY EnvMoves
<1>5. <<"task", t>> \in Holders /\ <<"init", t>> \in Holders
  BY DEF Holders
<1>6. /\ EnvOf(<<"task", t>>) = sessionOf[t] /\ EnvOf(<<"init", t>>) = sessionOf[t]
  BY DEF EnvOf
<1>7. \A s \in Sessions : creating'[s] # "no" => s \in clients'
  BY <1>2, <1>4
<1>8. ASSUME ~tangled'
      PROVE  Stack' /\ HoldersAre'
  <2>1. ~tangled
    BY <1>4, <1>8 DEF EnvMove, Apply, Restore, procVars
  <2>2. Stack /\ HoldersAre
    BY <1>2, <2>1
  <2>3. /\ Holds(<<"task", t>>) => Running(t)
        /\ Running(t) /\ loop[t] # "rejected" => Holds(<<"task", t>>)
        /\ Holds(<<"init", t>>) <=> loop[t] = "init"
    BY <2>2 DEF HoldersAre
  <2>4. ASSUME NEW h \in {<<"task", t>>, <<"init", t>>},
               \A z : z # h => (Holds(z)' <=> Holds(z)),
               Holds(<<"task", t>>)' => Running(t)',
               Running(t)' /\ loop'[t] # "rejected" => Holds(<<"task", t>>)',
               Holds(<<"init", t>>)' <=> loop'[t] = "init"
        PROVE  HoldersAre'
    <3>1. ASSUME NEW u \in Tasks
          PROVE  /\ Holds(<<"task", u>>)' => Running(u)'
                 /\ Running(u)' /\ loop'[u] # "rejected" => Holds(<<"task", u>>)'
                 /\ Holds(<<"init", u>>)' <=> loop'[u] = "init"
      <4>1. CASE u = t
        BY <2>4, <4>1
      <4>2. CASE u # t
        <5>1. <<"task", u>> # h /\ <<"init", u>> # h
          BY <2>4, <4>2
        <5>2. QED  BY <1>3, <2>2, <2>4, <4>2, <5>1 DEF HoldersAre
      <4>3. QED  BY <4>1, <4>2
    <3>2. ASSUME NEW s \in Sessions
          PROVE  Holds(<<"create", s>>)' <=> creating'[s] = "init"
      <4>1. <<"create", s>> # h
        BY <2>4
      <4>2. QED  BY <1>4, <2>2, <2>4, <4>1 DEF HoldersAre
    <3>3. QED  BY <3>1, <3>2 DEF HoldersAre
  <2>5. <<"task", t>> # <<"init", t>>
    OBVIOUS
  <2>6. CASE /\ UNCHANGED procVars /\ Remains(t)
             /\ (loop'[t] = "init" <=> loop[t] = "init")
    <3>1. UNCHANGED <<procEnv, saved, frames>>
      BY <2>6 DEF procVars
    <3>2. Stack'
      BY <1>3, <2>2, <3>1 DEF Stack, EnvOf
    <3>3. \A h : Holds(h)' <=> Holds(h)
      BY <3>1 DEF Holds
    <3>4. QED  BY <2>3, <2>4, <2>6, <3>2, <3>3 DEF Remains
  <2>7. CASE /\ Apply(<<"task", t>>, sessionOf[t]) /\ ~Running(t) /\ Running(t)'
             /\ loop'[t] # "init"
    <3>1. Stack' /\ \A h : Holds(h)' <=> (Holds(h) \/ h = <<"task", t>>)
      BY <1>1, <1>3, <1>5, <1>6, <2>2, <2>3, <2>7, ApplyStacks
    <3>2. loop[t] # "init"
      BY <2>7 DEF Running
    <3>3. QED  BY <2>3, <2>4, <2>5, <2>7, <3>1, <3>2
  <2>8. CASE Apply(<<"init", t>>, sessionOf[t]) /\ loop[t] = "auth" /\ loop'[t] = "init"
    <3>1. Stack' /\ \A h : Holds(h)' <=> (Holds(h) \/ h = <<"init", t>>)
      BY <1>1, <1>3, <1>5, <1>6, <2>2, <2>3, <2>8, ApplyStacks
    <3>2. Running(t) /\ Running(t)'
      BY <2>8 DEF Running
    <3>3. QED  BY <2>3, <2>4, <2>5, <2>8, <3>1, <3>2
  <2>9. CASE /\ Restore(<<"init", t>>) /\ loop[t] = "init"
             /\ loop'[t] \in {"joining", "rejected"}
    <3>1. Stack' /\ \A h : Holds(h)' <=> (Holds(h) /\ h # <<"init", t>>)
      BY <1>1, <1>3, <1>5, <1>8, <2>2, <2>3, <2>9, RestoreUnstacks
    <3>2. Running(t) /\ Running(t)'
      BY <2>9 DEF Running
    <3>3. QED  BY <2>3, <2>4, <2>5, <2>9, <3>1, <3>2
  <2>10. CASE /\ Restore(<<"task", t>>) /\ loop[t] \in {"streaming", "tools"}
              /\ loop'[t] = "ended"
    <3>1. Running(t) /\ ~Running(t)'
      BY <2>10 DEF Running
    <3>2. Stack' /\ \A h : Holds(h)' <=> (Holds(h) /\ h # <<"task", t>>)
      BY <1>1, <1>3, <1>5, <1>8, <2>2, <2>3, <2>10, <3>1, RestoreUnstacks
    <3>3. QED  BY <2>3, <2>4, <2>5, <2>10, <3>1, <3>2
  <2>11. QED  BY <1>4, <2>6, <2>7, <2>8, <2>9, <2>10 DEF EnvMove
<1>9. ASSUME NEW u \in Tasks
      PROVE  OwnEnv(u)'
  <2>1. OwnEnv(u) /\ saved \in [Holders -> Sessions \cup {Base}]
    BY <1>1, <1>2
  <2>2. CASE UNCHANGED procVars /\ Remains(t) /\ (loop'[t] = "init" <=> loop[t] = "init")
    BY <1>3, <2>1, <2>2 DEF OwnEnv, Remains, Running, procVars
  <2>3. CASE /\ u # t
             /\ ~(UNCHANGED procVars /\ Remains(t) /\ (loop'[t] = "init" <=> loop[t] = "init"))
    <3>1. PICK h \in {<<"task", t>>, <<"init", t>>} :
             Apply(h, sessionOf[t]) \/ Restore(h)
      BY <1>4, <2>3 DEF EnvMove
    <3>2. h # <<"task", u>> /\ h # <<"init", u>>
      BY <2>3, <3>1, HoldersDiffer
    <3>3. Running(u) /\ loop[u] # "rejected" => u \in crossed'
      BY <3>1, <3>2, OthersCrossed
    <3>4. QED  BY <1>3, <2>3, <3>3 DEF OwnEnv
  <2>4. CASE /\ u = t
             /\ \/ Apply(<<"task", t>>, sessionOf[t]) /\ loop'[t] # "init"
                \/ Apply(<<"init", t>>, sessionOf[t]) /\ loop[t] = "auth" /\ loop'[t] = "init"
    <3>1. procEnv' = sessionOf[t]
      BY <2>4 DEF Apply
    <3>2. CASE loop'[t] # "init"
      BY <1>3, <2>4, <3>1, <3>2 DEF OwnEnv
    <3>3. CASE loop'[t] = "init"
      <4>1. Apply(<<"init", t>>, sessionOf[t]) /\ Running(t) /\ loop[t] = "auth"
        BY <2>4, <3>3 DEF Running
      <4>2. saved'[<<"init", t>>] = procEnv /\ crossed \subseteq crossed'
        BY <1>5, <2>1, <4>1 DEF Apply
      <4>3. t \notin crossed' => procEnv = sessionOf[t]
        BY <2>1, <2>4, <4>1, <4>2 DEF OwnEnv
      <4>4. QED  BY <1>3, <2>4, <3>1, <4>2, <4>3 DEF OwnEnv
    <3>4. QED  BY <3>2, <3>3
  <2>5. CASE /\ u = t /\ Restore(<<"init", t>>)
             /\ loop[t] = "init" /\ loop'[t] \in {"joining", "rejected"}
    <3>1. procEnv' = saved[<<"init", t>>] /\ crossed \subseteq crossed' /\ Running(t)
      BY <2>5 DEF Restore, Running
    <3>2. t \notin crossed' => procEnv' = sessionOf[t]
      BY <2>1, <2>5, <3>1 DEF OwnEnv
    <3>3. QED  BY <1>3, <2>5, <3>2 DEF OwnEnv
  <2>6. CASE u = t /\ loop'[t] = "ended"
    BY <2>6 DEF OwnEnv, Running
  <2>7. QED  BY <1>4, <2>2, <2>3, <2>4, <2>5, <2>6 DEF EnvMove
<1>10. QED  BY <1>3, <1>7, <1>8, <1>9 DEF EnvKnown

\* Every step keeps what is known of the environment.
LEMMA EnvStep ==
    ASSUME AdapterInv, EnvKnown, Next
    PROVE  EnvKnown'
<1>1. CASE Consume /\ UNCHANGED adapterVars
  <2>1. UNCHANGED <<adapter, sessionOf, loop, procEnv, saved, frames, tangled, crossed,
                    clients, creating>>
    BY <1>1 DEF Consume, Shift, TurnAway, callerVars, adapterVars, geminiVars, envVars, procVars
  <2>2. QED
    BY <2>1 DEF EnvKnown, Stack, HoldersAre, Holds, Running, EnvOf, OwnEnv
<1>2. CASE CreateStep
  BY <1>2, EnvCreates DEF CreateStep
<1>3. CASE AdapterStep
  <2>1. CASE adapter = "gemini"
    BY <1>3, <2>1, TheStep, EnvTasks
  <2>2. CASE adapter # "gemini"
    <3>1. adapter' = adapter
      BY <1>3, TheStep, OthersStay DEF AdapterInv
    <3>2. QED  BY <2>2, <3>1 DEF EnvKnown
  <2>3. QED  BY <2>1, <2>2
<1>4. QED  BY <1>1, <1>2, <1>3, NextIs

-----------------------------------------------------------------------------
(* What tasks share                                                        *)

SharedInv == InPlace /\ McpKnown /\ ConfigSafe /\ EnvKnown

\* Nothing is shared with anybody at first.
LEMMA SharedStarts == Init => SharedInv
<1> SUFFICES ASSUME Init PROVE SharedInv
  OBVIOUS
<1>1. \A t \in Tasks : loop[t] = "new"
  BY DEF Init, StreamInit
<1>2. InPlace
  BY <1>1 DEF InPlace, Places
<1>3. McpKnown
  BY <1>1 DEF McpKnown
<1>4. ConfigSafe
  <2>1. /\ file \in {NoFile, [exists |-> TRUE, user |-> UserParts, section |-> Nobody]}
        /\ original = file.user /\ draft = [t \in Tasks |-> NoFile]
    <3>1. CodexInit
      BY DEF Init
    <3>2. QED  BY <3>1 DEF CodexInit
  <2>2. /\ NoFile \in ConfigFiles /\ NoFile.user = {} /\ ~NoFile.exists
        /\ [exists |-> TRUE, user |-> UserParts, section |-> Nobody] \in ConfigFiles
    <3>1. {} \in SUBSET UserParts /\ UserParts \in SUBSET UserParts
          /\ Nobody \in Tasks \cup {Nobody}
      OBVIOUS
    <3>2. ASSUME NEW lines \in SUBSET UserParts, NEW exists \in BOOLEAN
          PROVE  [exists |-> exists, user |-> lines, section |-> Nobody] \in ConfigFiles
      BY <3>1 DEF ConfigFiles
    <3>3. QED  BY <3>1, <3>2 DEF NoFile
  <2>3. file \in ConfigFiles /\ (~file.exists => original = {})
    <3>1. CASE file = NoFile
      BY ONLY <2>1, <3>1, <2>2
    <3>2. CASE file = [exists |-> TRUE, user |-> UserParts, section |-> Nobody]
      <4>1. file.exists = TRUE
        BY ONLY <3>2
      <4>2. QED  BY ONLY <4>1, <3>2, <2>2
    <3>3. QED  BY ONLY <2>1, <3>1, <3>2
  <2>4. draft \in [Tasks -> ConfigFiles] /\ \A t \in Tasks : ~draft[t].exists
    BY <2>1, <2>2
  <2>5. QED  BY <1>1, <2>1, <2>3, <2>4 DEF ConfigSafe, Configured
<1>5. EnvKnown
  <2>1. /\ frames = << >> /\ procEnv = Base /\ \A s \in Sessions : creating[s] = "no"
    BY DEF Init, GeminiInit
  <2>2. frames \in Seq(Holders) /\ Len(frames) = 0
    BY <2>1
  <2>3. Stack
    BY <2>1, <2>2 DEF Stack
  <2>4. HoldersAre
    BY <1>1, <2>1, <2>2 DEF HoldersAre, Holds, Running
  <2>5. \A t \in Tasks : OwnEnv(t)
    BY <1>1 DEF OwnEnv, Running
  <2>6. QED  BY <2>1, <2>3, <2>4, <2>5 DEF EnvKnown
<1>6. QED  BY <1>2, <1>3, <1>4, <1>5 DEF SharedInv

\* What is known of all that tasks share, in every state.
LEMMA SharedHolds == Spec => []SharedInv
<1>1. Init => SharedInv
  BY SharedStarts
<1>2. AdapterInv /\ SharedInv /\ [Next]_vars => SharedInv'
  <2> SUFFICES ASSUME AdapterInv, SharedInv, [Next]_vars PROVE SharedInv'
    OBVIOUS
  <2>1. CASE Next
    BY <2>1, PlacesStep, McpStep, ConfigStep, EnvStep DEF SharedInv
  <2>2. CASE UNCHANGED vars
    <3>1. /\ UNCHANGED <<adapter, sessionOf, loop, mcp, file, original, draft, torn, rewritten>>
          /\ UNCHANGED <<procEnv, saved, frames, tangled, crossed, clients, creating>>
      BY <2>2 DEF vars, streamVars, adapterVars, opencodeVars, codexVars, geminiVars, envVars,
                  procVars
    <3>2. InPlace' /\ McpKnown'
      BY <3>1 DEF SharedInv, InPlace, McpKnown
    <3>3. ConfigSafe'
      BY <3>1 DEF SharedInv, ConfigSafe, Configured, SectionSafe
    <3>4. EnvKnown'
      BY <3>1 DEF SharedInv, EnvKnown, Stack, HoldersAre, Holds, Running, EnvOf, OwnEnv
    <3>5. QED  BY <3>2, <3>3, <3>4 DEF SharedInv
  <2>3. QED  BY <2>1, <2>2
<1>3. QED  BY <1>1, <1>2, InvHolds, PTL DEF Spec

\* What can be relied on of what tasks share outside their sessions, whatever
\* the others do at the same time.  process.env is a Gemini task's own session's
\* unless somebody else replaces or restores it meanwhile (gemini-cli-core.ts:235);
\* as long as it is restored in the opposite order it is that of the last who
\* replaced it, and the daemon's own in the end.  OpenCode's MCP server is
\* connected, or was refused, before a task with tools is prompted.  A Codex
\* thread with tools is run with its own task's section, if no other task has
\* come to write config.toml since, and with another's, or in the middle of
\* another's write, if one has; and the user's lines survive every number of
\* tasks unless one reads or opens the file during another's write
\* (codex-sdk.ts:483).
THEOREM SharedStateIsKept == Spec => []SharedStateKept
<1>1. SharedInv => SharedStateKept
  <2> SUFFICES ASSUME SharedInv PROVE SharedStateKept
    OBVIOUS
  <2>1. McpReady
    BY DEF SharedInv, McpKnown, McpReady
  <2>2. ConfigKept
    <3>1. \A t \in Tasks :
             Configured(t) /\ (\E u \in Tasks : loop[u] = "truncated") => BeingWritten(t)
      BY DEF Configured, BeingWritten
    <3>2. QED  BY <3>1 DEF SharedInv, ConfigSafe, SectionSafe, ConfigKept
  <2>3. EnvScoped
    <3> SUFFICES ASSUME adapter = "gemini"
                 PROVE  /\ \A t \in InEnv \ crossed : procEnv = sessionOf[t]
                        /\ ~tangled =>
                             /\ frames # << >> => procEnv = EnvFor(Last(frames))
                             /\ (/\ InEnv = {}
                                 /\ \A s \in Sessions : creating[s] # "init"
                                 /\ \A t \in Tasks : loop[t] # "rejected") => procEnv = Base
      BY DEF EnvScoped
    <3>1. \A t \in InEnv \ crossed : procEnv = sessionOf[t]
      BY DEF SharedInv, EnvKnown, OwnEnv, Running, InEnv
    <3>2. ASSUME ~tangled
          PROVE  /\ frames # << >> => procEnv = EnvFor(Last(frames))
                 /\ (/\ InEnv = {}
                     /\ \A s \in Sessions : creating[s] # "init"
                     /\ \A t \in Tasks : loop[t] # "rejected") => procEnv = Base
      <4>1. Stack /\ HoldersAre
        BY <3>2 DEF SharedInv, EnvKnown
      <4>2. /\ frames \in Seq(Holders)
            /\ procEnv = IF Len(frames) = 0 THEN Base ELSE EnvOf(frames[Len(frames)])
        BY <4>1 DEF Stack
      <4>3. frames # << >> => procEnv = EnvFor(Last(frames))
        <5>1. frames # << >> => Len(frames) # 0
          BY <4>2
        <5>2. QED  BY <4>2, <5>1 DEF Last, EnvOf, EnvFor
      <4>4. ASSUME InEnv = {}, \A s \in Sessions : creating[s] # "init",
                   \A t \in Tasks : loop[t] # "rejected"
            PROVE  Len(frames) = 0
        <5> SUFFICES ASSUME Len(frames) # 0 PROVE FALSE
          OBVIOUS
        <5>1. Len(frames) \in 1 .. Len(frames)
          BY <4>2
        <5>2. PICK h \in Holders : h = frames[Len(frames)]
          BY <4>2, <5>1
        <5>3. Holds(h)
          BY <5>1, <5>2 DEF Holds
        <5>4. \A t \in Tasks : ~Running(t) /\ loop[t] # "init"
          BY <4>4 DEF Running, InEnv
        <5>5. \/ \E t \in Tasks : h = <<"task", t>> \/ h = <<"init", t>>
              \/ \E s \in Sessions : h = <<"create", s>>
          BY <5>2 DEF Holders
        <5>6. QED  BY <4>1, <4>4, <5>3, <5>4, <5>5 DEF HoldersAre
      <4>5. QED  BY <4>2, <4>3, <4>4
    <3>3. QED  BY <3>1, <3>2
  <2>4. QED  BY <2>1, <2>2, <2>3 DEF SharedStateKept
<1>2. QED  BY <1>1, SharedHolds, PTL

==============================================================================
