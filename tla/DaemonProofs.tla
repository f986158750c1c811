---------------------------- MODULE DaemonProofs ----------------------------
(***************************************************************************)
(* The daemon's counters, its map of handles and its paged listing, for    *)
(* any number of sessions, requests and connections, any ids and limits.   *)
(*                                                                         *)
(* The counters are cardinalities of sets that one action changes by one   *)
(* element; the listing is a prefix of the map because the cursor is the   *)
(* last id that was listed and no id is in the map twice.                  *)
(***************************************************************************)
EXTENDS Daemon, FiniteSetTheorems, SequenceTheorems, TLAPS

\* The completion callback runs for accepted posts only.
NotifiedAccepted == \A p \in notified : post[p] = "accepted"

\* Only a connection that was opened is closed.
ClosedOpened == \A c \in closed : stream[c] \notin {"none", "refused"}

TaskInv == NotifiedAccepted /\ InflightExact /\ HandlesMatchTasks
StreamInv == ClosedOpened /\ SseSlots

\* The map of sessions has no id twice.
NoDuplicates ==
    \A i, j \in 1 .. Len(sessions) : sessions[i] = sessions[j] => i = j

\* What was listed is a prefix of the map.
ListedPrefix ==
    /\ Len(listed) <= Len(sessions)
    /\ \A i \in 1 .. Len(listed) : listed[i] = sessions[i]

\* The cursor is the last id listed.
CursorLast ==
    listing = "more" =>
        cursor = IF Len(listed) = 0 THEN NoSession ELSE listed[Len(listed)]

ListInv == NoDuplicates /\ ListedPrefix /\ CursorLast

DaemonInv == TypeOK /\ TaskInv /\ StreamInv /\ ListInv

-----------------------------------------------------------------------------
(* Counting.                                                               *)

\* A subset of a finite set has a natural number of elements.
LEMMA Countable ==
    ASSUME NEW S, IsFiniteSet(S), NEW T \in SUBSET S
    PROVE  IsFiniteSet(T) /\ Cardinality(T) \in Nat
BY FS_Subset, FS_CardinalityType

\* One element more.
LEMMA CountAdd ==
    ASSUME NEW S, IsFiniteSet(S), NEW T \in SUBSET S, NEW x \in S \ T
    PROVE  Cardinality(T \cup {x}) = Cardinality(T) + 1
BY Countable, FS_AddElement

\* One element less, of a set that had one.
LEMMA CountRemove ==
    ASSUME NEW S, IsFiniteSet(S), NEW T \in SUBSET S, NEW x \in T
    PROVE  Cardinality(T) > 0 /\ Cardinality(T \ {x}) = Cardinality(T) - 1
<1>1. IsFiniteSet(T) /\ IsFiniteSet(T \ {x}) /\ Cardinality(T) \in Nat
  BY Countable, T \ {x} \in SUBSET S
<1>2. Cardinality(T \ {x}) = Cardinality(T) - 1
  BY <1>1, FS_RemoveElement
<1>3. Cardinality(T \ {x}) \in Nat
  BY <1>1, FS_CardinalityType
<1>4. QED  BY <1>1, <1>2, <1>3

-----------------------------------------------------------------------------
(* The paged listing.                                                      *)

\* The page after the cursor begins where the listing has come to.
LEMMA PageStartIsListed ==
    ASSUME TypeOK, ListInv, listing = "more"
    PROVE  PageStart = Len(listed)
<1>1. CASE Len(listed) = 0
  BY <1>1 DEF ListInv, CursorLast, PageStart
<1>2. CASE Len(listed) # 0
  <2>1. Len(listed) \in 1 .. Len(sessions) /\ Len(listed) \in 1 .. Len(listed)
    BY <1>2 DEF TypeOK, ListInv, ListedPrefix
  <2>2. cursor = listed[Len(listed)] /\ sessions[Len(listed)] = cursor
    BY <1>2, <2>1 DEF ListInv, CursorLast, ListedPrefix
  <2>3. cursor # NoSession
    <3>1. listed[Len(listed)] \in Sessions
      BY <2>1 DEF TypeOK
    <3>2. QED  BY <2>2, <3>1, DaemonAssumption
  <2>4. \A i \in 1 .. Len(sessions) : sessions[i] = cursor => i = Len(listed)
    BY <2>1, <2>2 DEF ListInv, NoDuplicates
  <2>5. QED  BY <2>1, <2>2, <2>3, <2>4 DEF PageStart
<1>3. QED  BY <1>1, <1>2

\* What a page is made of: the ids after the listed ones, as many as fit.
LEMMA PageOfListing ==
    ASSUME TypeOK, ListInv, ListPage
    PROVE  \E n \in Nat :
              /\ Len(listed) + n <= Len(sessions)
              /\ listed' \in Seq(Sessions)
              /\ Len(listed') = Len(listed) + n
              /\ \A i \in 1 .. Len(listed') : listed'[i] = sessions[i]
              /\ \/ /\ n < PageSize /\ Len(listed) + n = Len(sessions)
                    /\ listing' = "end" /\ cursor' = cursor
                 \/ /\ n = PageSize /\ listing' = listing
                    /\ cursor' = listed'[Len(listed')]
<1> DEFINE rest == Len(sessions) - Len(listed)
           n == IF rest < PageSize THEN rest ELSE PageSize
           slice == SubSeq(sessions, Len(listed) + 1, Len(listed) + n)
<1>0. listed \in Seq(Sessions) /\ sessions \in Seq(Sessions)
  BY DEF TypeOK
<1>1. /\ PageSize \in Nat \ {0} /\ rest \in Nat /\ n \in Nat
      /\ Len(listed) \in Nat /\ Len(sessions) \in Nat /\ Len(listed) + n <= Len(sessions)
  BY <1>0, DaemonAssumption DEF ListInv, ListedPrefix
<1>2. /\ listed' = listed \o slice
      /\ IF Len(slice) < PageSize
         THEN listing' = "end" /\ cursor' = cursor
         ELSE cursor' = Last(slice) /\ listing' = listing
  BY PageStartIsListed DEF ListPage, IsLastPage
<1>3. /\ slice \in Seq(Sessions) /\ Len(slice) = n
      /\ \A i \in 1 .. n : slice[i] = sessions[Len(listed) + i]
  BY <1>0, <1>1
<1> HIDE DEF slice, n
<1>4. /\ listed' \in Seq(Sessions) /\ Len(listed') = Len(listed) + n
      /\ \A i \in 1 .. Len(listed') : listed'[i] = sessions[i]
  <2>1. listed' \in Seq(Sessions) /\ Len(listed') = Len(listed) + n
    BY <1>0, <1>1, <1>2, <1>3, ConcatProperties
  <2>2. ASSUME NEW i \in 1 .. Len(listed')
        PROVE  listed'[i] = sessions[i]
    <3>1. CASE i <= Len(listed)
      <4>1. listed'[i] = listed[i]
        BY <1>0, <1>2, <1>3, <2>1, <3>1
      <4>2. QED  BY <4>1, <3>1 DEF ListInv, ListedPrefix
    <3>2. CASE i > Len(listed)
      <4>1. listed'[i] = slice[i - Len(listed)]
        BY <1>0, <1>1, <1>2, <1>3, <2>1, <3>2
      <4>2. i - Len(listed) \in 1 .. n /\ Len(listed) + (i - Len(listed)) = i
        BY <1>1, <2>1, <3>2
      <4>3. QED  BY <1>3, <4>1, <4>2
    <3>3. QED  BY <1>1, <2>1, <3>1, <3>2
  <2>3. QED  BY <2>1, <2>2
<1>5. CASE n < PageSize
  <2>1. n = rest
    BY <1>1, <1>5 DEF n
  <2>2. Len(listed) + n = Len(sessions)
    BY <1>1, <2>1
  <2>3. QED  BY <1>1, <1>2, <1>3, <1>4, <1>5, <2>2
<1>6. CASE n = PageSize
  <2>1. cursor' = slice[n] /\ listing' = listing
    BY <1>1, <1>2, <1>3, <1>6 DEF Last
  <2>2. n \in 1 .. n /\ Len(listed) + n \in 1 .. Len(listed')
    BY <1>1, <1>4, <1>6
  <2>3. cursor' = listed'[Len(listed')]
    BY <1>3, <1>4, <2>1, <2>2
  <2>4. QED  BY <1>1, <1>4, <1>6, <2>1, <2>3
<1>7. n < PageSize \/ n = PageSize
  BY <1>1 DEF n
<1>8. QED  BY <1>5, <1>6, <1>7

-----------------------------------------------------------------------------
(* Type correctness.                                                       *)

\* Cardinality as the engine's module sees it.
LEMMA SameCardinality == \A S : Engine!Cardinality(S) = Cardinality(S)
BY DEF Engine!Cardinality, Cardinality

\* The engine's turns are natural numbers: there are finitely many posts.
LEMMA EngineTypes ==
    ASSUME TypeOK, NEW p \in Posts,
           Engine!Enqueue(p) \/ Engine!Begin(p) \/ Engine!Skip(p) \/ Engine!Finish(p)
    PROVE  turn' \in [Posts -> Nat] /\ stage' \in [Posts -> Engine!Stages]
<1>1. Cardinality({u \in Posts : stage[u] # "idle"}) + 1 \in Nat
  BY Countable, DaemonAssumption
<1>2. CASE Engine!Enqueue(p)
  <2>1. turn \in [Posts -> Nat] /\ stage \in [Posts -> Engine!Stages]
    BY DEF TypeOK
  <2>2. stage' \in [Posts -> Engine!Stages]
    BY <1>2, <2>1 DEF Engine!Enqueue, Engine!Stages
  <2> DEFINE n == Cardinality({u \in Posts : stage[u] # "idle"}) + 1
  <2>3. turn' = [turn EXCEPT ![p] = n]
    BY <1>2, SameCardinality DEF Engine!Enqueue
  <2> HIDE DEF n
  <2>4. turn' \in [Posts -> Nat]
    BY <1>1, <2>1, <2>3 DEF n
  <2>5. QED  BY <2>2, <2>4
<1>3. CASE Engine!Begin(p)
  BY <1>3 DEF TypeOK, Engine!Begin, Engine!Stages
<1>4. CASE Engine!Skip(p)
  BY <1>4 DEF TypeOK, Engine!Skip, Engine!Stages
<1>5. CASE Engine!Finish(p)
  BY <1>5 DEF TypeOK, Engine!Finish, Engine!Stages
<1>6. QED  BY <1>2, <1>3, <1>4, <1>5

\* Requests about tasks keep the types.
LEMMA TaskTypes ==
    ASSUME TypeOK, NEW p \in Posts, TaskStep(p)
    PROVE  TypeOK'
<1>1. Key(p) \in Sessions \X TaskIds
  BY DaemonAssumption DEF Key
<1>2. CASE Admit(p)
  BY <1>2 DEF TypeOK, Admit, PostStates, sessionVars, streamVars
<1>3. CASE BadBody(p)
  BY <1>3 DEF TypeOK, BadBody, PostStates, sessionVars, streamVars
<1>4. CASE Accept(p)
  <2>1. turn' \in [Posts -> Nat] /\ stage' \in [Posts -> Engine!Stages]
    BY <1>4, EngineTypes DEF Accept
  <2>2. /\ tasks' \in [Sessions \X TaskIds -> Posts \cup {NoPost}]
        /\ post' \in [Posts -> PostStates] /\ inflightTasks' \in Nat
    BY <1>1, <1>4 DEF TypeOK, Accept, PostStates
  <2>3. QED
    BY <1>4, <2>1, <2>2 DEF TypeOK, Accept, sessionVars, streamVars
<1>5. CASE EngineStep(p)
  <2>1. turn' \in [Posts -> Nat] /\ stage' \in [Posts -> Engine!Stages]
    BY <1>5, EngineTypes DEF EngineStep
  <2>2. QED
    BY <1>5, <2>1 DEF TypeOK, EngineStep, sessionVars, streamVars
<1>6. CASE Completed(p)
  <2>1. tasks' \in [Sessions \X TaskIds -> Posts \cup {NoPost}]
    BY <1>1, <1>6 DEF TypeOK, Completed, Forget
  <2>2. inflightTasks' \in Nat /\ up' \in BOOLEAN /\ notified' \subseteq Posts
    BY <1>6 DEF TypeOK, Completed
  <2>3. QED
    BY <1>6, <2>1, <2>2 DEF TypeOK, Completed, sessionVars, streamVars
<1>7. QED  BY <1>2, <1>3, <1>4, <1>5, <1>6 DEF TaskStep

\* So do the connections.
LEMMA StreamTypes ==
    ASSUME TypeOK, NEW c \in Streams, StreamStep(c)
    PROVE  TypeOK'
<1>1. ASSUME Close(c)
      PROVE  closed' \subseteq Streams /\ sseClients' \in Nat
  BY <1>1 DEF TypeOK, Close
<1>2. ASSUME EndLoop(c)
      PROVE  /\ stream' \in [Streams -> StreamStates] /\ heartbeat' \subseteq Streams
             /\ closed' \subseteq Streams /\ sseClients' \in Nat
  BY <1>1, <1>2 DEF TypeOK, EndLoop, StreamStates
<1>3. CASE OpenStream(c)
  <2>1. /\ stream' \in [Streams -> StreamStates] /\ heartbeat' \subseteq Streams
        /\ sseClients' \in Nat
    BY <1>3 DEF TypeOK, OpenStream, StreamStates
  <2>2. QED  BY <1>3, <2>1 DEF TypeOK, OpenStream, sessionVars, taskVars
<1>4. CASE PeerLeaves(c)
  BY <1>1, <1>4 DEF TypeOK, PeerLeaves, sessionVars, taskVars
<1>5. CASE Drain(c)
  BY <1>5 DEF TypeOK, Drain, StreamStates, sessionVars, taskVars
<1>6. CASE Congested(c)
  <2>1. CASE closeOnBackpressure
    BY <1>2, <1>6, <2>1 DEF TypeOK, Congested, sessionVars, taskVars
  <2>2. CASE ~closeOnBackpressure
    BY <1>6, <2>2 DEF TypeOK, Congested, StreamStates, sessionVars, taskVars
  <2>3. QED  BY <2>1, <2>2
<1>7. CASE EndOfQueue(c)
  BY <1>2, <1>7 DEF TypeOK, EndOfQueue, sessionVars, taskVars
<1>8. QED  BY <1>3, <1>4, <1>5, <1>6, <1>7 DEF StreamStep

-----------------------------------------------------------------------------
(* The requests about tasks.                                               *)

\* The steps that leave the tasks' variables alone.
LEMMA TaskFrame ==
    ASSUME TypeOK, TaskInv,
           UNCHANGED <<post, inflightTasks, tasks, notified>>
    PROVE  TaskInv'
BY DEF TaskInv, NotifiedAccepted, InflightExact, HandlesMatchTasks, InFlight

\* A post that is not accepted changes its progress.
LEMMA NotAccepted ==
    ASSUME TypeOK, TaskInv, NEW p \in Posts, Admit(p) \/ BadBody(p)
    PROVE  TaskInv'
<1>1. /\ post[p] # "accepted" /\ post'[p] # "accepted"
      /\ \A q \in Posts : q # p => post'[q] = post[q]
      /\ UNCHANGED <<inflightTasks, tasks, notified>>
  BY DEF TypeOK, Admit, BadBody
<1>2. \A q \in Posts : (post'[q] = "accepted" <=> post[q] = "accepted")
                       /\ (InFlight(q)' <=> InFlight(q))
  BY <1>1 DEF InFlight
<1>3. NotifiedAccepted'
  BY <1>1, <1>2 DEF TypeOK, TaskInv, NotifiedAccepted
<1>4. InflightExact'
  <2>1. {q \in Posts : InFlight(q)}' = {q \in Posts : InFlight(q)}
    BY <1>2
  <2>2. QED  BY <1>1, <2>1 DEF TaskInv, InflightExact
<1>5. HandlesMatchTasks'
  <2>1. \A k \in Sessions \X TaskIds : tasks[k] # NoPost => tasks[k] \in Posts
    BY DEF TypeOK
  <2>2. \A k \in Sessions \X TaskIds :
            tasks'[k] # NoPost => InFlight(tasks[k])' /\ Key(tasks[k]) = k
    BY <1>1, <1>2, <2>1 DEF TaskInv, HandlesMatchTasks
  <2>3. \A q \in Posts :
            /\ InFlight(q)'
            /\ \A r \in Posts \ {q} : Key(r) = Key(q) => post'[r] # "accepted"
            => tasks'[Key(q)] = q
    BY <1>1, <1>2 DEF TaskInv, HandlesMatchTasks
  <2>4. QED  BY <1>1, <2>2, <2>3 DEF HandlesMatchTasks, Key
<1>6. QED  BY <1>3, <1>4, <1>5 DEF TaskInv

\* An accepted post is counted and entered in the map.
LEMMA Accepted ==
    ASSUME TypeOK, TaskInv, NEW p \in Posts, Accept(p)
    PROVE  TaskInv'
<1>1. /\ post[p] = "reading" /\ post'[p] = "accepted"
      /\ \A q \in Posts : q # p => post'[q] = post[q]
      /\ inflightTasks' = inflightTasks + 1 /\ notified' = notified
      /\ Key(p) \in Sessions \X TaskIds
      /\ tasks'[Key(p)] = p
      /\ \A k \in Sessions \X TaskIds : k # Key(p) => tasks'[k] = tasks[k]
  BY DaemonAssumption DEF TypeOK, Accept, Key
<1>2. p \notin notified
  BY <1>1 DEF TaskInv, NotifiedAccepted
<1>3. /\ InFlight(p)' /\ ~InFlight(p)
      /\ \A q \in Posts : q # p => (InFlight(q)' <=> InFlight(q))
  BY <1>1, <1>2 DEF InFlight
<1>4. NotifiedAccepted'
  BY <1>1, <1>2 DEF TypeOK, TaskInv, NotifiedAccepted
<1>5. InflightExact'
  <2> DEFINE S == {q \in Posts : InFlight(q)}
  <2>1. S' = S \cup {p} /\ p \notin S
    BY <1>3
  <2>2. Cardinality(S') = Cardinality(S) + 1
    BY <2>1, CountAdd, DaemonAssumption, S \in SUBSET Posts
  <2>3. QED  BY <1>1, <2>2 DEF TaskInv, InflightExact
<1>6. HandlesMatchTasks'
  <2>1. ASSUME NEW k \in Sessions \X TaskIds, tasks'[k] # NoPost
        PROVE  InFlight(tasks[k])' /\ Key(tasks'[k]) = k
    <3>1. CASE k = Key(p)
      BY <1>1, <1>3, <3>1 DEF InFlight
    <3>2. CASE k # Key(p)
      <4>1. tasks'[k] = tasks[k] /\ tasks[k] \in Posts
        BY <1>1, <2>1, <3>2 DEF TypeOK
      <4>2. InFlight(tasks[k]) /\ Key(tasks[k]) = k
        BY <2>1, <4>1 DEF TaskInv, HandlesMatchTasks
      <4>3. InFlight(tasks[k])'
        BY <1>1, <4>1, <4>2 DEF InFlight
      <4>4. QED  BY <4>1, <4>2, <4>3
    <3>3. QED  BY <3>1, <3>2
  <2>2. ASSUME NEW q \in Posts, InFlight(q)',
               \A r \in Posts \ {q} : Key(r) = Key(q) => post'[r] # "accepted"
        PROVE  tasks'[Key(q)] = q
    <3>1. CASE q = p
      BY <1>1, <3>1
    <3>2. CASE q # p
      <4>1. Key(q) # Key(p) /\ Key(q) \in Sessions \X TaskIds
        BY <1>1, <2>2, <3>2, DaemonAssumption DEF Key
      <4>2. InFlight(q) /\ \A r \in Posts \ {q} : Key(r) = Key(q) => post[r] # "accepted"
        BY <1>1, <1>3, <2>2, <3>2
      <4>3. QED  BY <1>1, <4>1, <4>2 DEF TaskInv, HandlesMatchTasks
    <3>3. QED  BY <3>1, <3>2
  <2>3. QED  BY <2>1, <2>2 DEF HandlesMatchTasks, Key, InFlight
<1>7. QED  BY <1>4, <1>5, <1>6 DEF TaskInv

\* The completion callback gives back the one place its task had taken, and
\* removes the entry of a task that is over, were it another's.
LEMMA CompletedOnce ==
    ASSUME TypeOK, TaskInv, NEW p \in Posts, Completed(p)
    PROVE  TaskInv'
<1>1. /\ post[p] = "accepted" /\ p \notin notified
      /\ post' = post /\ notified' = notified \cup {p}
      /\ inflightTasks' = IF inflightTasks > 0 THEN inflightTasks - 1 ELSE 0
      /\ Key(p) \in Sessions \X TaskIds
      /\ tasks'[Key(p)] = NoPost
      /\ \A k \in Sessions \X TaskIds : k # Key(p) => tasks'[k] = tasks[k]
  BY DaemonAssumption DEF TypeOK, Completed, Forget, Key
<1>2. /\ InFlight(p) /\ ~InFlight(p)'
      /\ \A q \in Posts : q # p => (InFlight(q)' <=> InFlight(q))
  BY <1>1 DEF InFlight
<1>3. NotifiedAccepted'
  BY <1>1 DEF TaskInv, NotifiedAccepted
<1>4. InflightExact'
  <2> DEFINE S == {q \in Posts : InFlight(q)}
  <2>1. S' = S \ {p} /\ p \in S /\ S \in SUBSET Posts
    BY <1>2
  <2>2. Cardinality(S) > 0 /\ Cardinality(S') = Cardinality(S) - 1
    BY <2>1, CountRemove, DaemonAssumption
  <2>3. QED  BY <1>1, <2>2 DEF TaskInv, InflightExact
<1>5. HandlesMatchTasks'
  <2>1. ASSUME NEW k \in Sessions \X TaskIds, tasks'[k] # NoPost
        PROVE  InFlight(tasks[k])' /\ Key(tasks'[k]) = k
    <3>1. k # Key(p) /\ tasks'[k] = tasks[k] /\ tasks[k] \in Posts
      BY <1>1, <2>1 DEF TypeOK
    <3>2. InFlight(tasks[k]) /\ Key(tasks[k]) = k
      BY <2>1, <3>1 DEF TaskInv, HandlesMatchTasks
    <3>3. InFlight(tasks[k])'
      BY <1>1, <3>1, <3>2 DEF InFlight
    <3>4. QED  BY <3>1, <3>2, <3>3
  <2>2. ASSUME NEW q \in Posts, InFlight(q)',
               \A r \in Posts \ {q} : Key(r) = Key(q) => post'[r] # "accepted"
        PROVE  tasks'[Key(q)] = q
    <3>1. q # p
      BY <1>2, <2>2
    <3>2. Key(q) # Key(p) /\ Key(q) \in Sessions \X TaskIds
      BY <1>1, <2>2, <3>1, DaemonAssumption DEF Key
    <3>3. InFlight(q) /\ \A r \in Posts \ {q} : Key(r) = Key(q) => post[r] # "accepted"
      BY <1>1, <1>2, <2>2, <3>1
    <3>4. QED  BY <1>1, <3>2, <3>3 DEF TaskInv, HandlesMatchTasks
  <2>3. QED  BY <2>1, <2>2 DEF HandlesMatchTasks, Key, InFlight
<1>6. QED  BY <1>3, <1>4, <1>5 DEF TaskInv

-----------------------------------------------------------------------------
(* The connections.                                                        *)

\* The connections that hold a slot.
Holding == {c \in Streams : Connected(c) /\ c \notin closed}

\* The steps that leave the connections' variables alone.
LEMMA StreamFrame ==
    ASSUME StreamInv, UNCHANGED <<stream, closed, sseClients>>
    PROVE  StreamInv'
BY DEF StreamInv, ClosedOpened, SseSlots, Connected

\* close() gives back the slot of a connection that holds one, and nothing else.
LEMMA CloseOnce ==
    ASSUME TypeOK, StreamInv, NEW c \in Streams, Connected(c), Close(c),
           Holding' = Holding \ {c}
    PROVE  SseSlots'
<1>1. Holding \in SUBSET Streams /\ IsFiniteSet(Streams)
  BY DaemonAssumption DEF Holding
<1>2. sseClients = Cardinality(Holding) /\ sseClients <= MaxSse /\ MaxSse \in Nat
      /\ sseClients \in Nat
  BY DaemonAssumption DEF StreamInv, SseSlots, Holding, TypeOK
<1>3. CASE c \in closed
  <2>1. Holding' = Holding /\ sseClients' = sseClients
    BY <1>3 DEF Holding, Close
  <2>2. QED  BY <1>2, <2>1 DEF SseSlots, Holding
<1>4. CASE c \notin closed
  <2>1. c \in Holding
    BY <1>4 DEF Holding
  <2>2. Cardinality(Holding) > 0 /\ Cardinality(Holding \ {c}) = Cardinality(Holding) - 1
    BY <1>1, <2>1, CountRemove
  <2>3. sseClients' = sseClients - 1
    BY <1>2, <1>4, <2>2 DEF Close
  <2>4. sseClients' = Cardinality(Holding') /\ sseClients' <= MaxSse
    BY <1>2, <2>2, <2>3
  <2>5. QED  BY <2>4 DEF SseSlots, Holding
<1>5. QED  BY <1>3, <1>4

\* The loop of a connection ends.
LEMMA LoopEnds ==
    ASSUME TypeOK, StreamInv, NEW c \in Streams, Connected(c), EndLoop(c)
    PROVE  StreamInv'
<1>1. /\ stream'[c] = "ended" /\ closed' = closed \cup {c} /\ Close(c)
      /\ \A d \in Streams : d # c => stream'[d] = stream[d]
  BY DEF TypeOK, EndLoop, Close
<1>2. Holding' = Holding \ {c}
  BY <1>1 DEF Holding, Connected
<1>3. ClosedOpened'
  BY <1>1 DEF TypeOK, StreamInv, ClosedOpened
<1>4. QED  BY <1>1, <1>2, <1>3, CloseOnce DEF StreamInv

\* Every step of a connection keeps the slots right.
LEMMA StreamKept ==
    ASSUME TypeOK, StreamInv, NEW c \in Streams, StreamStep(c)
    PROVE  StreamInv'
<1>1. Holding \in SUBSET Streams /\ IsFiniteSet(Streams)
  BY DaemonAssumption DEF Holding
<1>2. CASE OpenStream(c)
  <2>1. /\ stream[c] = "none" /\ closed' = closed /\ c \notin closed
        /\ \A d \in Streams : d # c => stream'[d] = stream[d]
    BY <1>2 DEF TypeOK, OpenStream, StreamInv, ClosedOpened
  <2>2. ClosedOpened'
    BY <2>1 DEF TypeOK, StreamInv, ClosedOpened
  <2>3. CASE sseClients >= MaxSse
    <3>1. stream'[c] = "refused" /\ sseClients' = sseClients
      BY <1>2, <2>3 DEF TypeOK, OpenStream
    <3>2. Holding' = Holding
      BY <2>1, <3>1 DEF Holding, Connected
    <3>3. QED  BY <2>2, <3>1, <3>2 DEF StreamInv, SseSlots, Holding
  <2>4. CASE ~(sseClients >= MaxSse)
    <3>1. stream'[c] \in {"next", "greeting"} /\ sseClients' = sseClients + 1
      BY <1>2, <2>4 DEF TypeOK, OpenStream
    <3>2. Holding' = Holding \cup {c} /\ c \in Streams \ Holding
      BY <2>1, <3>1 DEF Holding, Connected
    <3>3. Cardinality(Holding') = Cardinality(Holding) + 1
      BY <1>1, <3>2, CountAdd
    <3>4. sseClients' <= MaxSse
      BY <2>4, <3>1, DaemonAssumption DEF TypeOK
    <3>5. QED  BY <2>2, <3>1, <3>3, <3>4 DEF StreamInv, SseSlots, Holding
  <2>5. QED  BY <2>3, <2>4
<1>3. CASE PeerLeaves(c)
  <2>1. /\ Connected(c) /\ Close(c) /\ stream' = stream
        /\ closed' = closed \cup {c}
    BY <1>3 DEF PeerLeaves, Close
  <2>2. Holding' = Holding \ {c}
    BY <2>1 DEF Holding, Connected
  <2>3. ClosedOpened'
    BY <2>1 DEF StreamInv, ClosedOpened, Connected
  <2>4. QED  BY <2>1, <2>2, <2>3, CloseOnce DEF StreamInv
<1>4. ASSUME stream[c] \in {"greeting", "writing", "next"},
             stream' = [stream EXCEPT ![c] = "next"]
                 \/ stream' = [stream EXCEPT ![c] = "writing"],
             UNCHANGED <<closed, sseClients>>
      PROVE  StreamInv'
  <2>1. Holding' = Holding
    BY <1>4 DEF TypeOK, Holding, Connected
  <2>2. ClosedOpened'
    BY <1>4 DEF TypeOK, StreamInv, ClosedOpened
  <2>3. QED  BY <1>4, <2>1, <2>2 DEF StreamInv, SseSlots, Holding
<1>5. CASE Drain(c)
  BY <1>4, <1>5 DEF Drain
<1>6. CASE Congested(c)
  BY <1>4, <1>6, LoopEnds DEF Congested, Connected
<1>7. CASE EndOfQueue(c)
  BY <1>7, LoopEnds DEF EndOfQueue, Connected
<1>8. QED  BY <1>2, <1>3, <1>5, <1>6, <1>7 DEF StreamStep

-----------------------------------------------------------------------------
(* The sessions.                                                           *)

\* The steps that leave the sessions and their listing alone.
LEMMA ListFrame ==
    ASSUME ListInv, UNCHANGED sessionVars
    PROVE  ListInv'
BY DEF ListInv, NoDuplicates, ListedPrefix, CursorLast, sessionVars

\* A session that is created goes to the end of the map, once.
LEMMA SessionCreated ==
    ASSUME TypeOK, ListInv, NEW s \in Sessions, CreateSession(s)
    PROVE  TypeOK' /\ ListInv'
<1>1. sessions \in Seq(Sessions) /\ UNCHANGED <<listed, cursor, listing>>
  BY DEF TypeOK, CreateSession
<1>2. /\ sessions' \in Seq(Sessions) /\ Len(sessions) <= Len(sessions')
      /\ \A i \in 1 .. Len(sessions) : sessions'[i] = sessions[i]
  BY <1>1 DEF CreateSession
<1>3. NoDuplicates'
  <2>1. CASE Listed(s)
    BY <2>1 DEF CreateSession, ListInv, NoDuplicates
  <2>2. CASE ~Listed(s)
    <3>1. sessions' = Append(sessions, s) /\ \A i \in 1 .. Len(sessions) : sessions[i] # s
      BY <2>2 DEF CreateSession, Listed
    <3>2. /\ Len(sessions') = Len(sessions) + 1 /\ sessions'[Len(sessions) + 1] = s
      BY <1>1, <3>1
    <3>3. QED  BY <1>1, <1>2, <3>1, <3>2 DEF ListInv, NoDuplicates
  <2>3. QED  BY <2>1, <2>2
<1>4. ListedPrefix' /\ CursorLast'
  BY <1>1, <1>2 DEF TypeOK, ListInv, ListedPrefix, CursorLast
<1>5. TypeOK'
  BY <1>1, <1>2 DEF TypeOK, CreateSession, taskVars, streamVars
<1>6. QED  BY <1>3, <1>4, <1>5 DEF ListInv

\* A page continues the listing; the last one completes it.
LEMMA PageListed ==
    ASSUME TypeOK, ListInv, ListPage
    PROVE  /\ TypeOK' /\ ListInv'
           /\ listing' = "end" => listed' = sessions
<1>1. PICK n \in Nat :
              /\ Len(listed) + n <= Len(sessions)
              /\ listed' \in Seq(Sessions)
              /\ Len(listed') = Len(listed) + n
              /\ \A i \in 1 .. Len(listed') : listed'[i] = sessions[i]
              /\ \/ /\ n < PageSize /\ Len(listed) + n = Len(sessions)
                    /\ listing' = "end" /\ cursor' = cursor
                 \/ /\ n = PageSize /\ listing' = listing
                    /\ cursor' = listed'[Len(listed')]
  BY PageOfListing
<1>2. /\ listing = "more" /\ sessions' = sessions /\ PageSize \in Nat \ {0}
      /\ sessions \in Seq(Sessions) /\ listed \in Seq(Sessions)
      /\ Len(sessions) \in Nat /\ Len(listed) \in Nat
  BY DaemonAssumption DEF TypeOK, ListPage
<1>3. NoDuplicates' /\ ListedPrefix'
  BY <1>1, <1>2 DEF ListInv, NoDuplicates, ListedPrefix
<1>4. CursorLast'
  BY <1>1, <1>2 DEF CursorLast
<1>5. listing' = "end" => listed' = sessions
  <2>1. SUFFICES ASSUME listing' = "end"
                 PROVE  listed' = sessions
    OBVIOUS
  <2>2. Len(listed') = Len(sessions)
    BY <1>1, <1>2, <2>1
  <2>3. QED  BY <1>1, <1>2, <2>2, SeqEqual
<1>6. cursor' \in Sessions \cup {NoSession}
  <2>1. CASE cursor' = cursor
    BY <2>1 DEF TypeOK
  <2>2. CASE n = PageSize /\ cursor' = listed'[Len(listed')]
    <3>1. Len(listed') \in 1 .. Len(listed')
      BY <1>1, <1>2, <2>2
    <3>2. QED  BY <1>1, <2>2, <3>1
  <2>3. QED  BY <1>1, <2>1, <2>2
<1>7. TypeOK'
  BY <1>1, <1>2, <1>6 DEF TypeOK, ListPage, taskVars, streamVars
<1>8. QED  BY <1>3, <1>4, <1>5, <1>7 DEF ListInv

-----------------------------------------------------------------------------
(* The invariant and what it gives.                                        *)

\* The daemon starts with nothing counted, nothing listed and nobody connected.
LEMMA DaemonInit == Init => DaemonInv
<1> SUFFICES ASSUME Init
             PROVE  DaemonInv
  OBVIOUS
<1>1. TypeOK
  <2>1. turn \in [Posts -> Nat] /\ stage \in [Posts -> Engine!Stages]
    BY DEF Init, Engine!QueueInit, Engine!Stages
  <2>2. /\ sessions \in Seq(Sessions) /\ listed \in Seq(Sessions)
        /\ tasks \in [Sessions \X TaskIds -> Posts \cup {NoPost}]
    BY DEF Init
  <2>3. post \in [Posts -> PostStates] /\ stream \in [Streams -> StreamStates]
    BY DEF Init, PostStates, StreamStates
  <2>4. /\ closed \subseteq Streams /\ gone \subseteq Streams
        /\ heartbeat \subseteq Streams /\ notified \subseteq Posts
        /\ up \in BOOLEAN /\ closeOnBackpressure \in BOOLEAN
        /\ cursor \in Sessions \cup {NoSession} /\ listing \in {"more", "end"}
        /\ inflightTasks \in Nat /\ sseClients \in Nat
    BY DaemonAssumption DEF Init
  <2>5. QED  BY <2>1, <2>2, <2>3, <2>4 DEF TypeOK
<1>2. {p \in Posts : InFlight(p)} = {} /\ Holding = {}
  BY DEF Init, InFlight, Holding, Connected
<1>3. TaskInv
  <2>1. InflightExact
    BY <1>2, FS_EmptySet DEF Init, InflightExact
  <2>2. NotifiedAccepted /\ HandlesMatchTasks
    BY DEF Init, NotifiedAccepted, HandlesMatchTasks, InFlight
  <2>3. QED  BY <2>1, <2>2 DEF TaskInv
<1>4. StreamInv
  <2>1. Cardinality(Holding) = 0
    BY <1>2, FS_EmptySet
  <2>2. SseSlots
    BY <2>1, DaemonAssumption DEF Init, SseSlots, Holding
  <2>3. ClosedOpened
    BY DEF Init, ClosedOpened
  <2>4. QED  BY <2>2, <2>3 DEF StreamInv
<1>5. ListInv
  BY DEF Init, ListInv, NoDuplicates, ListedPrefix, CursorLast
<1>6. QED  BY <1>1, <1>3, <1>4, <1>5 DEF DaemonInv

\* Every step keeps the invariant.
LEMMA DaemonStep == DaemonInv /\ [Next]_vars => DaemonInv'
<1> SUFFICES ASSUME DaemonInv, [Next]_vars
             PROVE  DaemonInv'
  OBVIOUS
<1> USE DEF DaemonInv
<1>1. ASSUME NEW s \in Sessions, CreateSession(s)
      PROVE  DaemonInv'
  <2>1. UNCHANGED <<taskVars, streamVars>>
    BY <1>1 DEF CreateSession
  <2>2. QED
    BY <1>1, <2>1, SessionCreated, TaskFrame, StreamFrame DEF taskVars, streamVars
<1>2. CASE ListPage
  <2>1. UNCHANGED <<taskVars, streamVars>>
    BY <1>2 DEF ListPage
  <2>2. QED
    BY <1>2, <2>1, PageListed, TaskFrame, StreamFrame DEF taskVars, streamVars
<1>3. ASSUME NEW p \in Posts, TaskStep(p)
      PROVE  DaemonInv'
  <2>1. UNCHANGED <<sessionVars, streamVars>>
    BY <1>3 DEF TaskStep, Admit, BadBody, Accept, EngineStep, Completed
  <2>2. StreamInv' /\ ListInv'
    BY <2>1, StreamFrame, ListFrame DEF streamVars
  <2>3. TaskInv'
    <3>1. CASE EngineStep(p)
      BY <3>1, TaskFrame DEF EngineStep
    <3>2. QED  BY <1>3, <3>1, NotAccepted, Accepted, CompletedOnce DEF TaskStep
  <2>4. QED  BY <1>3, <2>2, <2>3, TaskTypes
<1>4. ASSUME NEW c \in Streams, StreamStep(c)
      PROVE  DaemonInv'
  <2>1. UNCHANGED <<sessionVars, taskVars>>
    BY <1>4 DEF StreamStep, OpenStream, PeerLeaves, Drain, Congested, EndOfQueue
  <2>2. TaskInv' /\ ListInv'
    BY <2>1, TaskFrame, ListFrame DEF taskVars
  <2>3. QED  BY <1>4, <2>2, StreamKept, StreamTypes
<1>5. CASE UNCHANGED vars
  <2>1. TaskInv' /\ StreamInv' /\ ListInv'
    BY <1>5, TaskFrame, StreamFrame, ListFrame DEF vars, taskVars, streamVars
  <2>2. TypeOK'
    BY <1>5 DEF TypeOK, vars, sessionVars, taskVars, streamVars
  <2>3. QED  BY <2>1, <2>2
<1>6. QED  BY <1>1, <1>2, <1>3, <1>4, <1>5 DEF Next

\* DaemonInv is invariant.
THEOREM DaemonCorrect == Spec => []DaemonInv
BY DaemonInit, DaemonStep, PTL DEF Spec

\* Each variable of the daemon has its type.
THEOREM TypeCorrect == Spec => []TypeOK
<1>1. DaemonInv => TypeOK
  BY DEF DaemonInv
<1>2. QED  BY <1>1, DaemonCorrect, PTL

\* The in-flight counter of src/src/daemon/server.ts counts the accepted tasks
\* that are not over: whatever their ids, no place is lost or given back twice.
THEOREM InflightCounted == Spec => []InflightExact
<1>1. DaemonInv => InflightExact
  BY DEF DaemonInv, TaskInv
<1>2. QED  BY <1>1, DaemonCorrect, PTL

\* The map of handles holds no task that is over, and holds every task whose
\* id no other accepted request has used.
THEOREM HandlesCorrect == Spec => []HandlesMatchTasks
<1>1. DaemonInv => HandlesMatchTasks
  BY DEF DaemonInv, TaskInv
<1>2. QED  BY <1>1, DaemonCorrect, PTL

\* The count of SSE clients is that of the connections that hold a slot, and
\* never exceeds the limit.
THEOREM SseSlotsCounted == Spec => []SseSlots
<1>1. DaemonInv => SseSlots
  BY DEF DaemonInv, StreamInv
<1>2. QED  BY <1>1, DaemonCorrect, PTL

\* Whatever sessions are created between its pages, a client's listing is a
\* prefix of the map at all times, and all of it when the pages end.
THEOREM ListingComplete == Spec => ListedAll
<1>1. DaemonInv /\ DaemonInv' /\ [Next]_vars =>
          [/\ IsPrefix(listed', sessions')
           /\ listing' = "end" /\ listing # "end" => listed' = sessions]_vars
  <2> SUFFICES ASSUME DaemonInv, DaemonInv', [Next]_vars
               PROVE  /\ IsPrefix(listed', sessions')
                      /\ listing' = "end" /\ listing # "end" => listed' = sessions
    OBVIOUS
  <2>1. IsPrefix(listed', sessions')
    <3>1. /\ listed' \in Seq(Sessions) /\ sessions' \in Seq(Sessions)
          /\ Len(listed') <= Len(sessions')
          /\ \A i \in 1 .. Len(listed') : listed'[i] = sessions'[i]
      BY DEF DaemonInv, TypeOK, ListInv, ListedPrefix
    <3>2. QED  BY <3>1 DEF IsPrefix
  <2>2. listing' = "end" /\ listing # "end" => listed' = sessions
    <3>1. CASE ListPage
      BY <3>1, PageListed DEF DaemonInv
    <3>2. CASE ~ListPage
      <4>1. listing' = listing
        BY <3>2 DEF Next, vars, sessionVars, CreateSession, TaskStep, Admit, BadBody,
                    Accept, EngineStep, Completed, StreamStep, OpenStream, PeerLeaves,
                    Drain, Congested, EndOfQueue
      <4>2. QED  BY <4>1
    <3>3. QED  BY <3>1, <3>2
  <2>3. QED  BY <2>1, <2>2
<1>2. QED  BY <1>1, DaemonCorrect, PTL DEF Spec, ListedAll

\* Where the loop of a connection is, by what has become of it.
LoopOK(c) ==
    /\ c \in heartbeat => stream[c] \in {"next", "writing"}
    /\ c \in gone => c \in closed /\ stream[c] \in {"greeting", "next", "writing", "ended"}
    /\ closeOnBackpressure => stream[c] \notin {"greeting", "writing"}

\* A timer runs only beside its loop; and with closeOnBackpressure the loop of
\* a connection whose peer has left is over, or has only to be told by the
\* queue that close() ended.  Without it, a loop may wait for a 'drain' that
\* no longer comes.
LoopsCanEnd ==
    \A c \in Streams :
        /\ c \in heartbeat => stream[c] \in {"next", "writing"}
        /\ c \in gone /\ closeOnBackpressure =>
              stream[c] = "ended" \/ (stream[c] = "next" /\ c \in closed)

\* The finally block of streamEvents (src/src/daemon/server.ts) is in reach of
\* every connection that is closed on backpressure, for any number of them.
THEOREM StreamsCanEnd == Spec => []LoopsCanEnd
<1> DEFINE LoopsOK == \A c \in Streams : LoopOK(c)
<1>1. Init => LoopsOK
  BY DEF Init, LoopOK
<1>2. TypeOK /\ LoopsOK /\ [Next]_vars => LoopsOK'
  <2> SUFFICES ASSUME TypeOK, LoopsOK, [Next]_vars, NEW c \in Streams
               PROVE  LoopOK(c)'
    OBVIOUS
  <2>1. LoopOK(c) /\ stream \in [Streams -> StreamStates]
    BY DEF TypeOK
  <2>2. CASE UNCHANGED streamVars
    BY <2>1, <2>2 DEF streamVars, LoopOK
  <2>3. ASSUME NEW d \in Streams, StreamStep(d)
        PROVE  LoopOK(c)'
    <3>1. CASE OpenStream(d)
      BY <2>1, <3>1 DEF OpenStream, LoopOK
    <3>2. CASE PeerLeaves(d)
      BY <2>1, <3>2 DEF PeerLeaves, Close, Connected, LoopOK
    <3>3. CASE Drain(d)
      BY <2>1, <3>3 DEF Drain, LoopOK
    <3>4. CASE Congested(d)
      BY <2>1, <3>4 DEF Congested, EndLoop, Close, LoopOK
    <3>5. CASE EndOfQueue(d)
      BY <2>1, <3>5 DEF EndOfQueue, EndLoop, Close, LoopOK
    <3>6. QED  BY <2>3, <3>1, <3>2, <3>3, <3>4, <3>5 DEF StreamStep
  <2>4. ASSUME NEW p \in Posts, TaskStep(p)
        PROVE  UNCHANGED streamVars
    BY <2>4 DEF TaskStep, Admit, BadBody, Accept, EngineStep, Completed
  <2>5. UNCHANGED vars \/ ListPage \/ (\E s \in Sessions : CreateSession(s))
           => UNCHANGED streamVars
    BY DEF vars, ListPage, CreateSession
  <2>6. QED  BY <2>2, <2>3, <2>4, <2>5 DEF Next
<1>3. LoopsOK => LoopsCanEnd
  BY DEF LoopOK, LoopsCanEnd
<1> HIDE DEF LoopsOK
<1>4. QED  BY <1>1, <1>2, <1>3, TypeCorrect, PTL DEF Spec
=============================================================================
