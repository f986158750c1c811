-------------------------- MODULE EventStoreProofs --------------------------
(***************************************************************************)
(* Proofs about EventStore for any number of clients, events, restarts and *)
(* page sizes, whenever append decides the seq: always with SQLite (whose  *)
(* key refuses what an adapter may not use), and in memory as long as no   *)
(* adapter numbers its events.                                             *)
(***************************************************************************)
EXTENDS EventStore, TLAPS

SeqAssigned == Backend = "sqlite" \/ ~AdapterNumbers
LogSurvives == Backend = "sqlite" \/ MaxRestarts = 0

-----------------------------------------------------------------------------
(* Where subscribers and pagers resume, and where append writes.           *)

\* In a dense log the events after seq k are those from position k + 1 on.
LEMMA ListOfDense ==
    ASSUME TypeOK, DenseSeq, NEW k \in Nat, k <= Len(events)
    PROVE  ListAfter(k) = SubSeq(events, k + 1, Len(events))
<1>1. CASE k = Len(events)
  <2>1. ~\E i \in 1 .. Len(events) : events[i].seq > k
    BY <1>1 DEF DenseSeq, TypeOK
  <2>2. SubSeq(events, k + 1, Len(events)) = << >>
    BY <1>1 DEF TypeOK
  <2>3. QED  BY <2>1, <2>2 DEF ListAfter
<1>2. CASE k < Len(events)
  <2> DEFINE P(i) == /\ events[i].seq > k
                     /\ \A j \in 1 .. (i - 1) : events[j].seq <= k
  <2>1. k + 1 \in 1 .. Len(events) /\ P(k + 1)
    BY <1>2 DEF DenseSeq, TypeOK
  <2>2. ASSUME NEW i \in 1 .. Len(events), P(i)
        PROVE  i = k + 1
    <3>1. i > k
      BY <2>2 DEF DenseSeq, TypeOK
    <3>2. ~(k + 1 \in 1 .. (i - 1))
      BY <1>2, <2>2, events[k + 1].seq = k + 1 DEF DenseSeq, TypeOK
    <3>3. QED  BY <3>1, <3>2 DEF TypeOK
  <2>3. (CHOOSE i \in 1 .. Len(events) : P(i)) = k + 1
    BY <2>1, <2>2
  <2>4. \E i \in 1 .. Len(events) : events[i].seq > k
    BY <2>1
  <2>5. QED  BY <2>3, <2>4 DEF ListAfter
<1>3. QED  BY <1>1, <1>2 DEF TypeOK

\* The last seq of a dense log is its length.
LEMMA LastOfDense ==
    ASSUME TypeOK, DenseSeq
    PROVE  LastSeq(events) = Len(events)
BY DEF LastSeq, Last, DenseSeq, TypeOK

\* Nothing is greater than the seq that append is about to write.
LEMMA StoredAtEnd ==
    ASSUME TypeOK, DenseSeq, NEW e \in Event, e.seq = Len(events) + 1
    PROVE  /\ Stored(e) = Append(events, e)
           /\ DenseSeq => \A i \in 1 .. Len(Stored(e)) : Stored(e)[i].seq = i
<1>1. ~\E i \in 1 .. Len(events) : events[i].seq > e.seq
  BY DEF DenseSeq, TypeOK
<1>2. Stored(e) = Append(events, e)
  BY <1>1 DEF Stored
<1>3. QED  BY <1>2 DEF DenseSeq, TypeOK

-----------------------------------------------------------------------------
(* Type correctness and the dense numbering.                               *)

\* The part of the state that append and list depend on.
Numbered == TypeOK /\ DenseSeq

\* What list returns is a sequence of events.
LEMMA ListType ==
    ASSUME Numbered, NEW k \in Nat
    PROVE  ListAfter(k) \in Seq(Event)
<1>1. CASE k <= Len(events)
  <2>1. ListAfter(k) = SubSeq(events, k + 1, Len(events))
    BY <1>1, ListOfDense DEF Numbered
  <2>2. QED  BY <2>1 DEF Numbered, TypeOK
<1>2. CASE k > Len(events)
  <2>1. ~\E i \in 1 .. Len(events) : events[i].seq > k
    BY <1>2 DEF Numbered, DenseSeq, TypeOK
  <2>2. QED  BY <2>1 DEF ListAfter
<1>3. QED  BY <1>1, <1>2 DEF Numbered, TypeOK

\* So is a page of it.
LEMMA PageType ==
    ASSUME Numbered, NEW k \in Nat, NEW limit \in PageLimits
    PROVE  Page(k, limit) \in Seq(Event)
<1>1. limit \in Nat /\ ListAfter(k) \in Seq(Event)
  BY ListType, StoreAssumption
<1>2. PICK all \in Seq(Event) : all = ListAfter(k)
  BY <1>1
<1>3. Len(all) > limit => SubSeq(all, 1, limit) \in Seq(Event)
  BY <1>1
<1>4. Page(k, limit) = IF Len(all) <= limit THEN all ELSE SubSeq(all, 1, limit)
  BY <1>2 DEF Page
<1>5. QED  BY <1>1, <1>3, <1>4

\* A cursor is a number: the seq of the last event received, or 0.
LEMMA CursorType ==
    ASSUME TypeOK, NEW c \in Clients
    PROVE  Cursor(c) \in Nat
<1>1. received[c] \in Seq(Event)
  BY DEF TypeOK
<1>2. ASSUME received[c] # << >>
      PROVE  received[c][Len(received[c])] \in Event
  BY <1>1, <1>2
<1>3. QED  BY <1>2 DEF Cursor, LastSeq, Last, Event

\* append keeps the log dense and typed, whoever calls it.
LEMMA PutNumbered ==
    ASSUME Numbered, NEW seq \in Nat, seq = Len(events) + 1, Put(seq)
    PROVE  /\ \E e \in Event : /\ e = [seq |-> seq, id |-> produced + 1]
                              /\ events' = Append(events, e)
                              /\ Push(e)
           /\ events' \in Seq(Event)
           /\ Len(events') = Len(events) + 1
           /\ \A i \in 1 .. Len(events') : events'[i].seq = i
           /\ conn' \in [Clients -> ConnStates]
           /\ queue' \in [Clients -> Seq(Event)]
           /\ handed' \in [Clients -> Event \cup {NoEvent}]
           /\ \A c \in Clients : conn'[c] = "handed" => handed'[c] \in Event
           /\ received' = received
<1> DEFINE e == [seq |-> seq, id |-> produced + 1]
<1>1. e \in Event /\ e.seq = Len(events) + 1
  BY DEF Event, Numbered, TypeOK
<1>2. events' = Append(events, e) /\ Push(e)
  BY <1>1, StoredAtEnd DEF Put, Numbered
<1>3. /\ events' \in Seq(Event)
      /\ Len(events') = Len(events) + 1
      /\ \A i \in 1 .. Len(events') : events'[i].seq = i
  BY <1>1, <1>2 DEF Numbered, DenseSeq, TypeOK
<1>4. /\ conn' \in [Clients -> ConnStates]
      /\ queue' \in [Clients -> Seq(Event)]
      /\ handed' \in [Clients -> Event \cup {NoEvent}]
      /\ \A c \in Clients : conn'[c] = "handed" => handed'[c] \in Event
      /\ received' = received
  BY <1>1, <1>2 DEF Push, Numbered, TypeOK, ConnStates
<1>5. QED  BY <1>1, <1>2, <1>3, <1>4

\* In SQLite a seq that is free and at most one beyond the log is the next one.
LEMMA FreeIsNext ==
    ASSUME Numbered, ~SeqTaken(adapterSeq)
    PROVE  adapterSeq = Len(events) + 1
<1>1. adapterSeq \notin 1 .. Len(events)
  BY DEF SeqTaken, Numbered, DenseSeq, TypeOK
<1>2. QED  BY <1>1 DEF Numbered, DenseSeq, TypeOK

\* Initially the log is empty and nobody has read anything.
LEMMA InitNumbered == ASSUME Init PROVE Numbered
BY DEF Init, Numbered, TypeOK, DenseSeq, ConnStates

\* Every step of the store and of its readers keeps types and numbering.
LEMMA NextNumbered ==
    ASSUME SeqAssigned, Numbered, [Next]_vars
    PROVE  Numbered'
<1> USE StoreAssumption DEF Numbered
<1>1. CASE EngineAppend
  <2>1. LastSeq(events) + 1 = Len(events) + 1 /\ Len(events) + 1 \in Nat
    BY LastOfDense DEF TypeOK
  <2>2. Put(Len(events) + 1)
    BY <1>1, <2>1 DEF EngineAppend
  <2>3. /\ events' \in Seq(Event) /\ Len(events') = Len(events) + 1
        /\ \A i \in 1 .. Len(events') : events'[i].seq = i
        /\ conn' \in [Clients -> ConnStates]
        /\ queue' \in [Clients -> Seq(Event)]
        /\ handed' \in [Clients -> Event \cup {NoEvent}]
        /\ \A c \in Clients : conn'[c] = "handed" => handed'[c] \in Event
        /\ received' = received
    BY <2>1, <2>2, PutNumbered
  <2>4. QED  BY <1>1, <2>3 DEF EngineAppend, TypeOK, DenseSeq
<1>2. CASE AdapterAppend
  <2>1. CASE Backend = "sqlite" /\ SeqTaken(adapterSeq)
    BY <1>2, <2>1 DEF AdapterAppend, TypeOK, DenseSeq, clientVars
  <2>2. CASE ~(Backend = "sqlite" /\ SeqTaken(adapterSeq))
    <3>1. adapterSeq = Len(events) + 1 /\ adapterSeq \in Nat
      BY <1>2, <2>2, FreeIsNext DEF AdapterAppend, SeqAssigned, TypeOK
    <3>2. Put(adapterSeq) /\ adapterSeq' = adapterSeq + 1
          /\ produced' = produced + 1 /\ restarts' = restarts
      BY <1>2, <2>2 DEF AdapterAppend
    <3>3. /\ events' \in Seq(Event) /\ Len(events') = Len(events) + 1
          /\ \A i \in 1 .. Len(events') : events'[i].seq = i
          /\ conn' \in [Clients -> ConnStates]
          /\ queue' \in [Clients -> Seq(Event)]
          /\ handed' \in [Clients -> Event \cup {NoEvent}]
          /\ \A c \in Clients : conn'[c] = "handed" => handed'[c] \in Event
          /\ received' = received
      BY <3>1, <3>2, PutNumbered
    <3>4. QED  BY <3>1, <3>2, <3>3 DEF TypeOK, DenseSeq
  <2>3. QED  BY <2>1, <2>2
<1>3. CASE NextTask
  BY <1>3 DEF NextTask, TypeOK, DenseSeq, clientVars
<1>4. ASSUME NEW c \in Clients, Subscribe(c)
      PROVE  Numbered'
  <2>1. ListAfter(Cursor(c)) \in Seq(Event)
    BY CursorType, ListType
  <2>2. QED
    BY <1>4, <2>1 DEF Subscribe, TypeOK, DenseSeq, storeVars, ConnStates
<1>5. ASSUME NEW c \in Clients, Poll(c)
      PROVE  Numbered'
  <2>1. PICK limit \in PageLimits :
          received' = [received EXCEPT ![c] = @ \o Page(Cursor(c), limit)]
    BY <1>5 DEF Poll
  <2>2. Page(Cursor(c), limit) \in Seq(Event)
    BY CursorType, PageType
  <2>3. received[c] \o Page(Cursor(c), limit) \in Seq(Event)
    BY <2>2 DEF TypeOK
  <2>4. UNCHANGED <<events, produced, adapterSeq, conn, queue, handed, restarts>>
    BY <1>5 DEF Poll, storeVars
  <2>5. received' \in [Clients -> Seq(Event)]
    BY <2>1, <2>3 DEF TypeOK
  <2>6. QED  BY <2>4, <2>5 DEF TypeOK, DenseSeq
<1>6. ASSUME NEW c \in Clients, Shift(c)
      PROVE  Numbered'
  <2>1. Head(queue[c]) \in Event /\ Tail(queue[c]) \in Seq(Event)
    BY <1>6 DEF Shift, TypeOK
  <2>2. QED
    BY <1>6, <2>1 DEF Shift, TypeOK, DenseSeq, storeVars, ConnStates
<1>7. ASSUME NEW c \in Clients, Park(c)
      PROVE  Numbered'
  BY <1>7 DEF Park, TypeOK, DenseSeq, storeVars, ConnStates
<1>8. ASSUME NEW c \in Clients, Deliver(c)
      PROVE  Numbered'
  <2>1. Append(received[c], handed[c]) \in Seq(Event)
    BY <1>8 DEF Deliver, TypeOK
  <2>2. QED
    BY <1>8, <2>1 DEF Deliver, TypeOK, DenseSeq, storeVars, ConnStates
<1>9. ASSUME NEW c \in Clients, Disconnect(c)
      PROVE  Numbered'
  BY <1>9 DEF Disconnect, TypeOK, DenseSeq, storeVars, ConnStates
<1>10. CASE Restart
  BY <1>10 DEF Restart, TypeOK, DenseSeq, ConnStates, Event
<1>11. CASE UNCHANGED vars
  BY <1>11 DEF vars, TypeOK, DenseSeq
<1>12. QED
  BY <1>1, <1>2, <1>3, <1>4, <1>5, <1>6, <1>7, <1>8, <1>9, <1>10, <1>11
     DEF Next, Consume

\* In every reachable state the store is well typed and its log is numbered
\* 1, 2, 3, ... without holes.
THEOREM StoreNumbered ==
    ASSUME SeqAssigned
    PROVE  Spec => [](TypeOK /\ DenseSeq)
<1>1. Init => Numbered
  BY InitNumbered
<1>2. Numbered /\ [Next]_vars => Numbered'
  BY NextNumbered
<1>3. Numbered => TypeOK /\ DenseSeq
  BY DEF Numbered
<1>4. QED  BY <1>1, <1>2, <1>3, PTL DEF Spec

\* append never writes two events of a session with the same seq, nor one
\* with a smaller seq behind one with a greater.
THEOREM SeqIsMonotonic ==
    ASSUME SeqAssigned
    PROVE  Spec => []MonotonicSeq
<1>1. TypeOK /\ DenseSeq => MonotonicSeq
  BY DEF TypeOK, DenseSeq, MonotonicSeq
<1>2. QED  BY <1>1, StoreNumbered, PTL

-----------------------------------------------------------------------------
(* What the readers have.                                                  *)

\* The inductive invariant of one reader: it has a prefix of the log, and an
\* open subscription holds exactly the rest.
Reads(c) ==
    /\ Len(received[c]) <= Len(events)
    /\ received[c] = SubSeq(events, 1, Len(received[c]))
    /\ conn[c] # "none" => received[c] \o InFlight(c) \o queue[c] = events
    /\ conn[c] = "waiting" => queue[c] = << >>

ReadersOK == \A c \in Clients : Reads(c)

\* A prefix of a sequence is still one after an append.
LEMMA PrefixOfAppend ==
    ASSUME NEW S, NEW s \in Seq(S), NEW e \in S, NEW n \in 0 .. Len(s)
    PROVE  SubSeq(Append(s, e), 1, n) = SubSeq(s, 1, n)
OBVIOUS

\* A prefix and a piece that starts where it ends are a longer prefix.
LEMMA PrefixPiece ==
    ASSUME NEW S, NEW s \in Seq(S), NEW n \in 0 .. Len(s), NEW m \in n .. Len(s)
    PROVE  SubSeq(s, 1, n) \o SubSeq(s, n + 1, m) = SubSeq(s, 1, m)
OBVIOUS

\* A prefix and the suffix after it are the sequence.
LEMMA PrefixSuffix ==
    ASSUME NEW S, NEW s \in Seq(S), NEW n \in 0 .. Len(s)
    PROVE  SubSeq(s, 1, n) \o SubSeq(s, n + 1, Len(s)) = s
<1>1. SubSeq(s, 1, n) \o SubSeq(s, n + 1, Len(s)) = SubSeq(s, 1, Len(s))
  <2>1. Len(s) \in n .. Len(s)
    OBVIOUS
  <2>2. QED  BY <2>1, PrefixPiece
<1>2. SubSeq(s, 1, Len(s)) = s
  OBVIOUS
<1>3. QED  BY <1>1, <1>2

\* The left part of a concatenation is a prefix of it.
LEMMA LeftIsPrefix ==
    ASSUME NEW S, NEW r \in Seq(S), NEW q \in Seq(S)
    PROVE  /\ Len(r) <= Len(r \o q)
           /\ r = SubSeq(r \o q, 1, Len(r))
OBVIOUS

\* An append to the right part is an append to the concatenation.
LEMMA ConcatAppend ==
    ASSUME NEW S, NEW r \in Seq(S), NEW q \in Seq(S), NEW e \in S
    PROVE  r \o Append(q, e) = Append(r \o q, e)
OBVIOUS

\* Appending is concatenating a sequence of one element.
LEMMA AppendIsConcat ==
    ASSUME NEW S, NEW r \in Seq(S), NEW e \in S
    PROVE  /\ Append(r, e) \in Seq(S)
           /\ Append(r, e) = r \o <<e>>
           /\ Append(r, e) \o << >> = Append(r, e)
OBVIOUS

\* A sequence that is not empty is its head and its tail.
LEMMA HeadAndTail ==
    ASSUME NEW S, NEW r \in Seq(S), NEW q \in Seq(S), q # << >>
    PROVE  r \o <<Head(q)>> \o Tail(q) = r \o << >> \o q
<1>1. <<Head(q)>> \o Tail(q) = q /\ <<Head(q)>> \in Seq(S) /\ Tail(q) \in Seq(S)
  OBVIOUS
<1>2. ASSUME NEW a \in Seq(S), NEW b \in Seq(S)
      PROVE  r \o a \o b = r \o (a \o b)
  OBVIOUS
<1>3. r \o << >> = r
  OBVIOUS
<1>4. QED  BY <1>1, <1>2, <1>3

\* A reader that has a prefix of a dense log resumes right after it.
LEMMA CursorIsLength ==
    ASSUME Numbered, NEW c \in Clients, Reads(c)
    PROVE  Cursor(c) = Len(received[c])
<1>1. received[c] \in Seq(Event) /\ events \in Seq(Event)
  BY DEF Numbered, TypeOK
<1>2. CASE received[c] = << >>
  BY <1>2 DEF Cursor, LastSeq
<1>3. CASE received[c] # << >>
  <2>1. Len(received[c]) \in 1 .. Len(events)
    BY <1>1, <1>3 DEF Reads
  <2>2. received[c][Len(received[c])] = events[Len(received[c])]
    BY <1>1, <2>1 DEF Reads
  <2>3. QED
    BY <1>3, <2>1, <2>2 DEF Cursor, LastSeq, Last, Numbered, DenseSeq
<1>4. QED  BY <1>2, <1>3

\* Initially no reader has or awaits anything.
LEMMA InitReaders == ASSUME Init PROVE ReadersOK
BY DEF Init, ReadersOK, Reads, InFlight

\* append reaches every open subscription and moves no reader.
LEMMA PutReaders ==
    ASSUME Numbered, ReadersOK, NEW seq \in Nat, seq = Len(events) + 1, Put(seq)
    PROVE  ReadersOK'
<1>1. PICK e \in Event : events' = Append(events, e) /\ Push(e)
  BY PutNumbered
<1> SUFFICES ASSUME NEW c \in Clients
             PROVE  Reads(c)'
  BY DEF ReadersOK
<1> DEFINE r == received[c]
           q == queue[c]
<1>2. /\ r \in Seq(Event) /\ q \in Seq(Event) /\ events \in Seq(Event)
      /\ conn[c] \in ConnStates
      /\ conn[c] = "handed" => handed[c] \in Event
  BY DEF Numbered, TypeOK
<1>3. Reads(c)
  BY DEF ReadersOK
<1>4. received'[c] = r
  BY <1>1 DEF Push
<1>5. Len(r) <= Len(events') /\ r = SubSeq(events', 1, Len(r))
  <2>1. Len(r) \in 0 .. Len(events)
    BY <1>2, <1>3 DEF Reads
  <2>2. SubSeq(events', 1, Len(r)) = SubSeq(events, 1, Len(r))
    BY <1>1, <1>2, <2>1, PrefixOfAppend
  <2>3. QED  BY <1>1, <1>2, <1>3, <2>1, <2>2 DEF Reads
<1>6. CASE conn[c] = "none"
  <2>1. conn'[c] = "none"
    BY <1>1, <1>6 DEF Push, Numbered, TypeOK
  <2>2. QED  BY <1>4, <1>5, <2>1 DEF Reads
<1>7. CASE conn[c] = "waiting"
  <2>1. conn'[c] = "handed" /\ handed'[c] = e /\ queue'[c] = << >>
    BY <1>1, <1>3, <1>7 DEF Push, Reads, Numbered, TypeOK
  <2>2. r = events
    <3>1. r \o << >> \o << >> = events
      BY <1>3, <1>7 DEF Reads, InFlight
    <3>2. QED  BY <1>2, <3>1
  <2>3. r \o <<e>> \o << >> = Append(r, e)
    BY <1>2
  <2>4. QED  BY <1>1, <1>4, <1>5, <2>1, <2>2, <2>3 DEF Reads, InFlight
<1>8. CASE conn[c] \in {"idle", "handed"}
  <2>1. /\ conn'[c] = conn[c] /\ handed'[c] = handed[c]
        /\ queue'[c] = Append(q, e)
    BY <1>1, <1>8 DEF Push, Numbered, TypeOK
  <2>2. InFlight(c)' = InFlight(c) /\ InFlight(c) \in Seq(Event)
    BY <1>2, <2>1 DEF InFlight
  <2>3. r \o InFlight(c) \in Seq(Event)
    BY <1>2, <2>2
  <2>4. r \o InFlight(c) \o q = events
    BY <1>3, <1>8 DEF Reads
  <2>5. r \o InFlight(c) \o Append(q, e) = Append(r \o InFlight(c) \o q, e)
    <3> DEFINE x == r \o InFlight(c)
    <3>1. x \in Seq(Event) /\ q \in Seq(Event)
      BY <1>2, <2>3
    <3> HIDE DEF x, q
    <3>2. x \o Append(q, e) = Append(x \o q, e)
      BY <3>1, ConcatAppend
    <3>3. QED  BY <3>2 DEF x, q
  <2>6. received'[c] \o InFlight(c)' \o queue'[c] = events'
    BY <1>1, <1>4, <2>1, <2>2, <2>4, <2>5
  <2>7. QED  BY <1>4, <1>5, <1>8, <2>1, <2>6 DEF Reads
<1>9. QED  BY <1>2, <1>6, <1>7, <1>8 DEF ConnStates

\* What subscribe queues is the rest of the log.
LEMMA SubscribeReads ==
    ASSUME Numbered, NEW c \in Clients, Reads(c), Subscribe(c)
    PROVE  Reads(c)'
<1> DEFINE k == Len(received[c])
<1>1. events \in Seq(Event) /\ received[c] \in Seq(Event) /\ k \in 0 .. Len(events)
  BY DEF Numbered, TypeOK, Reads
<1>2. /\ events' = events /\ received'[c] = received[c]
      /\ conn'[c] = "idle" /\ queue'[c] = ListAfter(k)
  BY CursorIsLength DEF Subscribe, storeVars, Numbered, TypeOK
<1>3. ListAfter(k) = SubSeq(events, k + 1, Len(events))
  <2>1. TypeOK /\ DenseSeq /\ k \in Nat /\ k <= Len(events)
    BY <1>1 DEF Numbered
  <2>2. QED  BY <2>1, ListOfDense
<1>4. received[c] = SubSeq(events, 1, k)
  BY DEF Reads
<1>5. SubSeq(events, 1, k) \o SubSeq(events, k + 1, Len(events)) = events
  BY <1>1, PrefixSuffix
<1>6. received[c] \o << >> = received[c]
  BY <1>1
<1>7. received'[c] \o InFlight(c)' \o queue'[c] = events'
  BY <1>2, <1>3, <1>4, <1>5, <1>6 DEF InFlight
<1>8. QED  BY <1>1, <1>2, <1>4, <1>7 DEF Reads

\* A page is what comes next in the log.
LEMMA PollReads ==
    ASSUME Numbered, NEW c \in Clients, Reads(c), Poll(c)
    PROVE  Reads(c)'
<1> DEFINE k == Len(received[c])
<1>1. events \in Seq(Event) /\ received[c] \in Seq(Event) /\ k \in 0 .. Len(events)
  BY DEF Numbered, TypeOK, Reads
<1>2. PICK limit \in PageLimits : received'[c] = received[c] \o Page(k, limit)
  BY CursorIsLength DEF Poll, Numbered, TypeOK
<1>3. events' = events /\ conn'[c] = "none"
  BY DEF Poll, storeVars
<1>4. ListAfter(k) = SubSeq(events, k + 1, Len(events))
  <2>1. TypeOK /\ DenseSeq /\ k \in Nat /\ k <= Len(events)
    BY <1>1 DEF Numbered
  <2>2. QED  BY <2>1, ListOfDense
<1>5. PICK m \in k .. Len(events) : Page(k, limit) = SubSeq(events, k + 1, m)
  <2>1. CASE Len(ListAfter(k)) <= limit
    <3>1. Page(k, limit) = SubSeq(events, k + 1, Len(events))
      BY <1>4, <2>1 DEF Page
    <3>2. Len(events) \in k .. Len(events)
      BY <1>1
    <3>3. QED  BY <3>1, <3>2
  <2>2. CASE ~(Len(ListAfter(k)) <= limit)
    <3>1. limit \in Nat /\ k + limit \in k .. Len(events)
      BY <1>1, <1>4, <2>2, StoreAssumption
    <3>2. SubSeq(SubSeq(events, k + 1, Len(events)), 1, limit)
            = SubSeq(events, k + 1, k + limit)
      BY <1>1, <3>1
    <3>3. QED  BY <1>4, <2>2, <3>1, <3>2 DEF Page
  <2>3. QED  BY <2>1, <2>2
<1>6. SubSeq(events, 1, k) \o SubSeq(events, k + 1, m) = SubSeq(events, 1, m)
  BY <1>1, PrefixPiece
<1>7. received'[c] = SubSeq(events, 1, m)
  BY <1>2, <1>5, <1>6 DEF Reads
<1>8. Len(received'[c]) = m /\ m \in 0 .. Len(events)
  BY <1>1, <1>7
<1>9. QED  BY <1>3, <1>7, <1>8 DEF Reads

\* next() and writeSse move one event from the queue to the client.
LEMMA ConsumeReads ==
    ASSUME Numbered, NEW c \in Clients, Reads(c), Consume(c)
    PROVE  Reads(c)'
<1> DEFINE r == received[c]
           q == queue[c]
<1>1. r \in Seq(Event) /\ q \in Seq(Event) /\ events \in Seq(Event)
  BY DEF Numbered, TypeOK
<1>2. events' = events
  BY DEF Consume, Shift, Park, Deliver, storeVars
<1>3. CASE Shift(c)
  <2>1. /\ conn'[c] = "handed" /\ handed'[c] = Head(q) /\ queue'[c] = Tail(q)
        /\ received'[c] = r /\ conn[c] = "idle" /\ q # << >>
    BY <1>3 DEF Shift, Numbered, TypeOK
  <2>2. r \o << >> \o q = events
    BY <2>1 DEF Reads, InFlight
  <2>3. r \o <<Head(q)>> \o Tail(q) = r \o << >> \o q
    BY <1>1, <2>1, HeadAndTail
  <2>4. received'[c] \o InFlight(c)' \o queue'[c] = events'
    BY <1>2, <2>1, <2>2, <2>3 DEF InFlight
  <2>5. QED  BY <1>2, <2>1, <2>4 DEF Reads
<1>4. CASE Park(c)
  BY <1>2, <1>4 DEF Park, Reads, InFlight, Numbered, TypeOK
<1>5. CASE Deliver(c)
  <2>1. /\ conn'[c] = "idle" /\ queue'[c] = q
        /\ received'[c] = Append(r, handed[c])
        /\ conn[c] = "handed" /\ handed[c] \in Event
    BY <1>5 DEF Deliver, Numbered, TypeOK
  <2>2. r \o <<handed[c]>> \o q = events
    BY <2>1 DEF Reads, InFlight
  <2>3. /\ Append(r, handed[c]) \in Seq(Event)
        /\ Append(r, handed[c]) = r \o <<handed[c]>>
        /\ Append(r, handed[c]) \o << >> = Append(r, handed[c])
    <3> DEFINE e == handed[c]
    <3>1. r \in Seq(Event) /\ e \in Event
      BY <1>1, <2>1
    <3> HIDE DEF r, e
    <3>2. /\ Append(r, e) \in Seq(Event)
          /\ Append(r, e) = r \o <<e>>
          /\ Append(r, e) \o << >> = Append(r, e)
      BY <3>1, AppendIsConcat
    <3>3. QED  BY <3>2 DEF e
  <2>4. received'[c] \o InFlight(c)' \o queue'[c] = events'
    BY <1>2, <2>1, <2>2, <2>3 DEF InFlight
  <2>5. Append(r, handed[c]) \o q = events
    BY <2>2, <2>3
  <2>6. /\ Len(Append(r, handed[c])) <= Len(events)
        /\ Append(r, handed[c]) = SubSeq(events, 1, Len(Append(r, handed[c])))
    BY <1>1, <2>3, <2>5, LeftIsPrefix
  <2>7. QED  BY <1>2, <2>1, <2>4, <2>6 DEF Reads
<1>6. QED  BY <1>3, <1>4, <1>5 DEF Consume

\* Steps of another client leave a reader alone.
LEMMA OthersRead ==
    ASSUME Numbered, NEW c \in Clients, NEW d \in Clients \ {c}, Reads(d),
           Subscribe(c) \/ Poll(c) \/ Consume(c) \/ Disconnect(c)
    PROVE  Reads(d)'
<1>1. events' = events
  BY DEF Subscribe, Poll, Consume, Shift, Park, Deliver, Disconnect, storeVars
<1>2. /\ conn'[d] = conn[d] /\ queue'[d] = queue[d]
      /\ handed'[d] = handed[d] /\ received'[d] = received[d]
  BY DEF Subscribe, Poll, Consume, Shift, Park, Deliver, Disconnect,
         Numbered, TypeOK
<1>3. QED  BY <1>1, <1>2 DEF Reads, InFlight

\* Every step keeps what the readers have consistent with the log.
LEMMA NextReaders ==
    ASSUME SeqAssigned, LogSurvives, Numbered, ReadersOK, [Next]_vars
    PROVE  ReadersOK'
<1>1. CASE EngineAppend
  <2>1. LastSeq(events) + 1 = Len(events) + 1 /\ Len(events) + 1 \in Nat
    <3>1. TypeOK /\ DenseSeq
      BY DEF Numbered
    <3>2. QED  BY <3>1, LastOfDense DEF TypeOK
  <2>2. Put(Len(events) + 1)
    BY <1>1, <2>1 DEF EngineAppend
  <2>3. QED  BY <2>1, <2>2, PutReaders
<1>2. CASE AdapterAppend
  <2>1. CASE Backend = "sqlite" /\ SeqTaken(adapterSeq)
    BY <1>2, <2>1 DEF AdapterAppend, ReadersOK, Reads, InFlight, clientVars
  <2>2. CASE ~(Backend = "sqlite" /\ SeqTaken(adapterSeq))
    <3>1. adapterSeq = Len(events) + 1 /\ adapterSeq \in Nat
      BY <1>2, <2>2, FreeIsNext
         DEF AdapterAppend, SeqAssigned, Numbered, TypeOK
    <3>2. Put(adapterSeq)
      BY <1>2, <2>2 DEF AdapterAppend
    <3>3. QED  BY <3>1, <3>2, PutReaders
  <2>3. QED  BY <2>1, <2>2
<1>3. CASE NextTask
  BY <1>3 DEF NextTask, ReadersOK, Reads, InFlight, clientVars
<1>4. ASSUME NEW c \in Clients,
             Subscribe(c) \/ Poll(c) \/ Consume(c) \/ Disconnect(c)
      PROVE  ReadersOK'
  <2>1. ASSUME Disconnect(c)
        PROVE  Reads(c)'
    BY <2>1 DEF Disconnect, ReadersOK, Reads, storeVars, Numbered, TypeOK
  <2>2. Reads(c)'
    BY <1>4, <2>1, SubscribeReads, PollReads, ConsumeReads DEF ReadersOK
  <2>3. ASSUME NEW d \in Clients \ {c}
        PROVE  Reads(d)'
    BY <1>4, OthersRead DEF ReadersOK
  <2>4. QED  BY <2>2, <2>3 DEF ReadersOK
<1>5. CASE Restart
  <2>1. Backend = "sqlite"
    BY <1>5, StoreAssumption DEF Restart, LogSurvives, Numbered, TypeOK
  <2>2. QED  BY <1>5, <2>1 DEF Restart, ReadersOK, Reads, InFlight
<1>6. CASE UNCHANGED vars
  BY <1>6 DEF vars, ReadersOK, Reads, InFlight
<1>7. QED
  BY <1>1, <1>2, <1>3, <1>4, <1>5, <1>6 DEF Next

\* In every reachable state each reader has a prefix of the log and an open
\* subscription holds exactly the rest of it.
THEOREM ReadersCorrect ==
    ASSUME SeqAssigned, LogSurvives
    PROVE  Spec => [](Numbered /\ ReadersOK)
<1>1. Init => Numbered /\ ReadersOK
  BY InitNumbered, InitReaders
<1>2. Numbered /\ ReadersOK /\ [Next]_vars => (Numbered /\ ReadersOK)'
  BY NextNumbered, NextReaders
<1>3. QED  BY <1>1, <1>2, PTL DEF Spec

\* A client never gets an event twice, out of order, or one that is not
\* persisted, and never misses one before the last it got, whatever it does:
\* stream, page, lose the connection, or survive a restart of the daemon.
THEOREM DeliveryIsExactlyOnce ==
    ASSUME SeqAssigned, LogSurvives
    PROVE  Spec => []ExactlyOnce
<1>1. Numbered /\ ReadersOK => ExactlyOnce
  <2> SUFFICES ASSUME Numbered, ReadersOK, NEW c \in Clients
               PROVE  IsPrefix(received[c], events)
    BY DEF ExactlyOnce
  <2>1. Reads(c) /\ received[c] \in Seq(Event)
    BY DEF ReadersOK, Numbered, TypeOK
  <2>2. SubSeq(received[c], 1, Len(received[c])) = received[c]
    BY <2>1
  <2>3. QED  BY <2>1, <2>2 DEF Reads, IsPrefix
<1>2. QED  BY <1>1, ReadersCorrect, PTL

\* Between the snapshot subscribe queues and the first live push nothing is
\* lost and nothing is duplicated.
THEOREM SubscribeHasNoGap ==
    ASSUME SeqAssigned, LogSurvives
    PROVE  Spec => []NoGapAtSubscribe
<1>1. ReadersOK => NoGapAtSubscribe
  BY DEF ReadersOK, Reads, NoGapAtSubscribe
<1>2. QED  BY <1>1, ReadersCorrect, PTL

\* The AsyncQueue never leaves its consumer parked with events waiting.
THEOREM QueueLosesNoWakeup ==
    ASSUME SeqAssigned, LogSurvives
    PROVE  Spec => []NoLostWakeup
<1>1. Numbered /\ ReadersOK => NoLostWakeup
  <2> SUFFICES ASSUME Numbered, ReadersOK, NEW c \in Clients,
                      conn[c] = "waiting"
               PROVE  received[c] = events
    BY DEF NoLostWakeup
  <2>1. received[c] \o << >> \o << >> = events /\ received[c] \in Seq(Event)
    BY DEF ReadersOK, Reads, InFlight, Numbered, TypeOK
  <2>2. QED  BY <2>1
<1>2. QED  BY <1>1, ReadersCorrect, PTL

-----------------------------------------------------------------------------
(* The store implements the log of EventLog.                               *)

\* No more is stored than was produced.
Bounded == Len(events) <= produced /\ produced <= MaxEvents

IInv == Numbered /\ ReadersOK /\ Bounded

\* append publishes exactly one entry of the abstract log.
LEMMA PutPublishes ==
    ASSUME IInv, NEW seq \in Nat, seq = Len(events) + 1, Put(seq),
           produced < MaxEvents, produced' = produced + 1
    PROVE  Log!Publish /\ Bounded'
<1>1. PICK e \in Event : /\ e = [seq |-> seq, id |-> produced + 1]
                         /\ events' = Append(events, e)
                         /\ received' = received
  BY PutNumbered DEF IInv
<1>2. /\ Len(events) \in Nat /\ produced \in Nat /\ MaxEvents \in Nat
      /\ Len(events) <= produced
  BY StoreAssumption DEF IInv, Bounded, Numbered, TypeOK
<1>3. seq \in 1 .. MaxEvents /\ produced + 1 \in 1 .. MaxEvents
  BY <1>2
<1>4. e \in [seq : 1 .. MaxEvents, id : 1 .. MaxEvents]
  BY <1>1, <1>3
<1>5. Len(events') = Len(events) + 1
  BY <1>1 DEF IInv, Numbered, TypeOK
<1>6. QED  BY <1>1, <1>2, <1>4, <1>5 DEF Log!Publish, Bounded

\* A page or a delivered event extends what the reader held by a longer
\* prefix of the log.
LEMMA ReadsMore ==
    ASSUME IInv, IInv', NEW c \in Clients, events' = events,
           \E x \in Seq(Event) : received' = [received EXCEPT ![c] = x]
    PROVE  Len(received[c]) < Len(received'[c]) => Log!Read(c)
<1>1. /\ received'[c] \in Seq(Event) /\ received[c] \in Seq(Event)
      /\ events \in Seq(Event) /\ received \in [Clients -> Seq(Event)]
  BY DEF IInv, Numbered, TypeOK
<1>2. /\ Len(received'[c]) <= Len(events)
      /\ received'[c] = SubSeq(events, 1, Len(received'[c]))
  BY DEF IInv, ReadersOK, Reads
<1>3. received' = [received EXCEPT ![c] = received'[c]]
  BY <1>1
<1>4. ASSUME Len(received[c]) < Len(received'[c])
      PROVE  Log!Read(c)
  <2>1. Len(received'[c]) \in (Len(received[c]) + 1) .. Len(events)
    BY <1>1, <1>2, <1>4
  <2>2. received' = [received EXCEPT ![c]
                       = SubSeq(events, 1, Len(received'[c]))]
    BY <1>2, <1>3
  <2>3. QED  BY <2>1, <2>2 DEF Log!Read
<1>5. QED  BY <1>4

\* Every step of the store is a step of the abstract log, or changes nothing
\* that the abstract log shows.
LEMMA StepImplements ==
    ASSUME SeqAssigned, LogSurvives, IInv, (Numbered /\ ReadersOK)', [Next]_vars
    PROVE  [Log!Next]_(Log!vars) /\ Bounded'
<1>1. TypeOK /\ DenseSeq /\ Numbered
  BY DEF IInv, Numbered
<1>2. CASE EngineAppend
  <2>1. LastSeq(events) + 1 = Len(events) + 1 /\ Len(events) + 1 \in Nat
    BY <1>1, LastOfDense DEF TypeOK
  <2>2. Put(Len(events) + 1) /\ produced < MaxEvents /\ produced' = produced + 1
    BY <1>2, <2>1 DEF EngineAppend
  <2>3. QED  BY <2>1, <2>2, PutPublishes DEF Log!Next
<1>3. CASE AdapterAppend
  <2>1. CASE Backend = "sqlite" /\ SeqTaken(adapterSeq)
    BY <1>1, <1>3, <2>1, StoreAssumption
       DEF AdapterAppend, IInv, Bounded, TypeOK, clientVars, Log!vars
  <2>2. CASE ~(Backend = "sqlite" /\ SeqTaken(adapterSeq))
    <3>1. adapterSeq = Len(events) + 1 /\ adapterSeq \in Nat
      BY <1>1, <1>3, <2>2, FreeIsNext DEF AdapterAppend, SeqAssigned, TypeOK
    <3>2. Put(adapterSeq) /\ produced < MaxEvents /\ produced' = produced + 1
      BY <1>3, <2>2 DEF AdapterAppend
    <3>3. QED  BY <3>1, <3>2, PutPublishes DEF Log!Next
  <2>3. QED  BY <2>1, <2>2
<1>4. CASE NextTask
  BY <1>4 DEF NextTask, IInv, Bounded, clientVars, Log!vars
<1>5. ASSUME NEW c \in Clients,
             Subscribe(c) \/ Shift(c) \/ Park(c) \/ Disconnect(c)
      PROVE  [Log!Next]_(Log!vars) /\ Bounded'
  BY <1>5 DEF Subscribe, Shift, Park, Disconnect, IInv, Bounded, storeVars,
              Log!vars
<1>6. ASSUME NEW c \in Clients, Poll(c) \/ Deliver(c)
      PROVE  [Log!Next]_(Log!vars) /\ Bounded'
  <2>1. UNCHANGED <<events, produced>>
    BY <1>6 DEF Poll, Deliver, storeVars
  <2>2. IInv' /\ Bounded'
    BY <2>1 DEF IInv, Bounded
  <2>3. \E x \in Seq(Event) : /\ received' = [received EXCEPT ![c] = x]
                             /\ Len(received[c]) < Len(x)
    <3>1. received[c] \in Seq(Event)
      BY <1>1 DEF TypeOK
    <3>2. CASE Poll(c)
      <4>1. PICK limit \in PageLimits :
              /\ Page(Cursor(c), limit) # << >>
              /\ received' = [received EXCEPT ![c] = @ \o Page(Cursor(c), limit)]
        BY <3>2 DEF Poll
      <4>2. Page(Cursor(c), limit) \in Seq(Event)
        BY <1>1, CursorType, PageType
      <4>3. /\ received[c] \o Page(Cursor(c), limit) \in Seq(Event)
            /\ Len(received[c] \o Page(Cursor(c), limit)) > Len(received[c])
        BY <3>1, <4>1, <4>2
      <4>4. QED  BY <4>1, <4>3
    <3>3. CASE Deliver(c)
      <4>1. handed[c] \in Event
        BY <1>1, <3>3 DEF Deliver, TypeOK
      <4>2. /\ Append(received[c], handed[c]) \in Seq(Event)
            /\ Len(Append(received[c], handed[c])) > Len(received[c])
        BY <3>1, <4>1
      <4>3. QED  BY <3>3, <4>2 DEF Deliver
    <3>4. QED  BY <1>6, <3>2, <3>3
  <2>4. Len(received[c]) < Len(received'[c])
    BY <1>1, <2>3 DEF TypeOK
  <2>5. Log!Read(c)
    BY <2>1, <2>2, <2>3, <2>4, ReadsMore
  <2>6. QED  BY <2>2, <2>5 DEF Log!Next
<1>7. CASE Restart
  <2>1. Backend = "sqlite"
    BY <1>1, <1>7, StoreAssumption DEF Restart, LogSurvives, TypeOK
  <2>2. QED  BY <1>7, <2>1 DEF Restart, IInv, Bounded, Log!vars
<1>8. CASE UNCHANGED vars
  BY <1>8 DEF vars, IInv, Bounded, Log!vars
<1>9. QED
  BY <1>2, <1>3, <1>4, <1>5, <1>6, <1>7, <1>8 DEF Next, Consume

\* The store, with its SQLite table or its array, its queues, its cursors and
\* its restarts, implements the abstract log.
THEOREM StoreImplementsLog ==
    ASSUME SeqAssigned, LogSurvives
    PROVE  Spec => ImplementsEventLog
<1>1. Init => IInv
  BY InitNumbered, InitReaders, StoreAssumption DEF Init, IInv, Bounded
<1>2. Init => Log!Init
  BY DEF Init, Log!Init
<1>3. IInv /\ [Next]_vars => IInv' /\ [Log!Next]_(Log!vars)
  <2>1. ASSUME IInv, [Next]_vars
        PROVE  (Numbered /\ ReadersOK)'
    BY <2>1, NextNumbered, NextReaders DEF IInv
  <2>2. ASSUME IInv, [Next]_vars
        PROVE  IInv' /\ [Log!Next]_(Log!vars)
    BY <2>1, <2>2, StepImplements DEF IInv
  <2>3. QED  BY <2>2
<1>4. QED  BY <1>1, <1>2, <1>3, PTL DEF Spec, ImplementsEventLog, Log!Spec
=============================================================================
