---------------------------- MODULE SessionRecords ----------------------------
(***************************************************************************)
(* What is derived from a session's event log: the transcript              *)
(* (src/src/core/transcript.ts), the runtime input that fits a budget      *)
(* (core/context-compiler.ts), and the support bundle's export of the      *)
(* events and its tool transcript (support/bundle.ts).  The export reads   *)
(* the log page by page, by seq.  It has no await: only another process,   *)
(* with the same SQLite file, can append between two pages.                *)
(***************************************************************************)
EXTENDS Integers, Sequences, SequencesExt, FiniteSets

CONSTANTS
    ToolCalls,  \* tool_call_ids of the session
    TextSizes,  \* lengths of a text
    Budgets,    \* values of maxChars (0: none)
    PageLimit,  \* the 500 of collectEvents
    MaxLog,     \* bound on the log
    MaxExport   \* bound on an export that does not end

ASSUME RecordsAssumption ==
    /\ TextSizes \subseteq Nat /\ Budgets \subseteq Nat
    /\ PageLimit \in Nat \ {0} /\ MaxLog \in Nat
    /\ MaxExport \in Nat

VARIABLES
    store,     \* "sqlite" (the daemon's), "memory" (the default of a library user)
    numbers,   \* the runtime gives its events a seq, as the four adapters do
    log,       \* the session's events, as append stored them
    ownSeq,    \* the seq that the running task's runtime gave last
    open,      \* what the running task has logged of its call of each id
    cursor,    \* afterSeq of collectEvents
    exported,  \* events of collectEvents
    exporting, \* "no", "yes", "done"
    atStart    \* how long the log was when the export began

logVars == <<log, ownSeq, open>>
exportVars == <<cursor, exported, exporting, atStart>>
recordVars == <<store, numbers, logVars, exportVars>>

NoneOpen == [c \in ToolCalls |-> "no"]

RecordsInit ==
    /\ store \in {"sqlite", "memory"}
    /\ numbers \in BOOLEAN
    /\ log = << >>
    /\ ownSeq = 0
    /\ open = NoneOpen
    /\ cursor = 0
    /\ exported = << >>
    /\ exporting = "no"
    /\ atStart = 0

-----------------------------------------------------------------------------
(* append *)

Seqs == {log[i].seq : i \in 1 .. Len(log)}

\* MAX(seq) of the session's rows, or the seq of the last event of the array.
LastSeq == IF store = "sqlite" THEN Max(Seqs \cup {0})
           ELSE IF log = << >> THEN 0 ELSE Last(log).seq

\* The events of one type about the id c.
About(events, type, c) ==
    {i \in 1 .. Len(events) : events[i].type = type /\ events[i].id = c}

\* The last of some positions, 0 if there are none.
Latest(at) == IF at = {} THEN 0 ELSE Max(at)

\* The request of the call that the id c was used for last.  An event of a call
\* carries the position of its request: it stands for the task, the attempt
\* and the input hash in the event, which nothing below looks at.
LastCall(c) == Latest(About(log, "tool.call.requested", c))

\* Who appends events of a type: a tool is run by the engine or by the runtime.
Sources(type) ==
    IF type \in {"model.output.completed", "tool.call.requested"} THEN {"runtime"}
    ELSE IF type = "tool.call.denied" THEN {"engine"}
    ELSE {"engine", "runtime"}

\* event.seq ?? last + 1; the primary key of SQLite refuses a seq in use.
Put(type, c, call, size) ==
    \E source \in Sources(type) :
        LET own == numbers /\ source = "runtime"
            seq == IF own THEN ownSeq + 1 ELSE LastSeq + 1
        IN  /\ store = "sqlite" => seq \notin Seqs
            /\ ownSeq' = IF own THEN seq ELSE ownSeq
            /\ log' = Append(log, [type |-> type, id |-> c, call |-> call,
                                   size |-> size, seq |-> seq])

\* Nobody appends in the middle of an export in the same process.
MayAppend == exporting = "yes" => store = "sqlite"

\* An output of the model.  (The other text that deriveTranscript reads, the
\* seed messages of task.started, is in a log only if a user of the library
\* puts it there: nothing in src/ appends that event.)
AppendText ==
    /\ \E size \in TextSizes : Put("model.output.completed", 0, 0, size)
    /\ UNCHANGED open

\* The running task asks for a tool, under an id that it is not using: a new
\* one, one whose call is over, or one of an earlier task (Claude's mcp:1).
AppendRequest(c) ==
    /\ open[c] = "no"
    /\ Put("tool.call.requested", c, Len(log) + 1, 1)
    /\ open' = [open EXCEPT ![c] = "asked"]

\* The next event of a call (CallLifecycle of ExecutorEngineProps).
AppendOutcome(c) ==
    \/ /\ open[c] = "asked"
       /\ Put("tool.output.completed", c, LastCall(c), 1)
       /\ open' = [open EXCEPT ![c] = "output"]
    \/ /\ open[c] = "asked"
       /\ Put("tool.call.denied", c, LastCall(c), 1)
       /\ open' = [open EXCEPT ![c] = "no"]
    \/ /\ open[c] # "no"
       /\ Put("tool.call.completed", c, LastCall(c), 1)
       /\ open' = [open EXCEPT ![c] = "no"]

AppendEvent ==
    /\ MayAppend
    /\ Len(log) < MaxLog
    /\ AppendText \/ \E c \in ToolCalls : AppendRequest(c) \/ AppendOutcome(c)
    /\ UNCHANGED <<store, numbers, exportVars>>

\* The next task of the session: its runtime counts from 1 again, and no event
\* of a call of the task before comes any more (NoToolOutlivesTask).
NextTask ==
    /\ MayAppend
    /\ ownSeq # 0 \/ open # NoneOpen
    /\ ownSeq' = 0
    /\ open' = NoneOpen
    /\ UNCHANGED <<store, numbers, log, exportVars>>

-----------------------------------------------------------------------------
(* Sorting by seq: Array.prototype.sort is stable, ORDER BY has no ties. *)

Place(events, i) ==
    Cardinality({j \in 1 .. Len(events) :
                   \/ events[j].seq < events[i].seq
                   \/ events[j].seq = events[i].seq /\ j <= i})
BySeq(events) ==
    [n \in 1 .. Len(events) |->
        events[CHOOSE i \in 1 .. Len(events) : Place(events, i) = n]]

-----------------------------------------------------------------------------
(* collectEvents *)

StartExport ==
    /\ exporting = "no"
    /\ exporting' = "yes"
    /\ atStart' = Len(log)
    /\ UNCHANGED <<store, numbers, logVars, cursor, exported>>

\* store.list(sessionId, { afterSeq, limit }): rows ORDER BY seq, or the array
\* from the first event with a greater seq.
List(after) ==
    LET rows == IF store = "sqlite" THEN BySeq(log) ELSE log
        later == {i \in 1 .. Len(rows) : rows[i].seq > after}
        ends == {Len(rows), Min(later) + PageLimit - 1}
    IN  IF later = {} THEN << >> ELSE SubSeq(rows, Min(later), Min(ends))

\* Fault: the next page begins after the first event of this one.
NextCursor_First(batch) == batch[1].seq

\* The seq of the last event of the page.
NextCursor(batch) == Last(batch).seq

\* The next page, until one is empty.
ExportPage ==
    /\ exporting = "yes"
    /\ Len(exported) < MaxExport \/ List(cursor) = << >>
    /\ LET batch == List(cursor)
       IN  IF batch = << >>
           THEN exporting' = "done" /\ UNCHANGED <<exported, cursor>>
           ELSE /\ exported' = exported \o batch
                /\ cursor' = NextCursor(batch)
                /\ UNCHANGED exporting
    /\ UNCHANGED <<store, numbers, logVars, atStart>>

RecordsNext == AppendEvent \/ NextTask \/ StartExport \/ ExportPage

-----------------------------------------------------------------------------
(* deriveTranscript *)

Message(role, e) == [role |-> role, id |-> e.id, call |-> e.call, size |-> e.size]

\* Fault: a denied call leaves no message.
MessageOf_NoDenied(e) ==
    IF e.type = "task.started" THEN <<Message("user", e)>>
    ELSE IF e.type = "model.output.completed" THEN <<Message("assistant", e)>>
    ELSE IF e.type = "tool.call.requested" THEN <<Message("tool_use", e)>>
    ELSE IF e.type = "tool.call.completed" THEN <<Message("tool_result", e)>>
    ELSE << >>

\* The messages that an event adds.
MessageOf(e) ==
    IF e.type = "task.started" THEN <<Message("user", e)>>
    ELSE IF e.type = "model.output.completed" THEN <<Message("assistant", e)>>
    ELSE IF e.type = "tool.call.requested" THEN <<Message("tool_use", e)>>
    ELSE IF e.type \in {"tool.call.completed", "tool.call.denied"}
    THEN <<Message("tool_result", e)>>
    ELSE << >>

\* deriveTranscript: the messages of the events, sorted by seq.
Transcript(events) ==
    FlattenSeq([n \in 1 .. Len(events) |-> MessageOf(BySeq(events)[n])])

-----------------------------------------------------------------------------
(* compileRuntimeInput *)

\* The messages' sizes from the i-th to the last, summed.
SizeFrom(ms, i) ==
    LET last[n \in 0 .. Len(ms)] ==   \* the last n
            IF n = 0 THEN 0 ELSE last[n - 1] + ms[Len(ms) - n + 1].size
    IN  last[Len(ms) - i + 1]

\* Fault: what is kept begins with the message that was to be dropped.
Kept_OneMore(ms, max) ==
    LET fits == {i \in 1 .. Len(ms) : SizeFrom(ms, i + 1) <= max}
        first == CHOOSE i \in fits : \A j \in fits : i <= j
    IN  first .. Len(ms)

\* The indices kept: after the first i whose remaining messages fit.
Kept(ms, max) ==
    LET fits == {i \in 1 .. Len(ms) : SizeFrom(ms, i + 1) <= max}
        first == CHOOSE i \in fits : \A j \in fits : i <= j
    IN  first + 1 .. Len(ms)

\* The messages, by index, that the runtime gets, and what is said of them.
Compile(ms, max) ==
    LET all == 1 .. Len(ms)
    IN  IF max = 0 \/ SizeFrom(ms, 1) <= max
        THEN [kept |-> all, omitted |-> {}, overflow |-> FALSE]
        ELSE IF Kept(ms, max) = {}
        THEN [kept |-> {Len(ms)}, omitted |-> all \ {Len(ms)}, overflow |-> TRUE]
        ELSE [kept |-> Kept(ms, max), omitted |-> all \ Kept(ms, max), overflow |-> FALSE]

-----------------------------------------------------------------------------
(* buildToolTranscript: a Map by call id, in the order of first insertion *)

\* Fault: a request under a known id keeps what the entry has.
Entry_Merged(events, c) ==
    [id |-> c,
     asked |-> Latest(About(events, "tool.call.requested", c)),
     result |-> Latest(About(events, "tool.call.completed", c)),
     stdout |-> Latest(About(events, "tool.output.completed", c))]

\* The entry under c, by the events that its fields are from (0: undefined).
\* A request replaces the entry; an output and a completion fill it in.
Entry(events, c) ==
    LET asked == Latest(About(events, "tool.call.requested", c))
        Since(type) == Latest({i \in About(events, type, c) : i > asked})
    IN  [id |-> c,
         asked |-> asked,
         result |-> Since("tool.call.completed"),
         stdout |-> Since("tool.output.completed")]

\* The Map's entries, each at the position of the event that inserts it.
ToolTranscript(events) ==
    LET shown == {i \in 1 .. Len(events) : events[i].type \in
                    {"tool.call.requested", "tool.call.completed", "tool.output.completed"}}
        inserts == {i \in shown : \A j \in shown : events[j].id = events[i].id => i <= j}
    IN  [i \in inserts |-> Entry(events, events[i].id)]

-----------------------------------------------------------------------------

\* The log is in order and without a gap: in SQLite, whoever numbers the
\* events, and in memory if append does.  (An adapter that counts from 1 in
\* each task breaks it in memory: its seq is kept, event-store.ts:35.)
Ordered == store = "sqlite" \/ ~numbers
Numbered == \A i \in 1 .. Len(log) : log[i].seq = i

\* The export is the log as it was at some moment since it began: nothing is
\* missing, repeated or out of order, however the pages fall and whatever
\* another process appends meanwhile.
ExportExact ==
    Ordered => /\ Numbered
               /\ IsPrefix(exported, log)
               /\ exporting = "done" => Len(exported) >= atStart

\* In the transcript the last tool_use of an id before a tool_result is that
\* of the call it is the result of, no call has two results, and each call
\* that was completed or denied has one.
TranscriptPairs ==
    Ordered =>
        LET ms == Transcript(log)
            At(role, c) == {i \in 1 .. Len(ms) : ms[i].role = role /\ ms[i].id = c}
        IN  \A c \in ToolCalls :
              /\ \A i \in At("tool_result", c) :
                   \E j \in At("tool_use", c) :
                       /\ j < i /\ ms[j].call = ms[i].call
                       /\ \A k \in At("tool_use", c) \cup At("tool_result", c) : ~(j < k /\ k < i)
              /\ Cardinality(At("tool_result", c)) =
                   Cardinality(About(log, "tool.call.completed", c)
                                 \cup About(log, "tool.call.denied", c))

\* compileRuntimeInput keeps the newest messages, reports exactly the others
\* as omitted, keeps no message less than the budget allows, exceeds it only
\* for a last message that is larger than the budget, and says so then.
CompileExact ==
    \A max \in Budgets :
        LET ms == Transcript(log)
            c == Compile(ms, max)
            from == Len(ms) - Cardinality(c.kept) + 1
        IN  /\ c.kept = from .. Len(ms)
            /\ c.omitted = 1 .. from - 1
            /\ ms # << >> => c.kept # {}
            /\ max # 0 => /\ c.overflow <=> SizeFrom(ms, from) > max
                          /\ c.overflow => from = Len(ms)
                          /\ from > 1 => SizeFrom(ms, from - 1) > max
            /\ max = 0 => from = 1

\* The bundle's tool transcript has an entry for each id that was asked for, in
\* the order of the first requests.  It shows the last call under that id (an
\* earlier one, of another task or attempt, is not in it any more), and it has
\* a result, and an output, exactly if that very call has, and then that one.
ToolTranscriptExact ==
    Ordered =>
        LET entries == ToolTranscript(exported)
            requests == {i \in 1 .. Len(exported) : exported[i].type = "tool.call.requested"}
            SameCall(i, j) == exported[i].call = exported[j].call
        IN  /\ DOMAIN entries =
                 {i \in requests : \A j \in requests : exported[j].id = exported[i].id => i <= j}
            /\ \A i \in DOMAIN entries :
                 LET e == entries[i]
                 IN  /\ e.asked \in requests
                     /\ exported[e.asked].id = exported[i].id
                     /\ \A j \in requests : exported[j].id = exported[i].id => j <= e.asked
                     /\ \A k \in 1 .. Len(exported) :
                          /\ k = e.result <=>
                               exported[k].type = "tool.call.completed" /\ SameCall(k, e.asked)
                          /\ k = e.stdout <=>
                               exported[k].type = "tool.output.completed" /\ SameCall(k, e.asked)

\* The support bundle: the events as they were, and the tool transcript made
\* of them.
BundleExact == ExportExact /\ ToolTranscriptExact

\* The input of the next task: a transcript whose calls have their results,
\* cut to the budget from the front.
InputExact == TranscriptPairs /\ CompileExact
=============================================================================
