---------------------------- MODULE CodexAdapter ----------------------------
(***************************************************************************)
(* src/src/adapters/codex-sdk.ts.  Codex runs the tools itself and streams *)
(* items of a thread.  Before a task with tools, the adapter writes the    *)
(* codesdk section into CODEX_HOME/config.toml, which belongs to the user. *)
(***************************************************************************)
EXTENDS AdapterStream

CONSTANT Nobody   \* stands for "no task's section"

ASSUME CodexAssumption == Nobody \notin Tasks

VARIABLES
    file,     \* config.toml: exists, parts of the user's lines, codesdk section
    original, \* the lines the user wrote
    draft,    \* what ensureCodexMcpServerConfigured is about to write
    items,    \* items[t]: the tool items seen (toolIdentities), and their state
    torn,     \* config.toml was read or opened while another write was under way
    rewritten \* the tasks whose section another write met before their thread ran

codexVars == <<file, original, draft, items, torn, rewritten>>
configVars == <<file, original, draft, torn, rewritten>>

\* The user's lines around the section, and whose section it is.
UserParts == {"before", "after"}
NoFile == [exists |-> FALSE, user |-> {}, section |-> Nobody]
Truncated == [exists |-> TRUE, user |-> {}, section |-> Nobody]

CodexInit ==
    /\ file \in {NoFile, [exists |-> TRUE, user |-> UserParts, section |-> Nobody]}
    /\ original = file.user
    /\ draft = [t \in Tasks |-> NoFile]
    /\ items = [t \in Tasks |-> [c \in Calls |-> "none"]]
    /\ torn = FALSE
    /\ rewritten = {}

\* Another task's write is under way.
BeingWritten(t) == \E u \in Tasks \ {t} : loop[u] = "truncated"

\* Task t has written its section, and its thread is about to be run.
Configured(t) == loop[t] \in {"starting", "running"} /\ draft[t].exists

-----------------------------------------------------------------------------
(* startTask *)

\* Up to the first await: the mkdir of ensureCodexMcpServerConfigured, or,
\* without tools, the implicit sources.
CodexStart(t) ==
    /\ MayStart(t)
    /\ Goto(t, "configuring") \/ Goto(t, "starting")
    /\ UNCHANGED <<callerVars, queueVars, attempts, codexVars>>

\* existsSync: a file that is not there is written without being read.
CodexExists(t) ==
    /\ loop[t] = "configuring"
    /\ IF file.exists
       THEN /\ Goto(t, "reading")
            /\ UNCHANGED draft
       ELSE /\ Goto(t, "writing")
            /\ draft' = [draft EXCEPT
                           ![t] = [exists |-> TRUE, user |-> {}, section |-> t]]
    /\ UNCHANGED <<callerVars, queueVars, attempts, file, original, items, torn, rewritten>>

\* Fault: the old section is taken to reach to the end of the file.
WithSection_ToTheEnd(t) ==
    [exists |-> TRUE, section |-> t,
     user |-> IF file.section = Nobody THEN file.user ELSE file.user \ {"after"}]

\* The section in place of the old one, up to the next table header, or at
\* the end; the user's lines are kept.
WithSection(t) == [exists |-> TRUE, user |-> file.user, section |-> t]

\* readFile has returned.
CodexRead(t) ==
    /\ loop[t] = "reading"
    /\ draft' = [draft EXCEPT ![t] = WithSection(t)]
    /\ torn' = (torn \/ BeingWritten(t))
    /\ Goto(t, "writing")
    /\ UNCHANGED <<callerVars, queueVars, attempts, file, original, items, rewritten>>

\* writeFile opens the file, which truncates it ...
CodexTruncate(t) ==
    /\ loop[t] = "writing"
    /\ file' = Truncated
    /\ torn' = (torn \/ BeingWritten(t))
    /\ rewritten' = rewritten \cup {u \in Tasks : Configured(u)}
    /\ Goto(t, "truncated")
    /\ UNCHANGED <<callerVars, queueVars, attempts, original, draft, items>>

\* ... and has written it.
CodexWrite(t) ==
    /\ loop[t] = "truncated"
    /\ file' = draft[t]
    /\ rewritten' = rewritten \cup {u \in Tasks : Configured(u)}
    /\ Goto(t, "starting")
    /\ UNCHANGED <<callerVars, queueVars, attempts, original, draft, items, torn>>

\* mkdir, readFile or writeFile rejects, or what follows up to the thread
\* throws, and so does startTask.  A writeFile that fails once it has
\* truncated the file is left out.
CodexReject(t) ==
    /\ loop[t] \in {"configuring", "reading", "writing", "starting"}
    /\ Goto(t, "rejected")
    /\ UNCHANGED <<callerVars, queueVars, attempts, codexVars>>

\* The implicit sources are there: model.input, and the thread is run.
CodexInput(t) ==
    /\ loop[t] = "starting"
    /\ Push(t, <<Plain("model.input")>>)
    /\ Goto(t, "running")
    /\ UNCHANGED <<callerVars, attempts, codexVars>>

\* runStreamed returns its stream; or it fails, and the handle that is still
\* returned has a closed queue.
CodexOpen(t) ==
    /\ loop[t] = "running"
    /\ \/ /\ Goto(t, "streaming")
          /\ UNCHANGED queueVars
       \/ /\ Goto(t, "ended")
          /\ Finish(t, <<Plain("task.failed")>>)
    /\ UNCHANGED <<callerVars, attempts, codexVars>>

-----------------------------------------------------------------------------
(* handleThreadEvent *)

\* A message item or the usage of a turn (one kind of event stands for all
\* of these), or an error, which does not end the loop.
CodexEvent(t) ==
    /\ MayProduce(t, 1)
    /\ \E type \in {"model.output.delta", "task.failed"} : Push(t, <<Plain(type)>>)
    /\ UNCHANGED <<callerVars, loop, attempts, codexVars>>

\* getOrCreateToolIdentity: the first event of an item.
Opening(t, c) ==
    IF items[t][c] = "none" THEN <<"tool.call.requested", "tool.call.started">>
    ELSE << >>

\* item.started, item.updated or item.completed of a tool item, which Codex
\* completes once.
CodexItem(t) ==
    /\ \E c \in Calls, finished \in BOOLEAN :
         LET types == Opening(t, c) \o IF finished THEN <<"tool.call.completed">> ELSE << >>
         IN  /\ MayProduce(t, Len(types))
             /\ items[t][c] # "completed"
             /\ items' = [items EXCEPT ![t][c] = IF finished THEN "completed" ELSE "started"]
             /\ Push(t, [i \in 1 .. Len(types) |-> Event(types[i], c, 1)])
    /\ UNCHANGED <<callerVars, loop, attempts, configVars>>

\* The thread's stream ends.
CodexEnd(t) ==
    /\ loop[t] = "streaming"
    /\ Goto(t, "ended")
    /\ Close(t)
    /\ UNCHANGED <<callerVars, attempts, codexVars>>

\* The thread's stream throws.
CodexThrow(t) ==
    /\ loop[t] = "streaming"
    /\ Goto(t, "ended")
    /\ Finish(t, <<Plain("task.failed")>>)
    /\ UNCHANGED <<callerVars, attempts, codexVars>>

\* stop(): abort and close.
CodexStop(t) ==
    /\ MayStop(t)
    /\ stopped' = [stopped EXCEPT ![t] = TRUE]
    /\ Close(t)
    /\ UNCHANGED <<adapter, sessionOf, answered, loop, attempts, codexVars>>

CodexProceeds(t) == stopped[t] /\ (CodexEnd(t) \/ CodexThrow(t))

CodexNext ==
    \E t \in Tasks :
        \/ CodexStart(t) \/ CodexExists(t) \/ CodexRead(t) \/ CodexTruncate(t)
        \/ CodexWrite(t) \/ CodexReject(t) \/ CodexInput(t) \/ CodexOpen(t)
        \/ CodexEvent(t) \/ CodexItem(t) \/ CodexEnd(t) \/ CodexThrow(t)
        \/ CodexStop(t)

-----------------------------------------------------------------------------

\* What the adapter does give of config.toml, however many tasks configure it
\* and however their reads and writes meet.  The user's own lines survive,
\* except while a write is under way, unless a task has read or opened the
\* file during another's write.  When a task's thread is about to be run, the
\* file has a section: this task's own, if no other task has opened or written
\* the file since; another's, or none while that one writes, if it has.
ConfigKept ==
    /\ ~torn => file.user = original \/ \E t \in Tasks : loop[t] = "truncated"
    /\ \A t \in Tasks : Configured(t) =>
         /\ t \notin rewritten => file.section = t
         /\ file.section # Nobody \/ BeingWritten(t)
=============================================================================
