--------------------------- MODULE RuntimeAdapters ---------------------------
(***************************************************************************)
(* A daemon with one of the four runtime adapters.  The adapter does not   *)
(* change during a behaviour; the engine's side is the same for all four.  *)
(* The properties here are those of every adapter.                         *)
(***************************************************************************)
EXTENDS ClaudeAdapter, GeminiAdapter, OpencodeAdapter, CodexAdapter

adapterVars == <<claudeVars, geminiVars, opencodeVars, codexVars>>
vars == <<streamVars, adapterVars>>

Init ==
    /\ StreamInit
    /\ ClaudeInit /\ GeminiInit /\ OpencodeInit
    /\ IF adapter = "codex" THEN CodexInit ELSE CodexInit /\ file = NoFile

\* The engine's reading of a stream.
Consume == \E t \in Tasks : Shift(t) \/ TurnAway(t)

Next ==
    /\ \/ Consume /\ UNCHANGED adapterVars
       \/ /\ adapter = "claude"
          /\ ClaudeNext
          /\ UNCHANGED <<geminiVars, opencodeVars, codexVars>>
       \/ /\ adapter = "gemini"
          /\ GeminiNext
          /\ UNCHANGED <<claudeVars, opencodeVars, codexVars>>
       \/ /\ adapter = "opencode"
          /\ OpencodeNext
          /\ UNCHANGED <<claudeVars, geminiVars, codexVars>>
       \/ /\ adapter = "codex"
          /\ CodexNext
          /\ UNCHANGED <<claudeVars, geminiVars, opencodeVars>>

Spec == Init /\ [][Next]_vars

\* What needs nobody outside the daemon, except that an aborted stream ends
\* and that session.abort returns.
Proceeds(t) ==
    /\ \/ /\ adapter = "claude" /\ ClaudeProceeds(t)
          /\ UNCHANGED <<geminiVars, opencodeVars, codexVars>>
       \/ /\ adapter = "gemini" /\ GeminiProceeds(t)
          /\ UNCHANGED <<claudeVars, opencodeVars, codexVars>>
       \/ /\ adapter = "opencode" /\ OpencodeProceeds(t)
          /\ UNCHANGED <<claudeVars, geminiVars, codexVars>>
       \/ /\ adapter = "codex" /\ CodexProceeds(t)
          /\ UNCHANGED <<claudeVars, geminiVars, opencodeVars>>

Reads(t) == Shift(t) /\ UNCHANGED adapterVars

\* The engine's for-await keeps reading, and a loop that can go on does.
FairSpec == Spec /\ \A t \in Tasks : WF_vars(Reads(t)) /\ WF_vars(Proceeds(t))

-----------------------------------------------------------------------------

CallTypes == {"tool.call.requested", "tool.call.approved", "tool.call.started",
              "tool.call.completed"}
EventTypes ==
    {"model.input", "model.output.delta", "model.output.completed", "usage.reported",
     "task.failed", "task.stopped"} \cup CallTypes

Events == [type : EventTypes, id : Calls \cup {0}, n : Nat]
Answers == [id : Calls, n : Nat, verdict : {"result", "denied"}]

TypeOK ==
    /\ adapter \in Adapters
    /\ sessionOf \in [Tasks -> Sessions]
    /\ loop \in [Tasks -> {"new", "starting", "joining", "auth", "init", "adding",
                           "connecting", "capturing", "subscribing", "configuring",
                           "reading", "writing", "truncated", "running", "streaming",
                           "tools", "ended", "rejected"}]
    /\ queue \in [Tasks -> Seq(Events)]
    /\ got \in [Tasks -> Seq(Events)]
    /\ closed \in [Tasks -> BOOLEAN]
    /\ done \in [Tasks -> BOOLEAN]
    /\ answered \in [Tasks -> SUBSET Answers]
    /\ stopped \in [Tasks -> BOOLEAN]
    /\ attempts \in [Calls -> 0 .. MaxAttempts]
    /\ handler \in [Tasks -> [Calls -> [task : Tasks \cup {0},
                                       verdict : {"none", "waiting", "result", "denied"}]]]
    /\ procEnv \in Sessions \cup {Base}
    /\ clients \subseteq Sessions
    /\ creating \in [Sessions -> {"no", "auth", "init"}]
    /\ pending \in [Tasks -> SUBSET Answers]
    /\ mcp \in {"absent", "added", "connected", "refused"}
    /\ toolState \in [Tasks -> [Calls -> {"none", "requested", "running", "completed"}]]
    /\ items \in [Tasks -> [Calls -> {"none", "started", "completed"}]]

\* Every adapter's handle is a runtime stream.
Stream == INSTANCE RuntimeStream WITH
              log <- [t \in Tasks |-> Sent(t)],
              read <- [t \in Tasks |-> Len(got[t])],
              ended <- done

ImplementsRuntimeStream == Stream!StreamSpec

\* How far a call is when an event about it comes.
Rank(type) ==
    CASE type = "tool.call.requested" -> 1
      [] type = "tool.call.approved" -> 2
      [] type = "tool.call.started" -> 3
      [] type = "tool.call.completed" -> 4

\* In stream s, an attempt is requested once, before anything else about it;
\* what is started was requested (and, by OpenCode, approved), at most once;
\* what was approved is started before it is completed; and nothing follows
\* its completion.
CallsLive(s) ==
    \A i \in 1 .. Len(s) : s[i].type \in CallTypes =>
        LET Earlier(type) == \E j \in 1 .. i - 1 : s[j] = Event(type, s[i].id, s[i].n)
        IN  /\ s[i].type # "tool.call.requested" => Earlier("tool.call.requested")
            /\ \A type \in CallTypes : Earlier(type) => Rank(type) < Rank(s[i].type)
            /\ s[i].type = "tool.call.completed" /\ Earlier("tool.call.approved") =>
                 Earlier("tool.call.started")

\* Every tool call of every stream lives like that.
ToolLifecycle == \A t \in Tasks : CallsLive(Sent(t))

\* The adapters that run or feed tools by attempt never use an attempt of a
\* call id twice, in one task or in two, whatever the runtime repeats.
AttemptsUnique ==
    adapter \in {"gemini", "opencode"} =>
        \A t, u \in Tasks :
            \A i \in 1 .. Len(Sent(t)), j \in 1 .. Len(Sent(u)) :
                (/\ Sent(t)[i].type = "tool.call.requested"
                 /\ Sent(t)[i] = Sent(u)[j]) => t = u /\ i = j

\* A failure is the last thing a stream says (Codex reports several).
FailureEndsStream ==
    adapter # "codex" =>
        \A t \in Tasks : \A i \in 1 .. Len(Sent(t)) :
            Sent(t)[i].type \in Terminal => i = Len(Sent(t))

\* A stopped task's stream ends for the engine, whatever the runtime is
\* doing, and so does the adapter's loop, even when it waits for the answer to
\* a tool call; only OpenCode's loop may wait for one more server event.
StopEnds ==
    \A t \in Stoppable :
        stopped[t] ~> done[t] /\ (adapter = "opencode" \/ loop[t] = "ended")

\* The tool calls that an adapter reports: each attempt lives once, and an
\* attempt is never used again.
ToolAttempts == ToolLifecycle /\ AttemptsUnique

\* What an adapter reports of the model: nothing after a failure, no output
\* that is only streamed, no usage counted twice.
StreamReports == FailureEndsStream /\ ClaudeOutput /\ UsageCountsOnce

\* The engine's answer to a tool call reaches the call it was made for.
AnswersReachCalls == ClaudeAnswers /\ GeminiTurns

\* What can be relied on of what tasks share outside their sessions: the
\* process environment, the server's MCP table, the user's config file.
SharedStateKept == EnvScoped /\ McpReady /\ ConfigKept
=============================================================================
