# CodeSDK in TLA+

CodeSDK (`src/`) runs coding agents (Claude Agent SDK, Codex SDK, Gemini CLI,
OpenCode) behind one event contract: an executor engine moves each runtime's
stream into an append-only event log, decides and executes tool calls, and an
HTTP daemon offers sessions, tasks, approvals and the log to clients.  These
modules model the parts of it where steps interleave or fail, check them with
TLC on small instances, and prove the main results with TLAPS for every
instance.  Paths below are relative to `src/`; the implementation is in
`src/src/`, written `src/...` here.

## 1. Inventory

| Component | State | Operations | Correct when |
|---|---|---|---|
| **Event store** `src/executor/event-store.ts` | events per session; subscribers' AsyncQueues | `append`, `list` (afterSeq, limit), `subscribe` + `next`/`return` | seq grows; every reader gets the log exactly once, in order; no lost wakeup; persisted before emitted |
| **Executor engine** `src/executor/engine.ts`, `tool-executor.ts` | `sessionLocks`, `pendingToolCalls`, terminal statuses, gauges; per task `control`, `terminalEmitted`, the `toolProcessing` chain | `startTask`, `stop`, `approveToolCall`, `denyToolCall`; internally `runTask`, `handleToolCall`, `emitTerminal`, `finalizeTask` | one task of a session at a time, in order; no tool without permission or after `stop`; approvals match waiters; one terminal event; nobody waits for ever |
| **Permission policy** `src/executor/policy.ts` | none | `decide` | deny rules before allow rules; "ask" never where nobody can answer |
| **Daemon** `src/daemon/server.ts`, `cli.ts` | maps of sessions and task handles, in-flight and SSE counters, rate-limit windows | HTTP endpoints, `streamEvents` | counters and handles match what is going on; slots come back; one task's failure stays its own |
| **JSON-RPC client** `src/runtime/json-rpc.ts` | pending calls by id, line buffer | `request`, `notify`, `close` | every call is answered once; none waits for a dead process |
| **Runtime environment** `src/runtime/index.ts`, `src/runtime-env/index.ts`, `src/auth/index.ts` | none | types; environment and credential lookup | the isolation level decides which directories are shared |
| **Claude adapter** `src/adapters/claude-agent-sdk.ts` | per task: AsyncQueue, `pendingToolCalls`, output buffer; SDK sessions | `startTask`, MCP tool handlers, `sendToolResult`, `sendToolDenied`, `stop` | an answer reaches the handler that asked; streamed output is completed |
| **Codex adapter** `src/adapters/codex-sdk.ts` | `config.toml`, seq counter, tool identities, threads | `startTask`, MCP injection, thread events, `stop` | the user's own configuration survives; an item's events are in order |
| **Gemini adapter** `src/adapters/gemini-cli-core.ts` | `process.env`, cached sessions, pending calls of a turn, attempt counters | `createSession`, `startTask`, the loop over turns, answers, `stop` | a task runs in its own environment; every call of a turn is answered in the next request |
| **OpenCode adapter** `src/adapters/opencode-server.ts` | the server's MCP entry, tool parts by id and status, counted messages, attempt counters | `startTask`, server events, `stop` | each use of a tool is one attempt; usage counted once; the tools are there before the prompt |
| **Tools** `src/tools/*` | the registry's map, a child process, its timer and pipe | `register`, `execute`, Docker runs with a timeout | a run settles once, not with a late result; no process is left behind; a path stays in the workspace |
| **MCP server** `src/mcp/*` | none | `callTool`: policy, its events, schemas, execution | only registered, allowed tools run, after the policy events |
| **Context compiler, transcript** `src/core/context-compiler.ts`, `transcript.ts`, `src/executor/model-input.ts` | none | compile a message list into a budget of characters; rebuild a transcript from events | newest messages kept, omissions recorded, calls and results paired |
| **Canonical form, hashes, upcasting** `src/core/*` | none | pure functions | equal inputs hash equally |
| **Artifact stores** `src/executor/artifact-store*.ts` | files, or a map | `put`, `get` | `get` returns whole data or nothing; what the log refers to can be read |
| **Task state** `src/executor/task-state.ts` | none | types and `isTerminalTaskState` | nothing uses it |
| **Support bundle** `src/support/bundle.ts` | temporary files | page the log, redact, pack | each event once; no secret |
| **Observability**, **replayer, viewer** | counters, text | record, print | — |

How they interact: the daemon calls `engine.startTask` and keeps its handle;
the engine calls the runtime (`startTask`, the stream, `sendToolResult`,
`stop`), the policy, the tool executor and `eventStore.append`; `append`
pushes to the queue of each subscription, which `streamEvents` of the daemon
drains into a response; users approve or deny through the daemon, which
resolves the promise that a tool handler awaits.  An adapter's `startTask`
returns a handle whose `events()` drains an AsyncQueue that a background loop
over the SDK's stream fills; what adapters share between tasks is outside that
queue (`process.env`, `config.toml`, the OpenCode server, attempt counters).
Everything runs in one Node
process: code between two `await`s is atomic, and any other handler may run
at an `await`.

What is hard: the task queue is a chain of promises kept in a map and removed
by `.finally`; the stream loop, the tool chain and `stop()` of one task
interleave; an await that never resolves holds a session; a rejection travels
through `.then` chains to whoever listens, or to nobody; subscribing must join
a stored snapshot to live pushes; counters change on both sides of an await.
Each such place is listed as a hazard, at its line, in `PROJECT.json`.

## 2. Modules

| Module | Models | State and actions |
|---|---|---|
| `EventLog` | abstract: what a session's log promises its readers | `Publish`, `Read` |
| `EventStore` | one session's log in both stores, with the daemon's SSE and paging readers | `events`, `queue`, `conn`, ...; `EngineAppend`, `AdapterAppend` (= `append`), `Subscribe`, `Poll` (= `list` with limit), `Shift`/`Park`/`Deliver` (the consumer's `next()` and write), `Disconnect`, `Restart` |
| `EventStoreProofs` | theorems about it | |
| `SessionQueue` | abstract: what `startTask` promises its callers | `Enqueue`, `Begin`, `Skip`, `Finish` |
| `ExecutorEngine` | the class `ExecutorEngine` | `StartTask`/`RunTask`/`SkipTask`/`Settle` (the lock), `RuntimeStarted` ... `Drained`, `DrainRejected` (`runTask`, one action per continuation), `BeginToolCall` ... `ToolCallDone` (`handleToolCall`), `Approve`, `Deny`, `Stop`, `StopReturned`, `StopFailed` |
| `ExecutorEngineProps` | its properties, and its refinement of `SessionQueue` | |
| `ExecutorEngineProofs`, `SessionQueueProofs` | theorems about it: its types, lock, approvals and `stop`; its refinement | |
| `ToolCallProofs`, `TaskEndProofs` | theorems about the events of a tool call; about the gauges and the terminal event | |
| `Daemon` | sessions and their listing, task admission, handles, SSE slots and loops, on top of `SessionQueue` | `CreateSession`, `ListPage`, `Admit`/`BadBody`/`Accept` (POST tasks before and after reading the body), `EngineStep`, `Completed` (the `finally` callback), `OpenStream`, `PeerLeaves`, `Drain`, `Congested`, `EndOfQueue` |
| `DaemonProofs` | theorems about it | |
| `RuntimeStream` | abstract: what `events()` of a task handle promises the engine | `Emit`, `Read`, `End` |
| `AdapterStream` | what the four adapters share, and the engine as their caller | the AsyncQueue (`Push`, `Close`, `Shift`), `TurnAway`, `Answer`, `MayStart` |
| `ClaudeAdapter` | `claude-agent-sdk.ts` | `ClaudeStart`/`ClaudeOpen`/`ClaudeReject` (`startTask` before and after its await), `ClaudeMessage` (`handleMessage`), `ClaudeToolCall` (an MCP handler), `ClaudeAnswer`, `ClaudeEnd`, `ClaudeThrow`, `ClaudeStop` |
| `GeminiAdapter` | `gemini-cli-core.ts` | `GeminiCreate*` (`createSession`), `GeminiStart` ... `GeminiOpen`, `GeminiReject` (`startTask` and `ensureSession`), `GeminiText`, `GeminiToolCall`, `GeminiTurnDone`, `GeminiNextTurn`, `GeminiAnswer`, `GeminiStop`; `Apply`/`Restore` are `applyProcessEnv` and what it returns |
| `OpencodeAdapter` | `opencode-server.ts` | `OpencodeStart`, `OpencodeMcp*` (the three requests that configure the server), `OpencodeCapture`, `OpencodeOpen`, `OpencodeText`, `OpencodeToolPart`, `OpencodeMessage`, `OpencodeStop`/`OpencodeAborted` (`stop` before and after its await) |
| `CodexAdapter` | `codex-sdk.ts` | `CodexExists` ... `CodexWrite` (`config.toml`, one action per file operation), `CodexReject`, `CodexOpen`, `CodexEvent`, `CodexItem`, `CodexStop` |
| `RuntimeAdapters` | the four, one of them chosen initially, and what holds for all; refines `RuntimeStream` | |
| `RuntimeAdaptersProofs` | theorems about them | |
| `ToolServer` | `mcp/server.ts`, `executor/policy.ts`, the registry, both executors | `Decide` (the policy), `Call` (`callTool` up to its await), `HandlerDone`; docker's `ChildWrites`, `Timer`, `ChildCloses`, `SpawnFails`, `KillFails` |
| `JsonRpc` | `runtime/json-rpc.ts` and the child process | `Request`, `Line`, `ExitEvent`, `CloseClient` |
| `ArtifactFiles` | `artifact-store-file.ts`, with crashes and a reader in another process | `PutStart`, `PutWrites`, `PutBreaks`, `LogRef`, `GetMeta`, `GetData` |
| `RateLimiter` | the daemon's `RateLimiter` | `Check`, `Tick` |
| `SessionRecords` | what is derived from a log: `core/transcript.ts`, `core/context-compiler.ts`, export and tool transcript of `support/bundle.ts` | `AppendEvent` (by engine or runtime, with the seq that each store gives), `NextTask`, `StartExport`, `ExportPage`; operators `List`, `Transcript`, `Compile`, `ToolTranscript` |
| `Parts` | these five; they share no state, a behaviour runs one of them | |
| `PartsProofs` | theorems about them | |
| `MC*` | instances for TLC | |

Composition: `EventStore` has an engine and adapters only as producers, and
the daemon's readers as its clients; `ExecutorEngine` has the log as a
sequence per session, with the order of appends but without seq; `Daemon` has
the engine as the abstract `SessionQueue`, which `ExecutorEngine` is proved to
implement.  An adapter has the engine as a reader that starts the tasks of a
session one after the other, answers what it read and leaves after a terminal
event; `ExecutorEngine` has an adapter as any stream, and `RuntimeStream` says
what a stream is: it begins with its only `model.input`, takes nothing after
it is closed, is read in order without loss, and is over for its reader only
when everything is read or after a terminal event.  Every adapter is proved
to implement it.  `PROJECT.json` maps each definition to the lines it stands for.

What the models leave out.  Payloads, texts, logging and durations; an event
is its type, task and call.  A tool call attempt is an id with an attempt
number that stands for the (attempt, input_hash) pair, so that "same id, other
attempt or other input" is one inequality.  Large results written to the
artifact store are part of `ToolReturned`; the failure of that write is
`ToolCallThrows`.  Session ids are independent in the store, so one session is
modelled there.  A write to an SSE connection that never ends is a disconnect
in `EventStore` and has its own states in `Daemon`.  `Restart` in `EventStore`
is the store's promise: a process that opens the file again and readers that
resume by their last seq.  The daemon's map of sessions does not survive its
process, so over HTTP a session must exist again before its log can be read.
In `ExecutorEngine` each task id is started once, `stop()` is called once per
task, and an adapter requests an attempt once; those are what the daemon and
the adapters do, except for a client that repeats a task id, which `Daemon` has.

In the adapter modules a parked `shift()` is a `Shift` that has not been taken
(`EventStore` has the waiters themselves); `process.env` is one value, as if
all sessions set the same keys; OpenCode's MCP entry is absent, added,
connected or refused, without the tools and the permission mode in it; the
user's lines of `config.toml` are those before and after the section; kinds of
messages that are handled alike are one kind.  Only the Gemini adapter's
`createSession` does more than return or remember an id, and only it is
modelled.  In `ToolServer` a response of the docker process is missing, partial
or whole, and a whole one is good, an error or of the wrong schema.
`SessionRecords` has both stores, with events that runtimes number or do not; a
task asks for tools under ids that it is not using, those of calls that are over
and those of earlier tasks included (Claude's `mcp:1`, `mcp:2`, ... are the same
in every task), and each call goes on as `CallLifecycle` allows.

A few steps of the code are left out of modules that have the rest.  Codex's
`writeFile` does not fail once it has truncated the file.  The SDK session of a
Claude task, which `stop()` closes and leaves in the adapter's map, has no state.
OpenCode's event subscription keeps what was sent before `promptAsync` returns.  A
JSON-RPC process that cannot be spawned emits 'error' and no 'exit', and its
callers are never settled (`json-rpc.ts:103`).  Docker's process is the docker
command, not the container behind it, and it reads its stdin (an early close
would be an 'error' that nobody listens to, `docker.ts:92`).

Definitions marked `Fault:` are plausible bugs in a definition of the same
name.  They are never used by a specification: they are there to show that a
property notices the bug.  `PROJECT.json` ("mutants") names one for every property;
the others break a part of one (an answer left out breaks `TranscriptPairs`, and
with it `InputExact`).

## 3. What the runs check

| Run | Question | Instance |
|---|---|---|
| `store_sqlite` | exactly-once delivery over drops, pages, reconnects and restarts, with events that adapters number; no hole in what is stored; subscribe without a gap; no lost wakeup; refinement of `EventLog`; what is stored arrives | 2 clients, 6 events, 2 restarts, pages of 1 and 2 |
| `store_lost_events` | *refuted:* every event that is emitted is in the log | 4 events |
| `engine_tools` | a tool starts only on the policy's or the user's word for that very attempt; the order of a call's events; the approvals map; no execution after `stop` | 1 task, 2 attempts of one id, failures at each await |
| `engine_session` | mutual exclusion, no tool beyond its task, no collision of approvals, one terminal event for a task nobody stops; exact gauges until a handler throws; `stop()` frees a session that waits for an absent user; with a present one every task settles, unless an orphaned rejection ends the process | 2 tasks of one session with equal call ids, one of them stoppable |
| `engine_queue` | first in, first out with rejected predecessors; refinement of `SessionQueue` | 4 tasks, 3 of them in one session; no stops (`engine_session` and the theorem have them) |
| `engine_two_terminals` | *refuted:* at most one terminal event per task | 1 task |
| `engine_no_terminal` | *refuted:* at least one terminal event per task | 1 task |
| `daemon_requests` | in-flight count, map of handles, SSE slots, listing by cursor, no loop left behind | 3 requests (same task id, 2 sessions), limit 1; 2 connections, limit 1; pages of 1; both values of `closeOnBackpressure` |
| `daemon_failure` | *refuted:* a failed task can be asked for its status | the same |
| `adapters` | refinement of `RuntimeStream`; order of a tool call's events and unique attempts; a failure ends a stream; answers reach the MCP handler that asked; each turn's calls answered in the next; output completed; usage counted once; of the environment, the MCP entry and `config.toml`, what each task can rely on; `stop` ends stream and loop | 4 adapters, 2 tasks in one session or two, 2 to 5 events of the first task, one call id used twice, the first task may be stopped |
| `adapters_env` | *refuted:* a Gemini task runs in its own environment | the same |
| `parts` | a tool runs only when policy and executors let it; docker runs end in time, without the late result or a stray process; JSON-RPC callers are settled once; artifacts are whole or absent; at most two windows' worth of requests pass in one window's time and nobody locks himself out; export, transcripts and compiled input match the log | 2 calls on 210 setups; 3 requests, 3 unread lines; 2 artifacts; 2 keys, 2 requests per window of 2, time 0 to 3; logs of 4 events in both stores, 2 call ids, budgets 0 to 3, pages of 2 |

The five refuted statements are sentences of the repository's documents
(`PROJECT.json`, "findings"): adapters count seq from 1 in every task, and
SQLite's primary key then refuses the event (`event-store.ts:138`); `stop()`
appends `task.stopped` while the stream goes on (`engine.ts:178`); a tool
handler that throws after the stream has ended takes `runTask` past
`emitTerminal` and `finalizeTask` (`engine.ts:252`); a rejected completion is
nobody's in the daemon (`server.ts:442`), which ends a Node process; and a Gemini
task runs in the environment of whoever replaced `process.env` last
(`gemini-cli-core.ts:235`).  Properties of the
passing runs are stated so that they hold beside these:
`TerminalOnceUnlessStopped` speaks of tasks nobody stops, `GaugesExact` says what
is exact once a handler threw, `BundleExact` and `TranscriptPairs` speak of logs
whose seq is in order (`Ordered`), and `SharedStateKept` of what the adapters do give:

- `EnvScoped`: a Gemini task in whose time nobody else replaces or restores
  `process.env` (`crossed` has the others) runs in its own session's.  As long as
  restores come in the opposite order (until `tangled`), it is the last
  replacer's, also for the tasks below, and the daemon's own in the end.
- `ConfigKept`: whatever other Codex tasks do, a thread with tools is run with the
  section its own task wrote, unless another task came to write `config.toml` in
  between (`rewritten`); then it is another's, or none in the middle of a write.
  The user's lines survive until one task reads or opens the file while another's
  write is under way (`torn`).
- `McpReady`: whoever prompts OpenCode has the MCP server connected, or knows
  that it was refused.

The properties of `adapters` and `parts` are conjunctions of named parts, each
defined and explained in the module of its state: `ToolAttempts` (`ToolLifecycle`,
`AttemptsUnique`), `StreamReports` (`FailureEndsStream`, `ClaudeOutput`,
`UsageCountsOnce`), `AnswersReachCalls` (`ClaudeAnswers`, `GeminiTurns`),
`SharedStateKept` (`EnvScoped`, `McpReady`, `ConfigKept`); `DockerRunEnds`
(`LateResultDropped`, `NoStrayChild`), `CallersSettledOnce` (`FirstAnswerWins`,
`ClosedLeavesNobody`), `RateWindows` (`RateBound`, `NoLockout`), `BundleExact`
(`ExportExact`, `ToolTranscriptExact`), `InputExact` (`TranscriptPairs`,
`CompileExact`) and `CallersAnswered` (`CallsAnswered`, `RequestsSettle`).

In memory, without restarts and with seq assigned by `append`, the store takes the
steps of the SQLite store, which `store_sqlite` contains.  An adapter's seq it
keeps (`event-store.ts:35`), so that seq goes back where a session's next task
counts from 1 again, and is not monotonic (`src/docs/plan.md:192` says it is).
What follows for an export is in `SessionRecords`: `list` goes on from the first event with a greater seq, so its
pages may come round to events that were exported before, and an export then
never ends (`MaxExport` cuts it off).

Consequences of what the models show that have no run of their own, since no
document says otherwise.  A task stopped in mid-stream may be logged as completed.  More
than `maxInflightTasks` tasks can be in flight when bodies are read together.
Gemini tasks of two sessions that overlap without nesting leave one's environment
to the daemon, and so does one whose `startTask` throws once it has replaced it.
Codex tasks that write `config.toml` at the same time can lose the user's lines, and
one's thread can be run while the other's `writeFile` has the file truncated, with no
`codesdk` server configured (`codex-sdk.ts:546`).  A
docker process that cannot be killed outlives its call (`NoStrayChild`).  A tool
handler that throws while the runtime's stream still runs is an unhandled
rejection (`engine.ts:225`, awaited only at 252): Node ends the process, and in
`ExecutorEngine` nothing happens any more (`Alive`).  Of two calls under one id, the
bundle's tool transcript shows the last (`bundle.ts:199`).

**Bounds.**  Named in the modules and guarded in the actions: `MaxEvents`,
`MaxRestarts`, `PageLimits`, `MaxOutputs`, `MaxDeltas`, `StreamEnds` and
`Stoppable`.  Six events with pages of one and two allow a reader to fall
behind, page, stream and resume within one log; two clients are enough for
their queues to differ.  Two tasks of a session give every interleaving of a
task with its successor, three a chain with a failure in its middle (and one
of another session); two attempts of one id give a stale approval.  One
connection more than the limit shows both a slot that is kept and one that is
given back twice.  In `adapters`, `MaxSent` bounds what a task sends, per
adapter and placement: five events are a tool call of OpenCode that is requested,
approved, started, completed and used again; three are two turns of Gemini with
a call each; `MaxAttempts` is two, so that the two tasks compete for the attempts
of one call id.  In `parts`, `MaxRequests`, `MaxLines`, `MaxTime`, `MaxChecks`,
`MaxLog` and `MaxExport`: three requests are answered out of order with a repeat, time 3 is one
whole window and the burst over its end, four events are two pages, a call with
its output and result, two calls, or one id used by two tasks; an export of more
than the whole log is one that repeats.  A deadlock check is off everywhere: an idle daemon has
nothing to do, a `stop()` of a task whose runtime never starts waits for ever,
and bounded producers end; that things go on where they must is what the
liveness properties say.

**Fairness.**  `EventStore.FairSpec`: the loop of `streamEvents` runs while
its connection lives; nothing is assumed of producers, clients or restarts.
`ExecutorEngine.FairSpec`: `LoopFairness`, promise reactions whose promise is
settled are run by the event loop; `RuntimeFairness`, a runtime answers
`startTask`, a tool and `sendToolResult` return, with or without an error, and a
stream ends when each of its calls has been answered or `stop()` was called for
it.  More is not assumed of a stream, since Claude's MCP handlers
(`claude-agent-sdk.ts:444`) and Gemini's turns wait for those answers; that an
aborted stream ends is `StopEnds` of the adapters.  All of this holds as long as the
process lives, and `StopUnblocks` and `EveryTaskSettles` end with it.  `handle.stop()`
may hang and users may be absent: only
`EveryTaskSettles` assumes `UserFairness`, and says so.  `Daemon.FairSpec`: a
loop whose queue is closed goes on; sockets may never drain.
`RuntimeAdapters.FairSpec`: the engine's for-await keeps reading; a turn whose
calls are all answered goes on; the SDK's stream of a task that was aborted
ends or throws; `session.abort` of OpenCode returns or fails.  Nothing is
assumed of a model, of answers, or of a stream that was not aborted: that a
stopped Gemini task does not wait for an answer is what `StopEnds` shows.
`Parts.FairSpec`: a timer fires, a process that got SIGKILL closes or the kill
fails, readline reads the lines there are, and the exit of a process is reported.

## 4. What is proved

`EventStoreProofs`, for any number of clients, events and restarts:

- `StoreNumbered`, `SeqIsMonotonic`: assuming `SeqAssigned` (the store decides
  seq, or refuses a taken one: SQLite, or no adapter numbers).
- `DeliveryIsExactlyOnce`, `SubscribeHasNoGap`, `QueueLosesNoWakeup`,
  `StoreImplementsLog`: assuming also `LogSurvives` (SQLite, or no restart).

The invariant is `Numbered /\ ReadersOK /\ Bounded`: seq is the position of an
event, so that "after seq n" is "from position n + 1"; and what a client has,
what is being written to it and what is queued is the whole log while it is
connected.  Exactly-once is not inductive without the second: a push to a
queue that had a hole would deliver past it.  Both assumptions are needed:
without the first a log in memory can have one seq twice, so that a reader who
goes on after it skips or repeats events, and in memory a restart loses what clients have.

`ExecutorEngineProofs`, for any number of sessions, tasks, calls and events:

- `TypeCorrect`.
- `SessionsAreFifo`, `SessionsAreExclusive`, from `LockInv`: tickets number
  the calls of `startTask` (`TicketsOK`), a queued task's predecessor is
  unsettled as long as any earlier task is (`ChainOK`), and the map names the
  latest unsettled task (`MapOK`).  Without the last two a task could be
  chained behind nothing while another runs.
- `ApprovalsMatchWaiters`, `ToolsEndWithTask`, `AsksNeverCollide`, from
  `ToolInv`: entries and waiting handlers correspond one to one, and handlers
  only run inside the stream loop or its draining.
- `NothingRunsAfterStop`, an action property.

`SessionQueueProofs`, for any number of sessions and tasks:

- `EngineImplementsQueue`.  Every step of the engine is a step of `SessionQueue` or
  leaves turn and stage alone.  Beyond `LockInv` it needs that a task waits for the
  one right before it (`PredIsPrevious`, from `LatestLock`) and that a lock is
  fulfilled only when its task is over.  With it, `Daemon`'s use of `SessionQueue`
  for the engine rests on a proof.
- `SessionsGoOn` and `StopFreesFromUser`, the safety that `EveryTaskSettles` and
  `StopUnblocks` rest on.  Of the tasks of a session that are not settled, the one
  with the least ticket waits for no other; it may wait for a user only if its
  question is in the approvals map, where it can be answered or stopped, and
  a task that is being stopped asks nothing.

`ToolCallProofs`, for any number of sessions, tasks, calls and attempts:

- `CallsAreOrdered` (`CallLifecycle`) and `ExecutionsAreAllowed` (`AuditTrail`).
  Neither is inductive: what may be logged next depends on where the handler
  is.  `CallInv` ties a call's log to it (`HandlersOK`): of a queued call only
  the request has been logged, of one that waits for the user the request and
  the policy's question, and an approval is remembered of the very attempt that
  asked; one that executes is not completed.  It needs `ToolInv` for the
  approvals.

`TaskEndProofs`, for any number of tasks:

- `GaugesAreExact`, from `GaugeInv`: a start time is kept exactly while its task
  is in the stream loop, or beyond it if a handler of it threw, and the counters
  are the cardinalities of those sets.  A session that one task leaves is not
  active for another one, since the lock lets one in at a time (`LockInv`).
- `EndsOnceUnlessStopped`, from `EndInv`, by what each phase of `runTask` has
  logged and recorded: nothing, one terminal event with its status, or that
  status counted.
- `UndisturbedEndOnce`: exactly one terminal event, as `plan.md` has it, for a
  settled task whose stream did not fail before its first event, of which no handler
  threw, and in whose session nobody called `stop()`.  Without any one of the
  three the promise fails (`engine_no_terminal` shows the second).  By `SpeakInv` the
  session's log does not end in a terminal event once such a task has logged
  something and not yet its own: the lock and `ToolInv` keep all others of the
  session from logging.

`DaemonProofs`, for any numbers of sessions, requests and connections and any
limits: `InflightCounted`, `HandlesCorrect`, `SseSlotsCounted`, `ListingComplete`, and
`StreamsCanEnd`, the safety under `StreamsEnd`: with `closeOnBackpressure` the loop of
a peer that has left never waits for a 'drain'.
`DaemonInv` adds to the properties that only an accepted request completes, that
only an opened connection closes, and that the listing is a prefix of the map
while the cursor is its last id, which identifies a place since no id is in the
map twice.

`RuntimeAdaptersProofs`, for any number of tasks, sessions and calls, placed
in any way, and whichever adapter runs:

- `TypesAreKept` and `AdaptersAreStreams`.  Every step of each adapter is shown to
  be one move of its task (`Moves`, `Fits`): from one place to the next, with
  events that may be emitted there.  The refinement of `RuntimeStream` uses only
  that, not the four programs.
- `ReportsAreTrue` (`StreamReports`): a terminal event is the last of a stream and
  closes it, except Codex's; Claude's accumulator is kept in step with what was
  streamed; OpenCode's usage is the number of messages counted.
- `CallsAreAttempts` (`ToolAttempts`), from `LifeInv`: the state that each adapter
  keeps of a call (a handler, an item, a part's status, a turn's ids) says which
  of its events have been sent, and no attempt in use is beyond the counters,
  which the tasks share.
- `AnswersReach` (`AnswersReachCalls`).  A Claude handler that waits is unanswered,
  and one that is not was given the answer with its id; the calls that Gemini was
  told of, followed by those of the turn under way, are those that its stream
  asked for, in order (`TurnOf`).
- `SharedStateIsKept` (`SharedStateKept`).  A task that nobody stepped in upon has its
  own environment, and its initialization will restore just that (`OwnEnv`); those
  who replaced `process.env` and have not restored it form a stack, each
  remembering the one below, until two of them overlap without nesting
  (`EnvKnown`); whoever is past OpenCode's MCP requests knows how they went
  (`McpKnown`); a draft of `config.toml` has its own task's section, which stays in
  the file until somebody comes to write, and the user's lines until a read or an
  open falls into another's write (`ConfigSafe`, which needs `CodexAssumption`:
  "nobody's section" is no task's).  What the exception of `EnvScoped` hides is
  shown by `adapters_env`.

`PartsProofs`, for any number of requests, tools, setups, artifacts, answers and
events, any limits, budgets and page sizes: `CallsAreAllowed`, `DockerRunsEnd`,
`CallersAreSettled`, `ReadersGetWhole`, `WindowsHold` (`RateWindows`),
`BundleIsExact` (`BundleExact`, with `ExportIsPrefix` for its first half),
`InputIsExact` (`InputExact`), and `NobodyIsForgotten`, the safety under
`CallersAnswered`: whoever waits has a line, a timer or an exit still to come.
The invariant has a conjunct per part:

- what a call has done by where it is (`ToolInv`); a request waits exactly as long
  as it is pending, and the next line about it is the first answer (`RpcInv`); the
  files an artifact has are those of its file operations so far, and only after all
  four is it logged (`ArtifactInv`).
- `RateInv`: the code keeps a count and an end, and the property is about the past.
  The requests that a key was let through fall into windows one after the other
  (`WindowsOK`): those MaxPerWindow apart are not in the same window, so
  2 * MaxPerWindow apart they are WindowMs or more from each other, and those of the
  open window are as many as the counter says, up to MaxPerWindow.  The first
  bounds what passes in any WindowMs; the second says whom a refused key was
  refused for.
- `RecordsInv`: in a log that is in order seq is the position, whoever numbers the
  events, since a runtime's own numbers are behind it (`ExportInv`), and what is
  exported is the log up to the cursor; the events of a call carry the position
  of its request, they come behind it, and the last request under an id is that
  of the call that is still open under it (`CallsOK`, `OpenOK`); so the messages
  of the log so far pair up by call (`PairsOK`).  What is said of `Compile` needs no
  invariant: it holds of every sequence of messages.

Sums and concatenations of whole sequences are defined by recursion, and what one
more element does to them is a fact about every length.  The module proves these
facts without the library's theorems on predicates.  A non-empty set of numbers has
a least one (`LeastNumber`, since < is well-founded on Nat), so a statement that
fails somewhere fails somewhere first; with it, a function with given start and
step exists up to any number (`RecursionExists`) and is the only one
(`RecursionUnique`), the step being a function, not an operator.  From these follow
`SizeFromSum` and `FlattenAppend`, the equations that `Compile` and
`Transcript` are reasoned about with.

The assumptions are those on the constants, named in the modules
(`EngineAssumption` and so on): finitely many tasks, requests or connections where
they are counted, ids that differ from the values that mean "none", limits that
are numbers.  The bounds of the runs are constants in the theorems, too, and
can be any numbers.

Only model-checked is all liveness (`CatchesUp`, `StopUnblocks`,
`EveryTaskSettles`, `StreamsEnd`, `StopEnds`, `CallersAnswered`): fairness and
ENABLED are out of this prover's reach.  Every other property of a passing run
has its theorem.

No module with theorems uses a RECURSIVE operator.  `TypeOK` of `EventStore` and of
`Daemon` is part of their invariants and proved with them; `MonotonicSeq` follows from
`DenseSeq`, which a run checks.

## 5. Plan

Modelled and checked: the store, the engine with its queue, the daemon, the four
adapters with the stream they implement, and the parts around the engine.  Every
invariant and every action property of a passing run has its theorem.  What is
left is the safety under `StopEnds`: for each place in which the loop of a stopped
task can wait, the step of the adapter, or the answer of the runtime, that ends it.
For the other liveness properties this is proved (`QueueLosesNoWakeup`,
`SessionsGoOn`, `StopFreesFromUser`, `StreamsCanEnd`, `NobodyIsForgotten`).

## 6. What is not modelled, and why

Formatting, hashing and upcasting of events, trace ids, log and metric text,
the replayer and the viewer have no state that could go wrong between steps.
`deriveTaskStatus` of the daemon and the endpoints that only read are folds over
the log or the maps; `task-state.ts` is two types and a function nobody calls.
Building an environment, a prompt or a payload (`runtime-env`, `auth`,
`model-input`, the implicit sources) reads files and copies fields; parsing
arguments and the stdio transport of `mcp/cli.ts` are the MCP SDK's.  What the
workspace and patch tools do to files, and their path and patch checks, is
string processing; redaction and packing of the support bundle is, too.  Of the
Claude, Codex and OpenCode adapters `createSession` and `resumeSession` are left
out: they put an id in a map, and no other step depends on when.  Observability
counts and prints.  The SDKs, the OpenCode server, SQLite and
Node are outside the repository: they appear as environment actions, with the
answers, delays and errors that the code has to expect of them.
