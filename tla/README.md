# Verification of jinn's session engine

jinn is a terminal harness for LLM agents: a TUI process whose domain logic
(`crates/jinn-domain`) is a set of kameo actors around one shared, locked
application state. This directory holds TLA+ modules of the part that is
hardest to test: the *turn* of a chat session, what it leaves in the history, the
sub-agents, tool servers and the watchdog that act on it, and the life of a session around
its turns. TLC configurations check them on small instances, and TLAPS proofs
hold for every instance.

Paths below are relative to `src/`; `feat/` stands for
`crates/jinn-domain/src/feat/`.

## 1. The system

### How the parts interact

Three mechanisms carry everything:

* **Shared state.** `ChatSessionState` (`feat/session/chat_session.rs`) sits
  behind one lock. Actors and the frontend write it, one lock acquisition at a
  time; a handler that reads, decides, changes the phase and publishes does so
  under several, and others run in between.
* **The bus.** One actor with one FIFO mailbox. `publish` appends the message to
  the mailbox of each subscriber; every actor handles its mailbox in order and
  one message at a time. Two subscribers of one message handle it at unrelated
  times.
* **The bridge.** The frontend is synchronous. A message of an intent is wrapped
  in a closure, and the closure spawns a task that publishes it
  (`common/bridge.rs:90`), so two messages may be published in either order.

A turn, end to end: the frontend empties the input box and sends
`EnqueueUserMessage` or, in STEER mode on a busy session,
`SubmitSteeringMessage`. The session actor dispatches an idle session's message
at once (history, `Idle -> Sending -> Streaming`, `SendToLlmProvider`) and queues
a busy one's. `SendToLlmProvider` goes to the LLM actor, which starts the stream,
and back to the session actor, which arms the stale-generation guard. The stream
task publishes tokens and one `StreamCompleted`; one that ends with `ToolUse`
then publishes `ExecuteToolBatch`. The orchestrator runs the tools, publishes
each `ToolExecutionCompleted` and, after the last, `ToolBatchCompleted`; the
session actor continues the loop with a `ToolContinuation` send. When the
session becomes Idle the queue actor pops the next queued entry, or the steering
buffer, and dispatches it. A cancel does its part synchronously in the frontend
and the rest in the LLM actor, whose tombstone keeps continuations of the
cancelled turn from starting a stream.

### Components

| component | state | operations | what is hard | correct if |
|---|---|---|---|---|
| Phase machine, `feat/session/phase_machine` | phase, per-phase data | dispatch, first token, completed, cancel | rejected transitions are logged and ignored | no accepted path leaves a session busy with nothing running |
| Session actor, turn dispatch, `handlers/{enqueue,streaming,stall_retry}.rs` | guard, queue, steering buffer, history | enqueue, steer, resume, retry, token, completed | locks released between steps, stale generations | one live stream, no text lost, turns end |
| Session actor, tool loop, `handlers/tool_calls.rs` | buffered batch | result, batch completed, continuation | batch overtakes completion, stragglers after cancel | one continuation per batch, with its results |
| QueueActor, `feat/queue_actor` | none | pop and dispatch on Idle | Idle is over when it is handled | queued entries are dispatched once, in order, to an idle session |
| LlmActor, `feat/llm_actor` | tracked sessions, task handles, tombstones | start, abort, cancel, untrack | aborts take effect late; completions carry no authority | one live stream; silence after a cancel |
| ToolOrchestratorActor, `feat/tools_actor/mod.rs` | registrations, pending batch per session | execute, count, cancel, register | results name no batch | batches complete once, with their own results |
| Frontend intents, `feat/chat_input`, `feat/intent`, `feat/global` | input box, prompts | submit, ESC-confirm, interrupt, resume | runs concurrently with every actor | a submitted text has one fate |
| Bridge and bus, `common/bridge.rs`, `bus_service.rs` | channels, mailboxes | publish | reordering, best-effort delivery | see above |
| Task tool, `feat/tools_actor/task*.rs` | sub-agent registry | spawn, await, settle, time out | parent and child turns race | a parent gets one answer |
| Streaming entries and history editor, `chat_session.rs`, `history_editor.rs` | history, tracked indices, buffered overrides | edit, normalise, accumulate, drain | index bookkeeping under edits | loop layout kept, overrides applied once |
| Compaction, auto-prune, history workers | snapshots | compute, submit mutations | stale snapshots | cuts never split a tool call from its result |
| Session lifecycle, archive, teardown | lifecycle status, trees | set up, tear down, archive, cancel | scripts race cancels | every session of a tree settles |
| Session store, persistence | sqlite rows | save, load, migrate | crash between saves | what is loaded was a state |
| MCP coordinator and actors | connections per session | connect, disable, restart, call | server dies under a call | every call is answered |
| Plugin host and watchdogs | plugin processes, timers | spawn, forward, cancel, restart stream | view of the turn lags | trips only on stalled streams |
| Interactive terminal | pty, controller | run, settle, take over | output races timers | one controller |
| Discovery coordinator | outstanding scans | scan, settle | late results of a superseded scan | settles once |
| Providers, retry, wire formats | none | parse, retry | partial chunks | data conversion |
| Discord, web fetch/search, todo list, preferences, pickers, UI, CLI | various | various | external services, rendering | outside the turn |

`PROJECT.json` has the same list with the source files and the status of each,
and under `hazards` what in this code a test would hardly reach, each at its line
and with the properties that cover it.

## 2. The modules

| module | models |
|---|---|
| `PhaseMachine` | the phase kinds and the transitions, as total operators: a rejected transition keeps the phase |
| `TurnEngine` | one session's turn across frontend, session actor, queue actor, LLM actor, orchestrator, stream and tool tasks |
| `TextLedger` | what a session promises about submitted texts, with no actor in sight |
| `ToolBatches` | the orchestrator's batches and their counting, for several sessions |
| `ToolLoops` | pure operators on a history: loops, their completeness, the dangling sweep, the normalization of a loop (`history_editor.rs`) |
| `StreamHistory` | what a reply leaves in the history, and the indices a Streaming phase keeps into it |
| `StallWatch` | `TurnEngine` with the stall-watchdog plugin: what the plugin coordinator feeds it, its timer and restart budget, what it asks for |
| `SubAgents` | `TurnEngine` as the child of one call of the task tool: the call's future and its two listener actors |
| `McpConnections` | one MCP server of one session: coordinator, the actors it spawned, their watchers, the orchestrator's routing and one call |
| `SessionLifecycle` | sessions outside their turns: lifecycle scripts, close, archive, trees, load, fork, the store and a crash |
| `MC...` | the instances TLC checks, one module for each state machine above |
| `TurnEngineProofs`, `StallWatchProofs`, `SubAgentsProofs`, `ToolBatchesProofs`, `StreamHistoryProofs`, `McpConnectionsProofs`, `SessionLifecycleProofs` | theorems about the modules they are named after (`StreamHistoryProofs` also about `ToolLoops`) |
| `TurnTextProofs` | theorems about the texts of `TurnEngine`: none is lost, and `TextLedger` is implemented |

All but `TextLedger` and `ToolLoops` also hold a few definitions marked `mutant`: a
plausible wrong version of the definition below each, used to see that a property
can tell the difference.

### TurnEngine

State follows the code's owners: the fields of the session (`phase`, `guard` =
`stream_dispatched_at`, `queue`, `steering`, `input`, `history`, `pendingBatch`),
the LLM actor's (`tracked` = `sessions`, `task` = `tasks`, `tombstone` =
`cancelled_sessions`), the orchestrator's (`batch` = `pending`), and a mailbox
per actor. `stream` has one record per *generation*, that is per `dispatched_at`,
and says which batch it continues and how far it got.

The grain of a step is one lock acquisition or one publish with nothing to read
in between. A handler that spans several has a program counter: `job` for the
session actor (`drain`, `begin`, `send`, and `resume` for the check-then-act of
`handle_enqueue_resume_turn`), `hand` for the queue actor (`popped`, `send`). The
`early` field of a job keeps a real difference between dispatch paths:
`resolve_model_and_dispatch` takes `dispatched_at` with `begin_streaming`, the
others at the publish.

| action | code |
|---|---|
| `Submit` | `handle_submit_message`, `route_to_enqueue_or_steer` |
| `AskCancel`, `EscConfirm` | `handle_normal_escape`, `try_handle_cancel_stream_prompt`, `cancel_stream_and_drain` |
| `Interrupt` | `global/intent.rs handle_interrupt` (cancels, drains nothing) |
| `BridgePublish` | `Bridge::publish_closure`'s task |
| `OutsideCancel`, `StallTrip` | plugin host: `apply_plugin_cancel_stream`, `apply_plugin_restart_stalled_stream`; the task tool's timeout |
| `HandleEnqueueUserMessage`, `HandleSubmitSteeringMessage`, `HandleEnqueueResumeTurn`/`ResumeTurn`, `HandleRetryStalledSession` | the handlers of those names, up to their first unlock |
| `DrainSteering`, `BeginDispatch`, `SendDispatch` | the dispatch all those paths share |
| `HandleSendToLlmProvider`, `HandleStreamToken`, `HandleStreamCompleted`, `HandleToolExecutionCompleted`, `HandleToolBatchCompleted` | the session actor's event handlers |
| `PopOnIdle`, `PushPopped`, `SendPopped` | `handle_idle_transition`, `dispatch_user_message` |
| `StartStream`, `DropContinuation`, `UntrackCompleted`, `CancelStream` | the LLM actor |
| `FirstToken`, `StreamFinishes`, `StreamFails`, `StreamUsesTools`, `HandOffBatch`, `StreamStops` | `run_stream`, `process_stream_events`, `handle_done_event` |
| `ExecuteToolBatch`, `CancelToolBatch`, `CountToolResult`, `ToolFinishes` | the orchestrator with one call per batch |

A run gives `TurnEngine` a set of budgets, one of which `Init` picks: the inputs that are
interesting together are in one budget, and the product of all is out of reach.

`abort()` takes effect where a task next yields, so an aborted stream task may
still publish: that is the budget `late`, which also lets an aborted tool answer.

### ToolBatches

The orchestrator alone, with batches of several calls of three kinds (a spawned
builtin, an actor-backed tool, a call refused at once), several sessions, and the
turn as its environment: it asks for a batch, may cancel, and may ask for a second
one while the first is pending, which is what a retried or superseded stream does
to it. The dispatch of a batch is call by call, so a fast tool answers before the
batch is inserted.

### ToolLoops and StreamHistory

`TurnEngine` asks whether the right stream runs; `StreamHistory` asks what that
stream writes. Its session is a record: the phase, the `history` (a sequence of
entries), and `tracked`, the four slots of `StreamingPhase` (assistant, thinking,
a call by its position in the reply, a result by its call). A tracked slot is an index into
`history`; for the properties only, it also has the id of the entry it was set for.
An entry has a kind, the call it names, the set of generations whose tokens it
holds, whether its arguments or its result are complete, and whether it is
`ForcedExclude`.

| definition | code |
|---|---|
| `Push`, `InsertEntryAt`, `Clamped`, `Shifted`, `Track`, `ToPhase` | `push_entry_raw`, `insert_entry_at` with its clamped index, the setters and `shift_streaming_indices_for_insert_at` of the phase machine |
| `EnsureAssistant`, `BeginThinking`, `AppendToken`, `BeginToolCall`, `AppendToolCallDelta`, `FinalizeToolCall`, `BeginToolResult`, `FinalizeToolResult` | the methods of those names in `chat_session.rs` |
| `FinishStreaming`, `CancelStreaming`, `ResetForRetry` with `Without`, `SweepDangling` | `finish_streaming`, `cancel_streaming`, `reset_streaming_entries_for_retry` with `remove_trailing`, `force_exclude_dangling_tool_calls` |
| `Normalized`, `NormalizeStep` | `normalize_loop_layout`, its loop over the positions as a recursive function, and `normalize_step` |
| `Handle...` | the handlers of the session actor, each one step |
| `DispatchQueued`, `IgnoreIdle` | `handle_idle_transition` with `dispatch_user_message` |
| `StartStream`, `CancelStream`, `Emit...` | the LLM actor and its stream task |
| `ExecuteToolBatch`, `CancelToolBatch`, `CountToolResult`, `ToolStarts`, `ToolFinishes` | the orchestrator and its tools |

What is simpler here than in `TurnEngine`: a handler is one step; a generation is the
index of its dispatch; the arguments of a call arrive in one delta; an aborted task
is silent; the LLM actor untracks a session with its `Finished`. Messages of publishers that are
unrelated to the turn (a user's message, a plugin's entry, a retry) are handled
directly, at any time, instead of passing through the mailbox: their order
with anything in it is free. System stands for all the kinds that may sit inside a
loop besides Thinking. Calls of a reply are reported complete one by one or, as some
providers do, all at the end.

### StallWatch

EXTENDS `TurnEngine`; every step of the turn is one of its actions. `PluginCoordinatorActor`
subscribes to the same messages as the session actor and writes each as a line to the
plugin's stdin, so what it passes on is read off what a step appends to `sessionBox`
(`Heard`). The lines carry a session, not a generation.

| definition | code |
|---|---|
| `Forwarded`, `Event`, `Heard` | `forward_event` of the plugin coordinator, the plugin protocol's events |
| `Seen`, `ReadEvent` | `on_stream_start`, `on_stream_event`, `on_stream_end` of `plugins/stall-watchdog` |
| `MayRestart`, `Trip` | `on_tick`: a restart within `max_restarts`, else give up and cancel |
| `ApplyAsk` | `apply_plugin_restart_stalled_stream`, `apply_plugin_cancel_stream` |
| `Hang` | a provider that holds the connection and sends nothing |

A trip needs a window of a minute in which nothing was heard, so it finds mailboxes and pipes empty
(`Silence`); a retry that races the turn's own messages is `StallTrip` of `TurnEngine`.

### SubAgents

EXTENDS `TurnEngine`, which plays the child: a sub-agent is an ordinary session, which the user may
watch and write to. The call adds the future of `tools_actor/task.rs` (`SpawnChild`,
`OpenGate` = `await_discovery_settlement`, `EnqueuePrompt`, `ReturnAnswer` and `Expire` =
`await_child`, `AbortCall` = the parent's `CancelToolBatch`), the settle ledger
(`DiscoveryEnds`), and `TaskPhaseListenerActor` (`Signal`), which hears each Idle
announcement of the child from the step that publishes it (`ChildStep`).

### McpConnections

One pair of a session and a server. `stop_gracefully` queues a stop and does not wait, so a killed actor
may still connect, take a call or say goodbye while its successor starts, and what it
publishes names the pair and not itself: `actor`, `box`, `up` and `watched` are per
spawned actor, `status`, `routable` and the messages are not. `confirmed` has the confirms the
bridge is yet to publish, in whatever order, each with its copy of the set.

| action | code |
|---|---|
| `ConfirmPicker`, `PublishConfirmed`, `AskRestart` | `confirm_mcp`, the bridge, the restart tool and the inspector |
| `HandleSessionCreated`, `HandleEnablementChanged`, `Reconcile`, `Spawn`, `Kill` | the coordinator's handlers, `reconcile`, `spawn_one`, `kill_one` |
| `HandleRestart`, `EndRestart` | `restart_one` and `wait_for_startup`, during which the mailbox is shut |
| `HandleStatus` | `handle_mcp_server_status` |
| `Announce`, `RegisterTools`, `SayRunning`, `ConnectFails` | `McpActor::on_start` |
| `TakeCall`, `EndCall` | its `ExecuteTool` |
| `BeginStop`, `SayDead`, `Unregister` | its `on_stop` |
| `ReportDeath`, `ServerDies` | `spawn_liveness_watch` and what it watches |
| `DispatchCall`, `HandleOrch` | `dispatch_tool_call`, `mcp_rejection_reason`, the registrations |

### SessionLifecycle

Sessions with a setup and a teardown script. `mem` is the session map, `store` the rows of the
store, `workspace` what the scripts have really done: the ground truth that what
is believed (`script` in `mem` and `store`) is compared with. A key of the sidebar
reads `mem` and hands messages to the bridge; the session actor's handlers take them
one by one, except that an archive cascade awaits the store between its members
(`archiving`, `ArchiveNext`). Beside the session actor runs the queue actor: the end of a turn
puts an announcement into its mailbox (`idles`), it pops a text (`hand`) and begins its turn in a later
step, whatever the session actor is in the middle of.

| definition | code |
|---|---|
| `HandleRunSessionSetup`, `HandleFinishSessionSetup`, `HandleRunSessionTeardown`, `HandleFinishSessionTeardown`, `Spawn`, `BeginTeardown` | `handlers/lifecycle.rs`: one slot `lifecycle_child` for all sessions |
| `HandleCloseSession`, `HandleArchiveSession`, `HandleArchiveSessionTree`, `HandleTeardownSessionTree`, `Closure`, `TreeIsIdle`, `ArchiveTree`, `ArchiveNext` | the same file; `guarded_tree_closure`, `resolve_tree_closure`, `archive_tree_from_root` |
| `HandleCancelLifecycleCommand`, `EscConfirm` | ESC twice on a session whose script runs |
| `HandlePushChatEntry`, `HandlePersistSession`, `HandleMarkSessionInteracted`, `HandleEnqueueUserMessage`, `OnStreamCompleted` | the handlers that save a session; a message for a session that is not there makes a ghost (`GetOrCreate`) |
| `PopOnIdle`, `DispatchPopped` | `handle_idle_transition`, `dispatch_user_message` of the queue actor; each may make a ghost |
| `OnLoadRequested`, `OnSessionForkRequested` | `session_load.rs`, `fork_metadata` of the store |
| `ScriptEnds`, `ScriptReportsKill`, `TurnEnds`, `BridgePublish` | tasks |
| `CreateSession`, `ForkFromEntry`, `RerunSetup`, `Teardown`, `Key`, `TreeKey`, `SubmitMessage`, `LoadSession` | the intents of `feat/ui/sidebar/sessions` and `feat/session_lifecycle` |
| `CrashAndRestart` | the process dies between any two steps; `startup.rs` brings back every row that is not archived |

A user who acts on a session while something about it is still on its way is *rash*,
and is counted: some properties hold only for a user who waits. What is simpler here: a
history is its length; a failed script has done nothing (so a setup that exits 0 with an
invalid path counts as failed); the end of a command and its report are one step;
`set_archived_many`, called once after a cascade, is part of each member's step. A member's
save and its removal are one step, so that what the queue actor does in between
falls before or after it. A queue is the number of its texts, in Queue mode: the steering
buffer and tool loops are left out, and so are the generations of streams, so that turns of a
session that overlap are answered as one.

### TextLedger and the refinement

`TextLedger` gives each submitted text a fate: unsent, pending, sent, handed back
to the input box, overwritten there by a later hand-back. `Fate` in `TurnEngine`
is the refinement mapping, and `KeepsLedger` says that every step of the actors
is a step of the ledger or none: nothing sent is taken back, nothing handed back
is also sent, nothing disappears.

## 3. What TLC checks

| run | instance | properties | states |
|---|---|---|---|
| `turn_escape` | 2 texts, both modes, 1 ESC-confirm, interrupt, resubmit, tool use | `EveryTextInOnePlace`, `CancelledSessionIsSilent`, `KeepsLedger` | 1.5 million |
| `turn_races` | 1 text, Queue mode; 1 plugin cancel, retry, resume, missing factory, tool use, or 1 plugin cancel, late publish, 2 resumes, 2 tool uses | `TypeOK`, `OneLiveStream`, `OneContinuationPerBatch` | 4.6 million |
| `tool_batches` | 2 sessions, 2 batches of up to 2 calls, 1 cancel, superseding batch, late result, fairness | `TypeOK`, `UndisturbedBatchIsExact`, `ResultCountedOnce`, `EveryBatchAnswered` | 820 thousand |
| `history_retry` | 1 turn and 1 queued message, late reasoning, 1 call whose tool announces its start, 1 retry, 1 plugin entry | `TypeOK`, `IndicesOwnEntries`, `ThinkingFirst`, `OneResultPerCall` | 535 thousand |
| `history_cancel` | 1 turn, 2 tool uses; replies of up to 2 calls, 1 ESC-confirm, late call, or replies of 1 call, content, reasoning, 1 plugin entry, announced tool, 1 ESC-confirm, late call | `NoDanglingCall`, `ReceivedCallsWhole`, `OneReplyPerEntry`, `AnsweredCallsKept`, `ContinuesWithWholeLoops` | 1.2 million |
| `stall_watch` | 2 texts, Queue mode, 1 failing stream, 1 tool use, 2 streams that hang, 1 restart, fairness | `LiveStreamsWatched`, `TimersHaveTurns`, `ContinuedWithResult`, `TurnEnds`, `EveryTextSettles` | 363 thousand |
| `sub_agents` | a prompt and 1 text of the user, 1 discovery, a deadline, 1 tool use, 1 failing stream or late publish, fairness | `FinishedChildRests`, `EveryCallAnswered`, `OrphanEnds` | 310 thousand |
| `mcp` | 2 confirms or restarts, or 1 and a death; 1 call, fairness | `McpTypeOK`, `NoOrphanActor`, `DesiredWhenQuiet`, `ViewsAgree`, `ServedOnce`, `RoutedIsAnswered` | 523 thousand |
| `sessions` | a session, its fork and another session, 7 budgets | `BusyIsOwned`, `RestIsSaved`, `WorkspaceKnown`, `StoredScriptsRan`, `StoredTextsKept`, `ClosedLeavesNothingUp`, `TreeSparesTheBusy` | 2.6 million |
| `turn_silent_end` | 2 texts, one stream ends before a token, fairness | `TurnEnds` is violated | |
| `history_untracked` | 1 turn, a queued message, a reply of 2 calls | `ReceivedCallsWhole` is violated | |
| `mcp_restart` | 1 restart | `RestartedIsUsable` is violated | |

**Bounds.** `Msgs` is the set of texts, each submitted at most once (a text handed
back may be submitted again). A budget gives every input of a user or plugin and
every mishap the number of times it may still happen; its keys are explained in
the module. One of each is enough for the races here, which are between one
cancel (retry, resume) and the steps of one turn; a second text gives the cancel
a queue or a buffer to empty and a turn to collide with. `turn_races` has one text: a
retry and a resume bring second and third generations into being without a second
text. Its second budget needs two tool uses and two resumes: the first resume turns the
session to Streaming while a batch runs, so that the batch is buffered, and the second
tool use takes the buffer. In `tool_batches` two batches suffice
for a straggler to meet a second batch, and two calls for a partial count.
`turn_escape` treats texts as interchangeable (safety only).

The `history_*` runs have a budget for each question. Two calls are what it takes for one to
be written over the other, two replies for a second loop behind a committed one, and a
queued message for the one dispatch that leaves the session in Sending. Each passing run
leaves out the inputs with which one of its properties fails; section 3's last part
has those.

`stall_watch` lets the first stream and its restart hang, so that the watchdog restarts
once and then gives up, with a text queued behind. In `sub_agents` one discovery is
announced before or after the settle listener subscribes. In `mcp` two asks are what a
server needs to be replaced, by a restart or by off and on again, and what the bridge needs to
swap two confirms. The seven budgets of
`sessions` ask: what a user who waits can do to one session with failing and killed scripts
(`PatientBudget`), two sessions sharing the one slot for a command (`PairBudget`), trees
(`TreeBudget`), two crashes (`CrashBudget`), a user who does not wait (`RashBudget`), a text
queued behind the turn of a session whose tree is then archived (`QueueBudget`), and an ESC
on a session with a queue (`EscBudget`).

Deadlock checking is off in all runs: the system rests when the user does.
Whether it rests in the right state is for `TurnEnds`, `EveryTextSettles`,
`DesiredWhenQuiet` and `RestIsSaved` to say.

**Fairness.** Each module with a liveness property states weak fairness of one action: the union of what its actors
and tasks do. In `TurnEngine` and `ToolBatches` it is one union per actor. All
are tokio tasks that the runtime polls while they are ready, mailboxes are FIFO, and every input
is bounded, so that no task can starve another for ever. That a stream or a tool
*ends* rests on the provider's timeouts, the tools' timeouts and, in `StallWatch`, where
a stream may hang for good, on the watchdog alone. Users, plugins, a call's deadline
and dying servers owe nothing, so no liveness property depends on somebody pressing a key.

**Why liveness is checked where it is.** `TurnEnds` holds in `stall_watch`, whose
instance has overtaking dispatches, failing and hanging streams and a tool loop. It does *not*
hold with every mishap: besides the finding below, TLC refutes it with a missing
factory, a plugin cancel met in Sending, or an ESC-confirm and two texts. `EveryTextSettles`
holds in Queue mode; in Steer mode a fragment handled after
the turn's last Idle event stays in the buffer until the next turn, as the comment
at `queue_actor/mod.rs:118` wants to prevent. `ContinuedWithResult` depends on
the bounds of its run: a resume or overtaking dispatches with two tool uses let
a batch be continued whose result the session dropped. The `hazards` list keeps
these with their lines.

### Findings

1. **A silent stream wedges a queued turn** (`turn_silent_end`). Only the queue
   actor's dispatch leaves the session in Sending until the first token; the phase machine
   takes the end of a stream from Streaming only. The turn never becomes Idle, and the
   queue behind it is not served.
2. **Parallel calls of a queued turn lose their arguments** (`history_untracked`).
   `finalize_tool_call` takes the last ToolCall, not the one with its id. In a turn
   the queue actor dispatched the entries are not tracked either, because the session is still
   Sending, and only the last call is ever completed.
3. **A restarted MCP server may end up dead or without tools** (`mcp_restart`). `kill_one`
   does not wait for the old actor. Its goodbye names the pair, not itself, so its
   `Dead` and `ToolsUnregistered` may be handled after the `Running` and `RegisterTools` of
   its successor, whose restart was reported as a success.

### Where the passing properties stop

TLC refutes these with other budgets of the same modules (the inputs are in
brackets, `MaxCalls` is 1 unless given). Each is a hazard in `PROJECT.json`.

In the turn:

* That a queued message waits for the agent (README.md:56) [3 texts, nothing goes wrong]:
  `handle_idle_transition` pops without looking at the phase. A message submitted
  just after the Idle event was published starts a turn; the queue actor then dispatches
  the queued one into it (`queue_actor/mod.rs:114`), and the new stream aborts the running one.
* That a retry meets only a turn in flight [1 text, 1 retry]: the guard is cleared when
  `StreamCompleted` is handled, not when the stream ends; a retry ahead of it in the mailbox
  restarts a turn that was complete (`stall_retry.rs:81`), though "the self-resolved race is
  closed by construction" (`stall_retry.rs:65-67`).

In the history:

* `AnsweredCallsKept` [turn 1, toolUse 2, retry 1]: a retry removes the entry of a call
  whose `ToolCallReceived` is still in the mailbox; it is written over the last call of an
  earlier loop (`chat_session.rs:1469`), though "committed history" is to be untouched
  (`chat_session.rs:1317`).
* `ContinuesWithWholeLoops` [turn 1, toolUse 1, notice 1; MaxCalls 2]: an entry pushed
  between two results ends the loop (`history_editor.rs:558`), is not interior to it, and
  stays.
* `OneReplyPerEntry` [turn 1, text 2, retry 1]: `on_stream_token` looks at no
  generation, and the stalled stream's last token starts the retried reply's entry.
* `NoDanglingCall` [turn 2, toolUse 1, esc 1]: a message submitted between a cancel and its
  handling by the LLM actor takes over the completion the sweep is left to. [turn 1,
  queued 1, toolUse 1, esc 1]: the call of a cancelled queued turn stands behind no
  assistant entry, where the sweep does not look.
* `IndicesOwnEntries` [turn 2, queued 1, text 1, toolUse 1, notice 1, esc 1]: the queue actor
  normalizes a streaming session. Taking entries out does not shift the tracked
  indices back, putting them in shifts them on (`history_editor.rs:234`). With a second plugin entry
  the index of the reasoning reaches that of the text that follows, and `ThinkingFirst` fails too.

In `ToolBatches`, a straggler of a cancelled batch that meets the session's next
one is counted as its result (`tools_actor/mod.rs:806`), though the cancel's doc says
it is ignored (`tools_actor/mod.rs:543`); hence "undisturbed".

* `ContinuedWithResult` [2 texts, toolUse 2, and one of esc, interrupt, retry, resume]: a second dispatch has the session
  in Streaming while the first one's tool runs. Its result is dropped, the end of its batch is buffered, and
  the next tool use continues with that.

In `StallWatch`:

* `LiveStreamsWatched` and `TimersHaveTurns` [1 text, toolUse 1, and esc or interrupt]: the end of a cancelled stream is heard
  after the start of the next one and disarms its timer; a cancel that meets a dispatch before its send leaves
  the stream to start, timer and all, in a session that is Idle.
* `LiveStreamsWatched` [3 texts, 1 hang]: an overtaken stream's end is heard after its
  successor's start and disarms the timer of the successor, as the lines carry no generation.
* `TurnEnds` if a trip need not wait for silence: the same, with the restarted stream in the
  place of the successor. A cancel of the watchdog that meets the session in Sending wedges it
  (`plugin_coordinator_actor/mod.rs:538`).
* The restart budget survives a give-up: it is reset by a ping or a finished turn, so the user's
  next turn starts with none left.

In `SubAgents`:

* `FinishedChildRests` [toolUse 1, and one of esc, interrupt, resume, retry, or cancel with late]: the listener takes
  the first Idle it hears. That may be of a resume before the prompt was enqueued, of a cancel whose tool has not been
  aborted yet, of a turn that a late retry starts again, or of a cancelled stream whose tool use is still published.
* That the child rests after the deadline: the `CancelStream` of `task.rs:296` met in
  Sending is rejected by the phase machine (compare `task.rs:31-32`).
* An ESC on the child between its dispatch and its send publishes no Idle; the
  completion listener waits for the next turn's.
* `task.rs:23-25` and `task_settle_listener_actor.rs:20-21` have both listeners subscribe before
  `SessionCreated` goes out. The settle listener is spawned after it, and what was announced in between
  costs the call the whole `SETTLE_BUDGET`. `task_registry.rs:6-8` says that the watchdog reads
  the registry; nothing outside the tests does.

In `McpConnections`:

* `DesiredWhenQuiet` without its exception [asks 2]: a confirm carries a copy of the set, and the bridge has a
  task for each message (`common/bridge.rs:90-99`). Of two confirms published swapped the coordinator
  handles the earlier last, and the opposite of the last wish stays, though "the session set is the source of truth for
  which `McpActor`s should be running" (`mcp/intent.rs:75-76`).
* `ViewsAgree` is about a pair that has had one actor. The race of a restart is left to `RestartedIsUsable`, which fails.
* `RoutedIsAnswered` without its exception: a call routed while a stop is queued ahead of it is never
  answered, although `tools_actor/mod.rs:716-718` wants it to fail fast.
* That a restarted server is one the set has: `mcp_coordinator_actor/protocol.rs:20-22` says that
  the respawn "only proceeds if the server is still present" in the set, and `restart_one`
  does not look.

In `SessionLifecycle`:

* `TreeSparesTheBusy` without its exception [create 1, submit 2, archiveTree 1, rash 2]: a text queued behind a
  turn is popped when the turn ends. The guard of the tree finds the session Idle, the queue actor then begins the text's turn
  (`queue_actor/mod.rs:114-224`), and the cascade, which looks again only whether the member is there
  (`lifecycle.rs:1340-1369`), removes the session in that turn, though "if any member is busy, nothing is
  written or removed" (`lifecycle.rs:1106`) and "the whole action is rejected" (`archive_tree.rs:8`).
* `WorkspaceKnown` and `StoredTextsKept` are about a user who waits, and waiting includes the queue actor: until it has
  handled its announcements and begun what it popped, something of the session is on its way. Its handler calls
  `get_or_create` first of all (`queue_actor/mod.rs:117`) and makes a ghost of a session that was archived in the
  meantime. So does the handler of a worker's mutations (`misc.rs:157`), which is not modelled: the user is
  taken to wait for the history workers too.
* `StoredTextsKept` with a rash user: a submit overtaken by a close makes a ghost, and
  `MarkSessionInteracted` saves it over the archived row (`lifecycle.rs:1052-1054` says that it can
  be unarchived later). For the same reason a closed session may reappear, empty.
* `WorkspaceKnown` with a fork: the fork has its parent's script state (`fork_metadata`,
  `sqlite.rs:1201`), tears the shared workspace down when it is closed, and the
  original goes on claiming `SetupRan`. With a crash: a `Finish` that was not handled is lost, and a
  workspace is up that no session knows of (`startup.rs:100` has them all as `NothingRan`).
* With a rash user two closes run the teardown twice, and a session may be archived while its
  teardown runs: the handlers do not look at the count, only the keys do.
* A count below what runs: ESC sets it to zero while the one slot holds another session's
  command; `BusyIsOwned` states the other direction.
* An archive cascade is not atomic: after a crash in its middle the root is archived and its forks
  come back.

A streaming tool's start (`on_tool_execution_started`) ordinarily reaches a session that is
Sending, where `begin_tool_result` returns early: its pending entry appears only after a
retry or an overtaking dispatch. Where calls or results are left out of their loop
the converter's last pass (`enforce_valid_tool_sequences`) repairs the prompt; its doc calls
it the net for states the editor cannot produce.

## 4. What is proved

`TurnEngineProofs` proves, for every set of texts, any of the modes and any budgets:

* `TypeCorrect`: `Spec => []TypeOK`.
* `AtMostOneStream`: `Spec => []OneLiveStream`. However dispatches overtake each
  other, at most one stream is live and the LLM actor can abort it.
* `SilentAfterCancel`: `Spec => []CancelledSessionIsSilent`. From a handled
  `CancelStream` to the next user send nothing streams.
* `BatchContinuedOnce`: `Spec => []OneContinuationPerBatch`. No finished batch of tool calls starts two
  continuations, whichever of its messages are late, buffered or drained early.
* `ContinuationsAnswered`: `Spec /\ [][Undisturbed /\ ~Plugins]_vars => []ContinuedWithResult`. A continuation
  is assembled from a history that holds the result it continues with, whatever fails or ends
  silently, in a turn that nobody cancels, no plugin acts on and no dispatch overtakes.

Assumptions: `BudgetAssumption` (budgets are naturals) and `ModesAssumption`, both
evaluated by TLC in the runs that extend `TurnEngine`.

**Argument.** Type correctness is inductive by itself. It has one lemma per
component (`FrontendTypes`, `SessionActorTypes`, `QueueTypes`, `LlmTypes`,
`StreamTaskTypes`, `OrchestratorTypes`), each with a step per action, over lemmas on what the
helpers return (`RestoreClosed`, `JobClosed`, `PublishClosed`, ...) and on what
the head of a mailbox may be (`SessionHead`, `LlmHead`, `ToolHead`: an actor's mailbox holds
only what it subscribes to, so the fields a handler reads exist).

The two stream properties are proved together, as `Streams` (`StreamsInvariant`), on top
of `TypeOK`.
Neither needs to know what a mailbox holds: the only step that makes a stream live is
`StartStream`, which aborts `task` first, and by `OneLiveStream` whatever was live
is `task`; and it lifts the tombstone unless the message is a continuation, which a
tombstoned session drops. `TypeOK` supplies that a generation
is an index and that an origin is one of two. `StreamsUntouched`, `StreamsStamped` and
`StreamsAdvance` are the three ways the other actions touch a stream: not
at all, by stamping a new generation, by moving one on.

`BatchContinuedOnce` needs to know where a batch is. `BatchesPlaced`: a batch is in at most one of seven places, and
there once: its stream has not ended, its `ExecuteToolBatch` is in the orchestrator's mailbox, the orchestrator runs it, its
`ToolBatchCompleted` is in the session actor's mailbox, it is buffered there, a dispatch carries it, a stream continues
it. `SendsFresh`: the `SendToLlmProvider` of a generation is announced or in the LLM actor's mailbox, not both and at most
once, and only while that generation has not started, so a stream is stamped once with the batch it
continues. `EarlyAlone`: a dispatch that stamps its stream early continues no batch. Each action moves a batch from one place to
the next or touches none; the `Quiet` lemmas dispose of the latter in one line per action.

`ContinuationsAnswered` needs its hypothesis. `Undisturbed` says that there is no ESC-confirm and no interrupt, and that the
entry the queue actor popped, or the resume the session actor accepted, finds the session as idle as it was when it was chosen; the code looks at the phase
before and not again. With two texts and two tool uses TLC refutes `ContinuedWithResult` for one ESC-confirm, one interrupt,
one retry and one resume each (see the limits above). The proof shows that such a turn is one activity, `Solo`:

* `OneActivity`: what moves the turn on (a dispatch, its `SendToLlmProvider`, an open stream, its hand-off, the execution,
  the pending batch, its end, an end of the stream) is in one place at a time, and while it is anywhere the phase is not Idle.
* `MailInOrder`: each mailbox holds at most one message of a kind that moves the turn on, and the session actor hears of a tool use
  after the stream's tokens and before the results, and of the results before the end of their batch.
* `LastGeneration`: whatever is on its way is of the last generation, which was not aborted.
* `ToolsAwaited`: while tools are used the session is in Sending, or will be when it has handled the completion that asked for
  them; so no result is dropped, and no batch is buffered.
* `ToolsAnswer`: a batch whose result has been counted has it in the history or in the mailbox, in front of the batch's end.

The five are proved together: `ToolsAnswer` needs the phase from `ToolsAwaited`, that needs the order of
tokens and completion, the order needs that nothing else is under way, and that needs the generations. There is one lemma per
handler (`DispatchSolo`, `ToolUseSolo`, `HandOffSolo`, `DoneSolo`, ...) over lemmas on what a message more or less at a mailbox's end or head
changes (`Gained`, `Lost`). `Solo` has two parameters, for the machines that extend the turn: streams of which nothing more is heard, and
whether a plugin has a request on its way.

`TurnTextProofs`, on the same assumptions:

* `NoTextLost`: `Spec => []EveryTextInOnePlace`.
* `LedgerKept`: `Spec => KeepsLedger`, that is, `TurnEngine` implements `TextLedger`: every step moves
  the fates of texts as one step of the ledger does, or not at all.

**Argument.** A set of entries has no order and a mailbox has messages that carry several texts, so counting
is replaced by `TextsPlaced`: for each text and each place, at most one entry, message or closure
there holds it (`HasOnce`, `MailedOnce`, `BridgedOnce`), and at most one place does (`Alone`). Lemmas say
what appending, taking the head, popping and restoring do to one place; each action moves the texts of one
entry between two, or merges those of several into the input box. `EveryTextInOnePlace` is then
a matter of counting the named places. For the refinement, the fate of a text is read off its place, and each
action is shown to commit, to hand back, to submit or to leave all fates alone.

`StallWatchProofs` and `SubAgentsProofs` carry the two stream properties over to the machines that extend the turn, for
any number of restarts, hanging streams and discoveries:

* `WatchTypeCorrect`, `SubTypeCorrect`: `WatchSpec => []WatchTypeOK`, `SubSpec => []SubTypeOK`. The watchdog never
  spends a restart it does not have; the settle ledger does not close on a discovery that still runs.
* `OneStreamUnderWatch`, `OneStreamOfTheChild`: `OneLiveStream` of each.
* `SilentAfterGivingUp`, `CancelledChildIsSilent`: `CancelledSessionIsSilent` of each.

and what each of the two machines is for:

* `NoStreamUnwatched`: `WatchSpec /\ [][Undisturbed]_allVars => []LiveStreamsWatched`. A stream that is open when the
  actors have caught up has a timer running on it.
* `NoTimerAtRest`: the same for `TimersHaveTurns`. A timer that runs then runs on a turn.
* `ContinuedUnderWatch`: the same for `ContinuedWithResult`, the watchdog's own restarts and cancels included.
* `ChildDoneWhenAnswered`: `SubSpec /\ [][CallAlone]_subVars => []FinishedChildRests`. When the call returns an answer its prompt
  has been dispatched, the child is at rest, no stream of it talks and no tool of it runs.

Assumptions: those of `TurnEngine`, `RestartsAssumption`, `PromptAssumption`.

**Argument.** Most steps of either machine are steps of the turn, overheard by a listener, or leave the turn alone: there
`TypesStep` and `StreamsStep` apply as they stand. The others (`ApplyAsk`, `EnqueuePrompt`, `Expire`) write one well-typed
message to a mailbox and touch no stream. That a hung stream is one of the turn's needs `GenerationsStay`.

The first three of the last group need `Undisturbed`: TLC refutes `LiveStreamsWatched` and `TimersHaveTurns` with one text for one ESC-confirm and
for one interrupt, and the former with three texts for an overtaking dispatch. Submits, resumes of a session at rest, errors,
tool loops, silent ends and hanging streams are covered, any number of each. The invariant is `WatchedTurn`: `Solo` of the streams that do not hang, and
`Heeds`, which is about what the guest will know when it has read its feed (`Verdict`: the last event that is not a ping is a start,
or there is none and the timer runs). An open or requested stream has that verdict unless a cancel is under way; a verdict is of a turn that is not
Idle; and no end of a stream is both in the session's mailbox and unheard of by the guest. A trip finds the turn asleep in a hung stream, so
its request is the turn's one activity until it is applied (`asked`).

`CallAlone` excludes the plugins and the child's ESC-confirm, interrupt and resume; what the user submits is left to the property's own `LeftAlone`.
TLC refutes `FinishedChildRests` for each of them (see the limits above).
The invariant is `ChildTurn`: the child has `Solo` and nothing to do but its prompt (`NothingElse`), and either its turn
has not begun and nothing has been announced (`Untouched`), or its prompt is in the history and an announcement that was
heard found it Idle, with nothing left that could start another turn (`Begun`).

`ToolBatchesProofs` proves, for any sessions, numbers of batches and calls, and budgets:

* `BatchTypeCorrect`: `Spec => []TypeOK`.
* `CountedOnce`: `Spec => []ResultCountedOnce`.
* `UndisturbedExact`: `Spec => []UndisturbedBatchIsExact`.

Assumptions: those `ToolBatches` names for its bounds and its kinds of calls.

**Argument.** A result names no batch, so nothing the orchestrator stores says that its count is right. Two
facts supply it: `BatchesOnce`, by which the messages that are on their way for a batch carry its
own calls and no other message does; and `CallsOnce`, by which a call is in one of six conditions (to be dispatched, running,
aborted, with an actor, answered, counted). `CountedOnce` follows. For exactness `OneAtATime` has a session that never cancelled or
superseded wait for one batch, which is queued, being dispatched or pending, with no more calls
outstanding than `remaining` says; when the count reaches zero none is.

`StreamHistoryProofs` proves, for histories of any length and content, what the history editor relies on:

* `SweepLeavesNoneDangling`. After the sweep a call of a loop that is left in context has its complete result in that loop.
* `NormalizingPermutes`. A normalization step loses and doubles no entry.
* `NormalizingClosesTheLoop`. Nothing stands between the loop's calls and its results any more, and it answers the same calls.
* `NormalizingSparesTheOthers`. Every other loop keeps its place, its extent and its entries.
* `NormalizingClosesEveryLoop`. The whole pass only reorders entries, keeps every loop with the calls it answers and its
  completeness, and leaves nothing between calls and results in any of them.

and for any budgets and any number of calls in a reply:

* `HistoryTypeCorrect`: `Spec => []TypeOK`.
* `OneResult`: `Spec => []OneResultPerCall`. No call ever has two results.
* `IndicesStayOwn`: `Spec /\ [][DispatchQueued => session.phase # "Streaming"]_vars => []IndicesOwnEntries`.
* `ThinkingStaysFirst`: the same for `ThinkingFirst`.

Assumptions: `CallsAssumption` and `BudgetAssumption`.

The last two need their hypothesis. The queue actor acts on an announcement of idleness that may be old, and
`dispatch_user_message` normalizes the history in whatever phase it finds. The pass takes entries out with
`remove_history_entry_at`, which shifts no index, and puts them back with `insert_entry_at`, which does; so a slot
behind the loop moves on although its entry does not. With a budget larger than the runs' TLC finds the sequence: a reply
that calls a tool is cancelled after a plugin's entry, the next message streams, a third is queued, and the
announcement of the cancel dispatches it; the reasoning that is being streamed is then appended to the queued
message (`IndicesOwnEntries` fails after 22 steps with two messages, one queued, one tool use, a cancel and one plugin
entry). With two plugin entries the slot points behind the end, and the text that follows gets the same
index (`ThinkingFirst`). The run's budget has one turn, in which no such loop is left open; every other action of the
session, with any budget, is covered by the theorems.

**Argument.** *Loops.* `RunEnds` and `RunEndUnique` characterise where a run of kinds ends (least-number principle); with
`LoopParts` a loop is four runs in a row. `PartsSwapped` says where each position goes when two neighbouring parts of a
sequence change places. Two loops do not overlap, since a loop has no assistant entry but its first. The sweep
does not see calls that stand in no loop; `NoDanglingCall` and its limits above say when there are some. The pass is an
induction over positions by the same principle: `IsPass` describes the function the pass computes, `StepReorders` is its step.
*Edits.* One lemma for each operator on a session says that it keeps its types, adds no second result and keeps the tracked
indices right (`Edits`); a handler is a composition of them, and `IndicesStayOwn`, `ThinkingStaysFirst` follow from `Indexed`.
*Types.* `HistInv` is `TypeOK` with all bounds expressed in the number of dispatches, and says of each message in a mailbox
that it names a dispatched generation and one of its calls: without that a handler could write an entry for a call that does not exist.
*Results.* That a history has one result per call says nothing of the reports that are still to come, so it is not inductive.
`ResultInv` says where a result can come from. A generation is sent once and its batch executed once. Until
then none of its calls is running, reported or answered (`Unstarted`). A running call has no completion in the mailbox, and before it has
announced its start it has no result (`RunningOpen`, `RunningSilent`). The report of a start
comes once, in front of its completion, for a call that has no result (`StartsFirst`): so `begin_tool_result`,
which pushes without looking, pushes the first, and `finalize_tool_result` finds it. The mailbox is a queue, so what a step
keeps of it keeps its order (`Follows`).

`McpConnectionsProofs` proves, for any number of confirms, restarts, deaths and actors:

* `McpTypeCorrect`: `Spec => []McpTypeOK`, which has a part that is no type: an open transport
  and a watcher have an actor that runs, a restart waits for the actor it spawned.
* `NoOrphans`: `Spec => []NoOrphanActor`. An actor is told to stop when it ceases to be the tracked
  one and not before.
* `CallServedOnce`: `Spec => []ServedOnce`.
* `QuietAsDesired`: `Spec => []DesiredWhenQuiet`. What runs at rest is what the last picker or a restart asked for,
  unless the bridge published that picker's message before an earlier one; in any case no other actor is left.
* `ViewsSettled`: `Spec => []ViewsAgree`. The status, the orchestrator's routing map and the coordinator agree
  about a server whose one actor has settled.

Assumption: `BudgetAssumption`.

**Argument.** `NoOrphanActor` is inductive with the types. A call reaches every actor that is subscribed, and
several may be: `ServedOnce` rests on `OneReached`, by which a call has no stop in front of it in the mailbox of
at most one actor, since all but the tracked one have their stop queued and an actor that stops drops what is
behind it. `DesiredWhenQuiet` rests on `AskedFor`: what the coordinator will have done once it has handled
its mailbox is what the set says, or else the last confirm, which says it, is still in the bridge's hands,
or has overtaken an earlier one there (the history variable `overtaken`; the next confirm resets it). It is proved
message by message: the last `McpEnablementChanged` in the mailbox decides, and without one
what is tracked does. `ViewsAgree` rests on `OneSaid`: of the messages on their way to each view the last word
(and, with none on its way, the view itself) is what the state of the one actor calls for. An actor that speaks adds the last word for the state it enters,
and a view that takes a message either takes the last one or has a later one to come.

`SessionLifecycleProofs` proves, for any sessions with any fork relation of depth one, and any budgets:

* `LifeTypeCorrect`: `Spec => []LifeTypeOK`.
* `StoredRan`: `Spec => []StoredScriptsRan`. A script state is stored only of a session whose workspace a script has touched.
* `BusySpared`: `Spec => TreeSparesTheBusy`. An archive cascade never removes a session whose lifecycle command runs, nor
  one in a turn, unless the queue actor began that turn after the cascade's guard.
* `NeverBusyForGood`: `Spec => []BusyIsOwned`. A session's count of commands is never above what
  still runs or was announced for it, so it cannot stay busy with nothing left to end it.
* `RestSaved`: `Spec => []RestIsSaved`. When nothing is on its way, a restart brings back exactly the open
  sessions, as they are, however they came to be open.
* `TextsKept`: `Spec => StoredTextsKept`. As long as the user waits, no write of the store takes a text back.
* `WorkspacesKnown`: `Spec => []WorkspaceKnown`. With a user who waits, no fork and no crash, a session at rest
  counts as set up exactly when its workspace is up.
* `ClosedIsDown`: `Spec => ClosedLeavesNothingUp`. Then no session is closed while its workspace is up.

Assumptions: `SessionsAssumption` and `NoSessionAssumption` (the absence of a session is neither a session nor a
row; TLC evaluates both).

**Argument.** `StoredScriptsRan` needs every copy of a script state: the session's, the row's, and the successes
on their way in the mailbox. `LifeInv` has each of them believe that a script ran only when one has touched the workspace,
and a workspace once touched stays so; a fork inherits its parent's belief and shares its parent's workspace. For `TreeSparesTheBusy`, `ArchivesTheIdle` says that the members a cascade has left
are not busy, and in no turn but one that is recorded in `overtaken`: the guard saw them idle, and while the session actor is in the
cascade no command of theirs can start and only the queue actor can begin a turn. `BusyIsOwned` is
inductive once stated as `Owned` over the commands that have not ended and the endings in the mailbox; the work is
in what taking the head of the mailbox does to the number of endings of one session. `RestIsSaved`
rests on `AllSafe`: a handler that changes what a row holds rewrites the row in the same step, or leaves on its way
what will: a chat entry, the push of one, or the queue actor's `PersistSession`; and a row that is not archived is of a session memory still keeps. The proof goes
through every handler with one question, whether the row of each session is touched, rewritten or promised a save.

The last three hold for a user who waits, and what waiting comes to has to be proved first: the code does not look
whether a request finds its session as it was when the key was pressed. `Live` gives every copy of a message in the bridge, every message of the mailbox, every command
that has not ended, every member a cascade has left, every turn that is being answered, every announcement the queue actor has yet to hear and the text
it has popped a place of its own, so that two equal requests are two things. `Patient` says that without a rash act all of it is in order (`Orderly`):

* `Lone`: two things on their way to one session are parts of its creation or of a submitted text (its turn and
  what the queue actor does about it included), and at most one of them is a setup; a close, a teardown, a fork, a load, an end of a script or the cascade is alone.
* `Attended`, `ForkNew`: what is on its way finds its session open, except for a load, the cascade, and a fork, which finds nothing.
* `Grown`: no session is a ghost, and no row is ahead of the memory that will be saved over it.

`Grown` alone is not inductive: a submit that overtakes a close makes a ghost, a load that overtakes a save reads an older
row. `Lone` and `Attended` exclude both, and are kept because each handler puts at most one thing in the place of the one it took, or a
light one (`Heir`, `Moved`), and a key that finds its session at rest starts the only thing on its way. `TextsKept` follows from
the same case analysis, as a save writes a `size` that is at least the row's. For the workspaces `Settled` adds
what the end of a script says before it is handled (`Sits`): a setup that succeeded and waits in the mailbox means that the workspace is up,
a teardown that succeeded that it is not, and otherwise the belief is right; a setup is on its way only while nothing is believed to have run.
The queue actor touches open sessions only, then, and no script state.
TLC finds no violation of `Patient`, `Settled` and `AllSafe` under the constants of the run `sessions`.

**Only model-checked**: `NoDanglingCall`, `ReceivedCallsWhole`, `OneReplyPerEntry` and the action properties of `StreamHistory`
(they hold within the runs' budgets and not for all: late calls, retries and untracked calls break them, as said above), `RestsIdle`, and
every liveness property (fairness and ENABLED are beyond the prover).

## 5. What is left out

* Attachments, their gate and image conversion: entries carry texts only.
* Drops by full mailboxes (`BestEffort` delivery): with drops no liveness holds.
* `tool_loop_disabled`, soft cancel, `QueueItem::ToolContinuation`, the queue's resume
  item and the `SendMessage` shim: nothing outside the tests reaches them.
* In `TurnEngine`, the history's assistant, tool and error entries and tokens after the
  first; `StreamHistory` has them, without steering, resumes, stream errors and
  pending mutations. The token ledger; persistence.
* A reply that reports calls and does not end with `ToolUse`.
* Clocks: `Timestamp::now` is strictly increasing in the models.
* In `TurnEngine` a batch is one call; in `ToolBatches` results of a batch are a set,
  and an actor-backed call is answered (`McpConnections` says when a server's is).
* In `McpConnections`, the kills on close, archive and teardown of a session, the server's
  log, and the gap between the liveness flag and its publish.
* In `SessionLifecycle`, builtin lifecycles (they run inside the handler), refusals of the
  store, replacement sessions, frozen nodes and the warning about a missing directory; of the queue
  actor, the steering buffer and the gate for attachments.
* In `SubAgents`, the argument parsing and what a child inherits; in `StallWatch`, the plugin
  process's own life and the tool-call watchdog.
* The components with status `not_modelled` in `PROJECT.json`.

## 6. Plan

1. *Proofs on the history.* `AnsweredCallsKept` and `ContinuesWithWholeLoops`, under hypotheses like that of `IndicesStayOwn`.
2. `HistoryChunks` (chunk-wise overrides and the precedence of pins, the user and workers),
   `OverrideAccumulator`, `CompactionCut`: pure algorithms against reference definitions.
3. `PromptMessages`: `entries_to_messages` and its last pass as a fold, with what it repairs.
4. `TermControl`, `DiscoverySettle`, the retry schedule.

## 7. Running

    tlc -workers 2 -config TurnEscape.cfg MCTurnEngine
    tlc -workers 2 -config ToolBatchesCount.cfg MCToolBatches
    tlc -workers 2 -config HistoryRetry.cfg MCStreamHistory
    tlc -workers 2 -config SessionLifecycle.cfg MCSessionLifecycle
    tlapm TurnEngineProofs.tla            (and likewise the other ...Proofs modules)
