---------------------------- MODULE StreamHistory ----------------------------
(* What a reply leaves in the chat history of one session.                   *)
(*                                                                           *)
(* While a reply streams, the phase machine holds the history index of the   *)
(* assistant entry, the thinking entry, each tool call and each tool result  *)
(* it is filling (StreamingPhase); every later event of the stream is        *)
(* applied at that index.  Entries are meanwhile pushed by others, inserted  *)
(* before the reply, removed by a stall retry or excluded by a cancel.       *)
(*                                                                           *)
(* The session actor handles one message of its FIFO mailbox at a time.      *)
(* TurnEngine has the points at which its handlers release the state lock;   *)
(* here a handler is one step, a generation is the index of its dispatch in  *)
(* `stream`, and the arguments of a tool call arrive in one delta.           *)
EXTENDS PhaseMachine, ToolLoops, SequencesExt

CONSTANTS MaxCalls,  \* tool calls in one reply, at most
          Budgets    \* how often each bounded input may happen, per instance

\* Everything that is bounded in a finite instance, by name:
\*   turn       messages that find the session idle     queued  or busy
\*   text, think   content and reasoning tokens    toolUse  replies with calls
\*   parallel  further calls of such a reply
\*   announced  tool calls that report their start     retry    stall retries
\*   notice     system entries pushed in Sending, between a reply's calls and
\*              results       noticeMid  and in the other phases
\*   esc        cancels by the user     late  calls that outlive their batch
Inputs == {"turn", "queued", "text", "think", "toolUse", "parallel", "announced", "retry",
           "notice", "noticeMid", "esc", "late"}

ASSUME BudgetAssumption == Budgets \subseteq [Inputs -> Nat]
ASSUME CallsAssumption == MaxCalls \in Nat

VARIABLES
  session,    \* ChatSessionState: phase, history, tracked indices, next entry id
  guard,      \* stream_dispatched_at: 0 is None
  buffered,   \* pending_tool_batch is Some
  queue,      \* how many messages are queued
  idle,       \* SessionPhaseChanged(_, Idle) in the queue actor's mailbox
  inbox,      \* what the session actor has yet to handle of streams and tools
  llmBox,     \* mailbox of the LLM actor
  bridge,     \* CancelStream messages not published yet
  task,       \* the generation the LLM actor tracks, 0 if none
  tombstone,  \* sid \in cancelled_sessions
  stream,     \* per generation: what its task has published
  toolBox,    \* mailbox of the tool orchestrator
  open,       \* the batch it counts, and how many results are missing
  running,    \* tool calls being executed
  announced,  \* tool calls whose tool published ToolExecutionStarted
  budget      \* what is left of the instance's budget

sessionVars == <<session, guard, buffered, queue, idle>>
llmVars == <<llmBox, bridge, task, tombstone>>
toolVars == <<toolBox, open, running, announced>>
vars == <<sessionVars, inbox, llmVars, stream, toolVars, budget>>

-----------------------------------------------------------------------------
(* History entries and the session record *)

NoCall == <<0, 0>>            \* the id of a tool call is its generation and position

\* An entry: the call it names, the generations whose content it holds, whether
\* that content is complete (arguments, result) and its ForcedExclude override.
Entry(kind, call, from, whole) ==
  [id |-> 0, kind |-> kind, call |-> call, from |-> from, whole |-> whole,
   excluded |-> FALSE]
Plain(kind) == Entry(kind, NoCall, {}, TRUE)

\* Slots of StreamingPhase.  A slot tracks an index; `id` is the entry it was
\* given for, kept for the properties only.
AssistantSlot == <<"assistant">>
ThinkingSlot == <<"thinking">>
CallSlot(n) == <<"call", n>>
ResultSlot(call) == <<"result", call>>
NoTracking == [slot \in {} |-> 0]

Tracks(s, slot) == slot \in DOMAIN s.tracked
At(s, slot) == s.tracked[slot].at
MovedTo(t, at) == [at |-> at, id |-> t.id]

KeepsIndices(s, phase) == [s EXCEPT !.phase = phase]                     \* mutant

\* Leaving Streaming drops every tracked index.
ToPhase(s, phase) ==
  [s EXCEPT !.phase = phase, !.tracked = IF phase = "Streaming" THEN @ ELSE NoTracking]

\* push_entry
Push(s, e) ==
  [s EXCEPT !.history = Append(@, [e EXCEPT !.id = s.next]), !.next = @ + 1]

\* set_streaming_*_index: nothing to set outside Streaming.
Track(s, slot, at) ==
  IF s.phase = "Streaming"
  THEN [s EXCEPT !.tracked = [t \in DOMAIN @ \cup {slot} |->
                                IF t = slot THEN [at |-> at, id |-> s.history[at].id]
                                ELSE @[t]]]
  ELSE s

PushTracked(s, slot, e) == Track(Push(s, e), slot, Len(s.history) + 1)

ShiftsLaterOnly(at, inserted) == IF at > inserted THEN at + 1 ELSE at    \* mutant

\* shift_streaming_indices_for_insert_at
Shifted(at, inserted) == IF at >= inserted THEN at + 1 ELSE at

\* An index beyond the history is taken for its end.
Clamped(s, at) == IF at > Len(s.history) THEN Len(s.history) + 1 ELSE at

\* insert_entry_at, at a clamped index.
InsertEntryAt(s, at, e) ==
  [s EXCEPT !.history = InsertAt(@, at, [e EXCEPT !.id = s.next]), !.next = @ + 1,
            !.tracked = [slot \in DOMAIN @ |-> MovedTo(@[slot], Shifted(@[slot].at, at))]]

\* with_entry_at_mut: a token of generation g onto the entry at a tracked index,
\* if it is of the kind the caller expects.
AppendTo(s, slot, kind, g) ==
  IF Tracks(s, slot) /\ At(s, slot) \in DOMAIN s.history
     /\ s.history[At(s, slot)].kind = kind
  THEN [s EXCEPT !.history[At(s, slot)].from = @ \cup {g}]
  ELSE s

-----------------------------------------------------------------------------
(* Streaming entries (chat_session.rs) *)

\* ensure_assistant_entry
EnsureAssistant(s) ==
  IF Tracks(s, AssistantSlot) \/ s.phase # "Streaming"
  THEN s
  ELSE PushTracked(s, AssistantSlot, Entry("Assistant", NoCall, {}, TRUE))

AlwaysAtEnd(s, e) == PushTracked(s, ThinkingSlot, e)                    \* mutant

\* Reasoning that arrives after content goes before the content's entry.
PlaceThinking(s, e) ==
  LET at == Clamped(s, At(s, AssistantSlot))
  IN IF Tracks(s, AssistantSlot)
     THEN Track(InsertEntryAt(s, at, e), ThinkingSlot, at)
     ELSE PushTracked(s, ThinkingSlot, e)

\* begin_thinking
BeginThinking(s) ==
  IF Tracks(s, ThinkingSlot) \/ s.phase # "Streaming"
  THEN s
  ELSE PlaceThinking(s, Entry("Thinking", NoCall, {}, TRUE))

\* on_stream_token: the first token of a Sending session starts its streaming.
AppendToken(s0, g, thinking) ==
  LET s == ToPhase(s0, OnFirstToken(s0.phase))
  IN IF thinking
     THEN AppendTo(BeginThinking(s), ThinkingSlot, "Thinking", g)
     ELSE AppendTo(EnsureAssistant(s), AssistantSlot, "Assistant", g)

\* begin_tool_call: the entry is pushed in any phase, tracked in Streaming only.
BeginToolCall(s, g, n) ==
  PushTracked(EnsureAssistant(s), CallSlot(n), Entry("ToolCall", <<g, n>>, {}, FALSE))

\* append_tool_call_delta: without a tracked index the arguments are dropped.
AppendToolCallDelta(s, g, n) ==
  IF Tracks(s, CallSlot(n)) /\ At(s, CallSlot(n)) \in DOMAIN s.history
     /\ s.history[At(s, CallSlot(n))].kind = "ToolCall"
  THEN [s EXCEPT !.history[At(s, CallSlot(n))].whole = TRUE]
  ELSE s

\* The last entry of a kind, whichever call it names or one call's: 0 if none.
LastOf(s, kind, calls) ==
  LET matching == {i \in DOMAIN s.history :
                     s.history[i].kind = kind /\ s.history[i].call \in calls}
  IN IF matching = {} THEN 0 ELSE Max(matching)

FirstCall(s) ==                                                          \* mutant
  LET calls == {i \in DOMAIN s.history : s.history[i].kind = "ToolCall"}
  IN IF calls = {} THEN 0 ELSE Min(calls)

\* with_last_matching_mut in finalize_tool_call: any tool call matches.
LastCall(s) == LastOf(s, "ToolCall", {e.call : e \in ToSet(s.history)})

\* finalize_tool_call: id and arguments of the last tool call are overwritten.
FinalizeToolCall(s, g, n) ==
  IF LastCall(s) = 0
  THEN Push(s, Entry("ToolCall", <<g, n>>, {}, TRUE))
  ELSE [s EXCEPT !.history[LastCall(s)].call = <<g, n>>,
                 !.history[LastCall(s)].whole = TRUE]

\* begin_tool_result: no placeholder outside Streaming.
BeginToolResult(s, call) ==
  IF s.phase = "Streaming"
  THEN PushTracked(s, ResultSlot(call), Entry("ToolResult", call, {}, FALSE))
  ELSE s

AlwaysPushed(s, call) == Push(s, Entry("ToolResult", call, {}, TRUE))    \* mutant

\* finalize_tool_result.  Its caller runs it in Sending, where no result index
\* is tracked: the placeholder is found by its call, or a result is pushed.
FinalizeToolResult(s, call) ==
  LET last == LastOf(s, "ToolResult", {call})
  IN IF last = 0
     THEN Push(s, Entry("ToolResult", call, {}, TRUE))
     ELSE [s EXCEPT !.history[last].whole = TRUE]

\* finish_streaming; the timings it finalizes are left out.
FinishStreaming(s, preserve) ==
  LET t == IF preserve THEN EnsureAssistant(s) ELSE s
  IN ToPhase(t, OnStreamCompletedFinished(t.phase))

\* cancel_streaming
CancelStreaming(s) ==
  LET t == EnsureAssistant(s) IN ToPhase(t, Cancel(t.phase))

\* remove_trailing: the entries that stay, of the first k.
Without(h, dropped) ==
  LET kept[k \in 0..Len(h)] == IF k = 0 THEN <<>>
                               ELSE IF k \in dropped THEN kept[k - 1]
                               ELSE Append(kept[k - 1], h[k])
  IN kept[Len(h)]

\* reset_streaming_entries_for_retry: the tracked entries are removed.
ResetForRetry(s) ==
  [s EXCEPT !.history = Without(@, {At(s, slot) : slot \in DOMAIN s.tracked}),
            !.tracked = NoTracking]

Untouched(s) == s                                                        \* mutant

\* force_exclude_dangling_tool_calls
SweepDangling(s) == [s EXCEPT !.history = ExcludeIncomplete(@)]

\* normalize_step at i, if that opens a loop.  It takes the entries out, which
\* shifts no tracked index, and puts them back with insert_entry_at, which does.
NormalizeStep(s, i) ==
  LET back == LoopEnd(s.history, i) - Slipped(s.history, i)
  IN IF OpensLoop(s.history, i)
     THEN [s EXCEPT !.history = MoveInterstitials(@, i),
                    !.tracked = [slot \in DOMAIN @ |->
                                   IF @[slot].at >= back
                                   THEN MovedTo(@[slot], @[slot].at + Slipped(s.history, i))
                                   ELSE @[slot]]]
     ELSE s

\* normalize_loop_layout
Normalized(s) ==
  LET pass[i \in 0..Len(s.history)] == IF i = 0 THEN s ELSE NormalizeStep(pass[i - 1], i)
  IN pass[Len(s.history)]

-----------------------------------------------------------------------------
(* The session actor *)

Fresh == [st |-> "queued", started |-> 0, deltas |-> 0, received |-> 0]
NoBatch == [gen |-> 0, left |-> 0]

Init ==
  /\ session = [phase |-> "Idle", history |-> <<>>, tracked |-> NoTracking, next |-> 1]
  /\ guard = 0 /\ buffered = FALSE /\ queue = 0 /\ idle = 0
  /\ inbox = <<>> /\ llmBox = <<>> /\ bridge = 0 /\ task = 0 /\ tombstone = FALSE
  /\ stream = <<>> /\ toolBox = <<>> /\ open = NoBatch /\ running = {}
  /\ announced = {} /\ budget \in Budgets

Spend(kind) == budget[kind] > 0 /\ budget' = [budget EXCEPT ![kind] = @ - 1]

Note(type, g) == [type |-> type, gen |-> g]
CallNote(type, g, n) == [type |-> type, gen |-> g, call |-> n]
Completed(g, reason) == [type |-> "StreamCompleted", gen |-> g, reason |-> reason]
Send(g, origin) == [type |-> "SendToLlmProvider", gen |-> g, origin |-> origin]

\* The prompt is assembled from the history and SendToLlmProvider published.
\* `rest` is what the session actor still has to handle.
Dispatch(rest, origin) ==
  LET g == Len(stream) + 1
  IN /\ stream' = Append(stream, Fresh)
     /\ inbox' = Append(rest, Send(g, origin))
     /\ llmBox' = Append(llmBox, Send(g, origin))

\* continue_tool_loop
ContinueToolLoop(s, rest) ==
  /\ session' = ToPhase(Normalized(s), BeginStreaming(s.phase))
  /\ Dispatch(rest, "ToolContinuation")

NotLlm == UNCHANGED <<bridge, task, tombstone>>

\* handle_enqueue_user_message.  The idle path assembles the history as it is.
HandleEnqueueUserMessage ==
  /\ \/ /\ session.phase = "Idle" /\ Spend("turn")
        /\ session' = ToPhase(Push(session, Plain("User")), BeginStreaming(session.phase))
        /\ Dispatch(inbox, "User")
        /\ UNCHANGED queue
     \/ /\ session.phase # "Idle" /\ Spend("queued")
        /\ queue' = queue + 1
        /\ UNCHANGED <<session, inbox, llmBox, stream>>
  /\ NotLlm /\ UNCHANGED <<guard, buffered, idle, toolVars>>

\* handle_idle_transition and dispatch_user_message of the queue actor: the loops
\* are normalized, the phase is left in Sending.
DispatchQueued ==
  /\ idle > 0 /\ idle' = idle - 1
  /\ queue > 0 /\ queue' = queue - 1
  /\ LET s == Normalized(Push(session, Plain("User")))
     IN session' = ToPhase(s, BeginSending(s.phase))
  /\ Dispatch(inbox, "User")
  /\ NotLlm /\ UNCHANGED <<guard, buffered, toolVars, budget>>

\* The same with an empty queue.
IgnoreIdle ==
  /\ idle > 0 /\ idle' = idle - 1 /\ queue = 0
  /\ UNCHANGED <<session, guard, buffered, queue, inbox, llmVars, stream, toolVars, budget>>

\* handle_push_chat_entry, by a plugin's system entry.
HandlePushChatEntry ==
  /\ Spend(IF session.phase = "Sending" THEN "notice" ELSE "noticeMid")
  /\ session' = Push(session, Plain("System"))
  /\ UNCHANGED <<guard, buffered, queue, idle, inbox, llmVars, stream, toolVars>>

\* on_retry_stalled_session
HandleRetryStalledSession ==
  /\ session.phase # "Idle" /\ guard # 0 /\ Spend("retry")
  /\ session' = ToPhase(SweepDangling(ResetForRetry(session)),
                        BeginStreaming(session.phase))
  /\ Dispatch(inbox, "User")
  /\ NotLlm /\ UNCHANGED <<guard, buffered, queue, idle, toolVars>>

\* The confirmed cancel prompt: cancel_stream_and_drain by the frontend.
EscConfirm ==
  /\ session.phase # "Idle" /\ Spend("esc")
  /\ session' = CancelStreaming(session)
  /\ queue' = 0 /\ bridge' = bridge + 1
  /\ UNCHANGED <<guard, buffered, idle, inbox, llmBox, task, tombstone, stream, toolVars>>

Handle(type) == inbox # <<>> /\ Head(inbox).type = type

\* A handler that changes nothing but the session.
HandleWith(type, Apply(_)) ==
  /\ Handle(type)
  /\ session' = Apply(Head(inbox))
  /\ inbox' = Tail(inbox)
  /\ UNCHANGED <<guard, buffered, queue, idle, llmVars, stream, toolVars, budget>>

HandleStreamToken ==
  HandleWith("StreamToken", LAMBDA m : AppendToken(session, m.gen, m.thinking))
HandleToolUseStarted ==
  HandleWith("ToolUseStarted", LAMBDA m : BeginToolCall(session, m.gen, m.call))
HandleToolCallStreaming ==
  HandleWith("ToolCallStreaming", LAMBDA m : AppendToolCallDelta(session, m.gen, m.call))
HandleToolCallReceived ==
  HandleWith("ToolCallReceived", LAMBDA m : FinalizeToolCall(session, m.gen, m.call))
HandleToolExecutionStarted ==
  HandleWith("ToolExecutionStarted", LAMBDA m : BeginToolResult(session, <<m.gen, m.call>>))

\* on_tool_execution_completed drops the result of a session that is not Sending.
HandleToolExecutionCompleted ==
  HandleWith("ToolExecutionCompleted",
             LAMBDA m : IF session.phase = "Sending"
                        THEN FinalizeToolResult(session, <<m.gen, m.call>>)
                        ELSE session)

\* on_send_to_llm_provider
HandleSendToLlmProvider ==
  /\ Handle("SendToLlmProvider")
  /\ guard' = Head(inbox).gen /\ inbox' = Tail(inbox)
  /\ UNCHANGED <<session, buffered, queue, idle, llmVars, stream, toolVars, budget>>

\* apply_stream_completion for a generation that is not stale.
Concluded(m) ==
  LET s == IF m.reason = "Canceled" THEN Push(session, Plain("Error")) ELSE session
      done == FinishStreaming(s, m.reason # "Canceled")
  IN CASE m.reason = "Finished" -> done
       [] m.reason = "Canceled" -> SweepDangling(done)
       [] m.reason = "ToolUse" -> ToPhase(done, BeginSending(done.phase))

\* on_stream_completed
HandleStreamCompleted ==
  LET m == Head(inbox)
      stale == guard # 0 /\ m.gen < guard
      ends == Concluded(m).phase
  IN /\ Handle("StreamCompleted") /\ NotLlm
     /\ guard' = IF stale THEN guard ELSE 0
     /\ queue' = IF ~stale /\ m.reason = "Canceled" THEN 0 ELSE queue
     /\ idle' = IF ~stale /\ ends = "Idle"
                   /\ (session.phase # "Idle" \/ m.reason = "Canceled")
                THEN idle + 1 ELSE idle
     /\ IF ~stale /\ m.reason = "ToolUse" /\ buffered
        THEN buffered' = FALSE /\ ContinueToolLoop(Concluded(m), Tail(inbox))
        ELSE /\ session' = IF stale THEN session ELSE Concluded(m)
             /\ inbox' = Tail(inbox)
             /\ UNCHANGED <<buffered, llmBox, stream>>
     /\ UNCHANGED <<toolVars, budget>>

\* on_tool_batch_completed: continue from Sending, buffer in Streaming, drop in Idle.
HandleToolBatchCompleted ==
  /\ Handle("ToolBatchCompleted") /\ NotLlm
  /\ buffered' = (buffered \/ session.phase = "Streaming")
  /\ IF session.phase = "Sending"
     THEN ContinueToolLoop(session, Tail(inbox))
     ELSE inbox' = Tail(inbox) /\ UNCHANGED <<session, llmBox, stream>>
  /\ UNCHANGED <<guard, queue, idle, toolVars, budget>>

-----------------------------------------------------------------------------
(* The LLM actor and the task of a stream *)

HandleLlm(type) == llmBox # <<>> /\ Head(llmBox).type = type /\ llmBox' = Tail(llmBox)

\* start_stream: a continuation for a cancelled session is dropped; the stream
\* that is tracked is aborted and replaced.
StartStream ==
  LET m == Head(llmBox)
      dropped == m.origin = "ToolContinuation" /\ tombstone
  IN /\ HandleLlm("SendToLlmProvider")
     /\ stream' = [stream EXCEPT ![m.gen].st = IF dropped THEN "ended" ELSE "open"]
     /\ task' = IF dropped THEN task ELSE m.gen
     /\ tombstone' = (tombstone /\ m.origin # "User")
     /\ UNCHANGED <<sessionVars, inbox, bridge, toolVars, budget>>

PublishCancel ==
  /\ bridge > 0 /\ bridge' = bridge - 1
  /\ llmBox' = Append(llmBox, [type |-> "CancelStream"])
  /\ UNCHANGED <<sessionVars, inbox, task, tombstone, stream, toolVars, budget>>

\* cancel_stream: abort, and end the turn of a tracked session.
CancelStream ==
  /\ HandleLlm("CancelStream")
  /\ tombstone' = TRUE /\ task' = 0
  /\ IF task = 0
     THEN UNCHANGED <<inbox, toolBox>>
     ELSE /\ inbox' = Append(inbox, Completed(task, "Canceled"))
          /\ toolBox' = Append(toolBox, Note("CancelToolBatch", task))
  /\ UNCHANGED <<sessionVars, bridge, stream, open, running, announced, budget>>

\* The task of the tracked generation publishes `m`; an aborted one is silent.
Emit(to, m) ==
  /\ task # 0 /\ stream[task].st = "open"
  /\ stream' = [stream EXCEPT ![task] = to]
  /\ inbox' = Append(inbox, m)
  /\ UNCHANGED <<sessionVars, llmBox, bridge, tombstone>>

Calls == stream[task]

EmitToken(thinking) ==
  /\ Spend(IF thinking THEN "think" ELSE "text")
  /\ task # 0 /\ Emit(Calls, [type |-> "StreamToken", gen |-> task, thinking |-> thinking])
  /\ UNCHANGED <<task, toolVars>>

\* ToolUseStart: calls are reported complete one by one before the next begins,
\* or all of them when the last has ended.
EmitToolUseStarted ==
  /\ task # 0 /\ Calls.started < MaxCalls /\ Calls.deltas = Calls.started
  /\ Calls.received \in {0, Calls.started}
  /\ Spend(IF Calls.started = 0 THEN "toolUse" ELSE "parallel")
  /\ Emit([Calls EXCEPT !.started = @ + 1],
          CallNote("ToolUseStarted", task, Calls.started + 1))
  /\ UNCHANGED <<task, toolVars>>

EmitToolCallStreaming ==
  /\ task # 0 /\ Calls.deltas < Calls.started
  /\ Emit([Calls EXCEPT !.deltas = @ + 1],
          CallNote("ToolCallStreaming", task, Calls.deltas + 1))
  /\ UNCHANGED <<task, toolVars, budget>>

EmitToolCallReceived ==
  /\ task # 0 /\ Calls.received < Calls.deltas
  /\ Emit([Calls EXCEPT !.received = @ + 1],
          CallNote("ToolCallReceived", task, Calls.received + 1))
  /\ UNCHANGED <<task, toolVars, budget>>

\* handle_done_event without calls; the LLM actor stops tracking the session.
EmitFinished ==
  /\ task # 0 /\ Calls.started = 0
  /\ Emit([Calls EXCEPT !.st = "ended"], Completed(task, "Finished"))
  /\ task' = 0
  /\ UNCHANGED <<toolVars, budget>>

\* handle_done_event with calls: the completion, then the batch.
EmitToolUse ==
  /\ task # 0 /\ Calls.started > 0 /\ Calls.received = Calls.started
  /\ Emit([Calls EXCEPT !.st = "ended"], Completed(task, "ToolUse"))
  /\ toolBox' = Append(toolBox, Note("ExecuteToolBatch", task))
  /\ UNCHANGED <<task, open, running, announced, budget>>

-----------------------------------------------------------------------------
(* The tool orchestrator and the tools *)

HandleTool(type) ==
  /\ toolBox # <<>> /\ Head(toolBox).type = type /\ toolBox' = Tail(toolBox)
  /\ UNCHANGED <<sessionVars, llmVars, stream, announced>>

CallsOf(g) == {<<g, n>> : n \in 1..stream[g].started}

\* handle_execute_tool_batch replaces a batch that is still pending.
ExecuteToolBatch ==
  LET g == Head(toolBox).gen
  IN /\ HandleTool("ExecuteToolBatch")
     /\ open' = [gen |-> g, left |-> stream[g].started]
     /\ running' = running \cup CallsOf(g)
     /\ UNCHANGED <<inbox, budget>>

\* handle_cancel_tool_batch aborts the batch; a call may be past its last await.
CancelToolBatch ==
  /\ HandleTool("CancelToolBatch")
  /\ open' = NoBatch
  /\ \/ running' = {c \in running : c[1] # open.gen} /\ UNCHANGED budget
     \/ (\E c \in running : c[1] = open.gen) /\ UNCHANGED running /\ Spend("late")
  /\ UNCHANGED inbox

\* handle_tool_execution_completed counts any result of the session.
CountToolResult ==
  /\ HandleTool("ToolExecutionCompleted")
  /\ open' = CASE open.left = 0 -> open
               [] open.left = 1 -> NoBatch
               [] OTHER -> [open EXCEPT !.left = @ - 1]
  /\ inbox' = IF open.left = 1 THEN Append(inbox, Note("ToolBatchCompleted", open.gen))
              ELSE inbox
  /\ UNCHANGED <<running, budget>>

ToolStarts(c) ==
  /\ c \in running \ announced /\ Spend("announced")
  /\ announced' = announced \cup {c}
  /\ inbox' = Append(inbox, CallNote("ToolExecutionStarted", c[1], c[2]))
  /\ UNCHANGED <<sessionVars, llmVars, stream, toolBox, open, running>>

ToolFinishes(c) ==
  /\ running' = running \ {c}
  /\ inbox' = Append(inbox, CallNote("ToolExecutionCompleted", c[1], c[2]))
  /\ toolBox' = Append(toolBox, CallNote("ToolExecutionCompleted", c[1], c[2]))
  /\ UNCHANGED <<sessionVars, llmVars, stream, open, announced, budget>>

-----------------------------------------------------------------------------
Handlers ==
  \/ HandleStreamToken \/ HandleToolUseStarted \/ HandleToolCallStreaming
  \/ HandleToolCallReceived \/ HandleToolExecutionStarted
  \/ HandleToolExecutionCompleted \/ HandleSendToLlmProvider
  \/ HandleStreamCompleted \/ HandleToolBatchCompleted
Llm ==
  \/ StartStream \/ PublishCancel \/ CancelStream
  \/ \E thinking \in BOOLEAN : EmitToken(thinking)
  \/ EmitToolUseStarted \/ EmitToolCallStreaming \/ EmitToolCallReceived
  \/ EmitFinished \/ EmitToolUse
Tools ==
  \/ ExecuteToolBatch \/ CancelToolBatch \/ CountToolResult
  \/ \E c \in running : ToolStarts(c) \/ ToolFinishes(c)

Next ==
  \/ HandleEnqueueUserMessage \/ DispatchQueued \/ IgnoreIdle \/ HandlePushChatEntry
  \/ HandleRetryStalledSession \/ EscConfirm
  \/ Handlers \/ Llm \/ Tools

Spec == Init /\ [][Next]_vars

-----------------------------------------------------------------------------
History == session.history
CallIds == {NoCall} \cup {<<g, n>> : g \in DOMAIN stream, n \in 1..MaxCalls}

\* Every variable holds a value of its kind; indices are tracked while streaming
\* only, by one of the four slots of StreamingPhase.
TypeOK ==
  /\ session.phase \in Phases /\ session.next \in Nat
  /\ \A k \in DOMAIN History :
       /\ History[k].id \in 1..(session.next - 1) /\ History[k].kind \in Kinds
       /\ History[k].call \in CallIds /\ History[k].from \subseteq DOMAIN stream
       /\ History[k].whole \in BOOLEAN /\ History[k].excluded \in BOOLEAN
  /\ DOMAIN session.tracked \subseteq
       {AssistantSlot, ThinkingSlot} \cup {CallSlot(n) : n \in 1..MaxCalls}
       \cup {ResultSlot(c) : c \in CallIds}
  /\ session.phase # "Streaming" => session.tracked = NoTracking
  /\ guard \in 0..Len(stream) /\ task \in 0..Len(stream) /\ open.gen \in 0..Len(stream)
  /\ open.left \in 0..MaxCalls /\ running \cup announced \subseteq CallIds
  /\ buffered \in BOOLEAN /\ tombstone \in BOOLEAN
  /\ queue \in Nat /\ idle \in Nat /\ bridge \in Nat /\ budget \in [Inputs -> Nat]
  /\ \A g \in DOMAIN stream : stream[g].st \in {"queued", "open", "ended"}
                              /\ stream[g].received <= stream[g].deltas
                              /\ stream[g].deltas <= stream[g].started

\* An index the phase machine tracks is the index of the entry it was set for,
\* whatever was pushed, inserted or removed meanwhile: a token, a delta or a
\* retry's removal never hits another entry.
IndicesOwnEntries ==
  \A slot \in DOMAIN session.tracked :
     LET t == session.tracked[slot]
     IN t.at \in DOMAIN History /\ History[t.at].id = t.id

\* begin_thinking: the reasoning of a reply stands before its content, also when
\* the provider sends it after.
ThinkingFirst ==
  Tracks(session, ThinkingSlot) /\ Tracks(session, AssistantSlot)
    => At(session, ThinkingSlot) < At(session, AssistantSlot)

CallEvents == {"ToolUseStarted", "ToolCallStreaming", "ToolCallReceived"}
Reported(g) == \A m \in ToSet(inbox) : m.type \in CallEvents => m.gen # g

Canceling == bridge > 0 \/ tombstone \/ \E m \in ToSet(llmBox) : m.type = "CancelStream"

\* A batch executes calls the history shows: once the session actor has seen the
\* calls of the batch that is open, each has an entry of its own, with its id and
\* its complete arguments, unless the user has cancelled the turn.
ReceivedCallsWhole ==
  open.gen # 0 /\ Reported(open.gen) /\ ~Canceling
    => \A c \in CallsOf(open.gen) :
         \E e \in ToSet(History) : e.kind = "ToolCall" /\ e.call = c /\ e.whole

Answered(call) ==
  \E e \in ToSet(History) : e.kind = "ToolResult" /\ e.call = call /\ e.whole

AtRest ==
  /\ session.phase = "Idle" /\ inbox = <<>> /\ llmBox = <<>> /\ toolBox = <<>>
  /\ bridge = 0 /\ idle = 0 /\ running = {}
  /\ task = 0 \/ stream[task].st = "ended"

\* When everything has come to rest in Idle, no call without a result is left in
\* context for the next turn's prompt: a cancel excluded those it interrupted.
NoDanglingCall ==
  AtRest => \A e \in ToSet(History) :
              e.kind = "ToolCall" => e.excluded \/ Answered(e.call)

\* Committed history is final: a call that has its result keeps its id, whatever
\* arrives for the calls of a later reply.
AnsweredCallsKept ==
  [][\A e \in ToSet(History) :
       e.kind = "ToolCall" /\ Answered(e.call)
         => \E f \in ToSet(History') : f.id = e.id /\ f.call = e.call]_vars

\* However a tool reports its start and its end, a call has one result entry.
OneResultPerCall ==
  \A j, k \in DOMAIN History :
     /\ History[j].kind = "ToolResult" /\ History[k].kind = "ToolResult"
     /\ History[j].call = History[k].call
     => j = k

\* What entries_to_messages takes for granted of the editor: every call and every
\* result in context stands in a complete loop with nothing between the two.
WellFormed(h) ==
  \A k \in DOMAIN h :
     h[k].kind \in {"ToolCall", "ToolResult"} /\ ~h[k].excluded
       => \E i \in LoopStarts(h) :
            k \in LoopOf(h, i) /\ IsComplete(h, i) /\ Slipped(h, i) = 0

\* continue_tool_loop dispatches a history whose loops are whole.
ContinuesWithWholeLoops ==
  [][Len(stream') > Len(stream) /\ inbox'[Len(inbox')].origin = "ToolContinuation"
       => WellFormed(History')]_vars

\* A reply's content goes to an entry of its own: nothing mixes the tokens of two
\* generations.
OneReplyPerEntry == \A k \in DOMAIN History : Cardinality(History[k].from) <= 1

=============================================================================
