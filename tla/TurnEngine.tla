----------------------------- MODULE TurnEngine -----------------------------
(* One chat session's turn, from the user's submit to the end of the tool    *)
(* loop, across the four actors that drive it and the tasks they spawn:      *)
(*   - the frontend (intent handlers) writes the shared session state and    *)
(*     hands its messages to the bridge, which publishes each one from a     *)
(*     task of its own;                                                      *)
(*   - SessionPersistenceActor owns the turn: dispatch, stream events, tool  *)
(*     loop, cancel, stall retry.  Its handlers release the state lock       *)
(*     between reading, changing the phase and publishing, so each is split  *)
(*     at those points (`job`);                                              *)
(*   - QueueActor pops queued messages on an Idle event, split in the same   *)
(*     way (`hand`);                                                         *)
(*   - LlmActor starts and aborts the stream task of the session;            *)
(*   - ToolOrchestratorActor runs a batch and reports its end.               *)
(* publish() appends atomically to the mailbox of every subscriber: the bus  *)
(* is one actor with one FIFO mailbox, and a late delivery is a late         *)
(* receive.  A generation is the `dispatched_at` of a SendToLlmProvider: the *)
(* index of its entry in `stream`.                                           *)
EXTENDS PhaseMachine, Integers, Sequences, FiniteSets

CONSTANTS Msgs,     \* the texts the user may submit, each at most once
          Modes,    \* the input modes in use, a subset of {"Queue", "Steer"}
          Budgets   \* how often each bounded input or mishap may happen, per instance

\* Everything that is bounded in a finite instance, by name:
\*   esc       ESC-confirm (drains the buffers)    interrupt  headless Interrupt
\*   cancel    CancelStream from a plugin or the task tool's timeout
\*   retry     RetryStalledSession                 resume     EnqueueResumeTurn
\*   resubmit  submitting text a cancel restored, with nothing added
\*   toolUse   streams that end with tool calls    error      streams that fail
\*   silent    streams that end before any token   factory    no LLM factory
\*   late      publishes of an aborted stream task, results of an aborted tool
Inputs == {"esc", "interrupt", "cancel", "retry", "resume", "resubmit",
           "toolUse", "error", "silent", "factory", "late"}

ASSUME BudgetAssumption == Budgets \subseteq [Inputs -> Nat]
ASSUME ModesAssumption == Modes \subseteq {"Queue", "Steer"}

VARIABLES
  \* shared state of the session (ChatSessionState)
  phase,        \* kind of the phase machine
  guard,        \* stream_dispatched_at: 0 is None
  queue,        \* TurnQueue: entries, first in first out
  steering,     \* SteeringBuffer: the fragments, drained as one entry
  input,        \* the texts a cancel or an error put back into the input box
  history,      \* the user entries pushed to the history, in order
  answered,     \* generations whose tool call has its result in the history
  pendingBatch, \* pending_tool_batch: the buffered batch, 0 is None
  \* SessionPersistenceActor, QueueActor
  job,          \* the dispatch the session actor is in the middle of
  hand,         \* the entry the queue actor is in the middle of dispatching
  \* LlmActor
  tracked,      \* sessions[sid]: its generation, NoStamp before one, 0 if absent
  tombstone,    \* sid \in cancelled_sessions
  task,         \* tasks[sid]: the generation its handle runs, 0 if absent
  \* spawned tasks
  stream,       \* per generation: the batch it continues, 0 for none, and how far it got
  aborted,      \* generations whose task was aborted
  running,      \* generations whose tool is running
  \* ToolOrchestratorActor
  batch,        \* pending[sid]: the generation of the batch, 0 if absent
  \* mailboxes, the bridge, the user
  sessionBox, llmBox, toolBox,
  idleEvents,   \* SessionPhaseChanged(_, Idle) in the queue actor's mailbox
  cancelPrompt, \* the "cancel the stream?" prompt is showing
  bridge,       \* frontend messages not yet published, in no order
  submitted,    \* texts the user has submitted
  overwritten,  \* restored texts that a later restore replaced
  budget

sessionVars == <<phase, guard, queue, steering, input, history, answered,
                 pendingBatch>>
llmVars == <<tracked, tombstone, task>>
toolVars == <<running, batch>>
userVars == <<cancelPrompt, bridge, submitted, budget>>
vars == <<sessionVars, job, hand, llmVars, stream, aborted, toolVars,
          sessionBox, llmBox, toolBox, idleEvents, userVars, overwritten>>

-----------------------------------------------------------------------------
(* Data *)

Texts == SUBSET Msgs                \* an entry: the submitted texts it carries
Origins == {"User", "ToolContinuation"}
Reasons == {"ToolUse", "Finished", "Error", "Canceled"}
StreamStates == {"stamped", "dropped", "open", "tokens", "handoff",
                 "toolUse", "ended", "stopped"}
NoStamp == -1

NoJob == [at |-> "ready"]
Jobs == {NoJob}
        \cup [at : {"resume"}]
        \cup [at : {"drain", "begin", "send"}, origin : Origins, early : BOOLEAN,
              batch : Nat, gen : Nat]
NoHand == [at |-> "ready"]
Hands == {NoHand} \cup [at : {"popped"}, entry : Texts] \cup [at : {"send"}]

EntryMsg == [type : {"EnqueueUserMessage", "SubmitSteeringMessage"}, entry : Texts]
RetryMsg == [type : {"RetryStalledSession"}]
ResumeMsg == [type : {"EnqueueResumeTurn"}, nth : Nat]
SendMsg == [type : {"SendToLlmProvider"}, gen : Nat, origin : Origins]
CompletedMsg == [type : {"StreamCompleted"}, gen : Nat, reason : Reasons]
CancelMsg == [type : {"CancelStream"}, nth : Nat]
BatchMsg == [type : {"ExecuteToolBatch", "ToolExecutionCompleted",
                     "ToolBatchCompleted", "StreamToken"}, gen : Nat]
CancelBatchMsg == [type : {"CancelToolBatch"}]
SessionMsg == EntryMsg \cup RetryMsg \cup ResumeMsg \cup SendMsg \cup CompletedMsg
              \cup BatchMsg
LlmMsg == SendMsg \cup CompletedMsg \cup CancelMsg
ToolMsg == BatchMsg \cup CancelBatchMsg
BridgeMsg == EntryMsg \cup ResumeMsg \cup CancelMsg

Send(gen, origin) == [type |-> "SendToLlmProvider", gen |-> gen, origin |-> origin]
Completed(gen, reason) == [type |-> "StreamCompleted", gen |-> gen, reason |-> reason]
Enqueue(entry) == [type |-> "EnqueueUserMessage", entry |-> entry]
Steer(entry) == [type |-> "SubmitSteeringMessage", entry |-> entry]
Note(type, gen) == [type |-> type, gen |-> gen]

Now == Len(stream) + 1              \* Timestamp::now(), taken to be strictly increasing
Stamped(of) == Append(stream, [of |-> of, st |-> "stamped"])

Charge(kinds) ==
  /\ \A k \in kinds : budget[k] > 0
  /\ budget' = [k \in Inputs |-> IF k \in kinds THEN budget[k] - 1 ELSE budget[k]]
Spend(kind) == Charge({kind})

Join(entries) == UNION {entries[i] : i \in DOMAIN entries}

LoseText(text) == UNCHANGED <<input, overwritten>>                    \* mutant

\* chat_input_mut().replace_all(text), only called for a non-empty text.
RestoreToInput(text) ==
  IF text = {}
  THEN UNCHANGED <<input, overwritten>>
  ELSE input' = text /\ overwritten' = overwritten \cup input

-----------------------------------------------------------------------------
Init ==
  /\ phase = "Idle" /\ guard = 0 /\ queue = <<>> /\ steering = {} /\ input = {}
  /\ history = <<>> /\ answered = {} /\ pendingBatch = 0
  /\ job = NoJob /\ hand = NoHand
  /\ tracked = 0 /\ tombstone = FALSE /\ task = 0
  /\ stream = <<>> /\ aborted = {} /\ running = {} /\ batch = 0
  /\ sessionBox = <<>> /\ llmBox = <<>> /\ toolBox = <<>> /\ idleEvents = 0
  /\ cancelPrompt = FALSE /\ bridge = {} /\ submitted = {} /\ overwritten = {} /\ budget \in Budgets

-----------------------------------------------------------------------------
(* Frontend and plugins *)

\* handle_submit_message: the box is emptied and its text routed by input mode
\* and phase.  `new` is what the user typed behind what the box already held.
Submit(new, mode) ==
  LET entry == input \cup new
      enqueue == mode = "Queue" \/ phase = "Idle"
  IN /\ entry # {} /\ new \cap submitted = {}
     /\ IF new = {} THEN Spend("resubmit") ELSE UNCHANGED budget
     /\ bridge' = bridge \cup {IF enqueue THEN Enqueue(entry) ELSE Steer(entry)}
     /\ submitted' = submitted \cup new
     /\ input' = {} /\ cancelPrompt' = FALSE
     /\ UNCHANGED <<phase, guard, queue, steering, history, answered, pendingBatch,
                    job, hand, llmVars, stream, aborted, toolVars, sessionBox,
                    llmBox, toolBox, idleEvents, overwritten>>

\* handle_normal_escape: on a busy session, ask before cancelling.
AskCancel ==
  /\ phase # "Idle" /\ budget["esc"] > 0 /\ ~cancelPrompt
  /\ cancelPrompt' = TRUE
  /\ UNCHANGED <<sessionVars, job, hand, llmVars, stream, aborted, toolVars, sessionBox,
                 llmBox, toolBox, idleEvents, bridge, submitted, budget, overwritten>>

CancelNth == budget["esc"] + budget["interrupt"]   \* tells two cancels apart

DrainSteeringOnly == steering' = {} /\ UNCHANGED queue                 \* mutant

\* drain_cancel_chunks empties both buffers.
DrainBuffers == steering' = {} /\ queue' = <<>>

\* The cancel prompt's confirmation: cancel_stream_and_drain, then CancelStream.
EscConfirm ==
  /\ cancelPrompt /\ Spend("esc")
  /\ cancelPrompt' = FALSE
  /\ phase' = Cancel(phase)
  /\ RestoreToInput(steering \cup Join(queue)) /\ DrainBuffers
  /\ bridge' = bridge \cup {[type |-> "CancelStream", nth |-> CancelNth]}
  /\ UNCHANGED <<guard, history, answered, pendingBatch, job, hand, llmVars, stream,
                 aborted, toolVars, sessionBox, llmBox, toolBox, idleEvents,
                 submitted>>

\* handle_interrupt with a target: cancel_streaming, nothing drained.
Interrupt ==
  /\ Spend("interrupt")
  /\ cancelPrompt' = FALSE
  /\ phase' = Cancel(phase)
  /\ bridge' = bridge \cup {[type |-> "CancelStream", nth |-> CancelNth]}
  /\ UNCHANGED <<guard, queue, steering, input, history, answered, pendingBatch, job,
                 hand, llmVars, stream, aborted, toolVars, sessionBox, llmBox,
                 toolBox, idleEvents, submitted, overwritten>>

\* A bridge closure publishes from a task it spawns, so two of them may swap.
BridgePublish(m) ==
  /\ m \in bridge
  /\ bridge' = bridge \ {m}
  /\ IF m.type = "CancelStream"
     THEN llmBox' = Append(llmBox, m) /\ UNCHANGED sessionBox
     ELSE sessionBox' = Append(sessionBox, m) /\ UNCHANGED llmBox
  /\ UNCHANGED <<sessionVars, job, hand, llmVars, stream, aborted, toolVars, toolBox,
                 idleEvents, cancelPrompt, submitted, overwritten, budget>>

\* A watchdog plugin's or the task tool's CancelStream: no phase is touched.
OutsideCancel ==
  /\ Spend("cancel")
  /\ llmBox' = Append(llmBox, [type |-> "CancelStream", nth |-> 0])
  /\ UNCHANGED <<sessionVars, job, hand, llmVars, stream, aborted, toolVars, sessionBox,
                 toolBox, idleEvents, bridge, cancelPrompt, submitted, overwritten>>

\* The stall watchdog restarts a stream it has seen start and not end; its view
\* lags, so the request may come at any time after the first dispatch.
StallTrip ==
  /\ stream # <<>> /\ Spend("retry")
  /\ sessionBox' = Append(sessionBox, [type |-> "RetryStalledSession"])
  /\ UNCHANGED <<sessionVars, job, hand, llmVars, stream, aborted, toolVars, llmBox,
                 toolBox, idleEvents, bridge, cancelPrompt, submitted, overwritten>>

\* The sidebar's continue intent: the phase is looked at by its handler only.
RequestResume ==
  /\ Spend("resume")
  /\ cancelPrompt' = FALSE
  /\ bridge' = bridge \cup {[type |-> "EnqueueResumeTurn", nth |-> budget["resume"]]}
  /\ UNCHANGED <<sessionVars, job, hand, llmVars, stream, aborted, toolVars, sessionBox,
                 llmBox, toolBox, idleEvents, submitted, overwritten>>

-----------------------------------------------------------------------------
(* SessionPersistenceActor *)

NextSessionMsg(type) ==
  /\ job = NoJob /\ sessionBox # <<>> /\ Head(sessionBox).type = type
  /\ sessionBox' = Tail(sessionBox)

\* `early`: dispatched_at is taken with begin_streaming (resolve_model_and_dispatch)
\* and not at the publish.  `of`: the batch a continuation answers, 0 for none.
Dispatch(at, origin, early, of) ==
  [at |-> at, origin |-> origin, early |-> early, batch |-> of, gen |-> 0]

\* handle_enqueue_user_message up to the first unlock: idle, dispatch it from
\* here; busy, queue it.
HandleEnqueueUserMessage ==
  LET entry == Head(sessionBox).entry
  IN /\ NextSessionMsg("EnqueueUserMessage")
     /\ \/ /\ phase = "Idle"
           /\ history' = Append(history, entry)
           /\ phase' = BeginSending(phase)
           /\ job' = Dispatch("drain", "User", FALSE, 0)
           /\ UNCHANGED queue
        \/ /\ phase # "Idle"
           /\ queue' = Append(queue, entry)
           /\ UNCHANGED <<history, phase, job>>
     /\ UNCHANGED <<guard, steering, input, answered, pendingBatch, hand, llmVars,
                    stream, aborted, toolVars, llmBox, toolBox, idleEvents, userVars,
                    overwritten>>

\* handle_submit_steering_message: no phase check.
HandleSubmitSteeringMessage ==
  /\ NextSessionMsg("SubmitSteeringMessage")
  /\ steering' = steering \cup Head(sessionBox).entry
  /\ UNCHANGED <<phase, guard, queue, input, history, answered, pendingBatch, job, hand,
                 llmVars, stream, aborted, toolVars, llmBox, toolBox, idleEvents,
                 userVars, overwritten>>

\* handle_enqueue_resume_turn reads the phase under one lock ...
HandleEnqueueResumeTurn ==
  /\ NextSessionMsg("EnqueueResumeTurn")
  /\ job' = IF phase = "Idle" THEN [at |-> "resume"] ELSE NoJob
  /\ UNCHANGED <<sessionVars, hand, llmVars, stream, aborted, toolVars, llmBox, toolBox,
                 idleEvents, userVars, overwritten>>

\* ... and leaves Idle under the next, whatever the phase is by then.
ResumeTurn ==
  /\ job.at = "resume"
  /\ phase' = BeginSending(phase)
  /\ job' = Dispatch("drain", "User", TRUE, 0)
  /\ UNCHANGED <<guard, queue, steering, input, history, answered, pendingBatch, hand,
                 llmVars, stream, aborted, toolVars, sessionBox, llmBox, toolBox,
                 idleEvents, userVars, overwritten>>

\* on_retry_stalled_session: only while a generation is in flight.
HandleRetryStalledSession ==
  /\ NextSessionMsg("RetryStalledSession")
  /\ job' = IF phase # "Idle" /\ guard # 0
             THEN Dispatch("begin", "User", TRUE, 0)
             ELSE NoJob
  /\ UNCHANGED <<sessionVars, hand, llmVars, stream, aborted, toolVars, llmBox, toolBox,
                 idleEvents, userVars, overwritten>>

\* The dispatch all paths share: the steering buffer into the history, ...
DrainSteering ==
  /\ job.at = "drain"
  /\ steering' = {}
  /\ history' = IF steering = {} THEN history ELSE Append(history, steering)
  /\ job' = [job EXCEPT !.at = "begin"]
  /\ UNCHANGED <<phase, guard, queue, input, answered, pendingBatch, hand, llmVars,
                 stream, aborted, toolVars, sessionBox, llmBox, toolBox, idleEvents,
                 userVars, overwritten>>

\* ... the phase to Streaming, ...
BeginDispatch ==
  /\ job.at = "begin"
  /\ phase' = BeginStreaming(phase)
  /\ IF job.early
     THEN job' = [job EXCEPT !.at = "send", !.gen = Now] /\ stream' = Stamped(job.batch)
     ELSE job' = [job EXCEPT !.at = "send"] /\ UNCHANGED stream
  /\ UNCHANGED <<guard, queue, steering, input, history, answered, pendingBatch, hand,
                 llmVars, aborted, toolVars, sessionBox, llmBox, toolBox, idleEvents,
                 userVars, overwritten>>

\* SendToLlmProvider goes to the LLM actor and back to the session actor.
PublishSend(gen, origin) ==
  /\ sessionBox' = Append(sessionBox, Send(gen, origin))
  /\ llmBox' = Append(llmBox, Send(gen, origin))

\* ... and the request onto the bus.
SendDispatch ==
  /\ job.at = "send"
  /\ IF job.early
     THEN PublishSend(job.gen, job.origin) /\ UNCHANGED stream
     ELSE PublishSend(Now, job.origin) /\ stream' = Stamped(job.batch)
  /\ job' = NoJob
  /\ UNCHANGED <<sessionVars, hand, llmVars, aborted, toolVars, toolBox, idleEvents,
                 userVars, overwritten>>

\* on_send_to_llm_provider arms the stale-generation guard.
HandleSendToLlmProvider ==
  /\ NextSessionMsg("SendToLlmProvider")
  /\ guard' = Head(sessionBox).gen
  /\ UNCHANGED <<phase, queue, steering, input, history, answered, pendingBatch, job,
                 hand, llmVars, stream, aborted, toolVars, llmBox, toolBox, idleEvents,
                 userVars, overwritten>>

\* on_stream_token: no generation check; an idle session keeps its phase.
HandleStreamToken ==
  /\ NextSessionMsg("StreamToken")
  /\ phase' = OnFirstToken(phase)
  /\ UNCHANGED <<guard, queue, steering, input, history, answered, pendingBatch, job,
                 hand, llmVars, stream, aborted, toolVars, llmBox, toolBox, idleEvents,
                 userVars, overwritten>>

StaleToo(gen) == guard # 0 /\ gen <= guard                            \* mutant

\* The stale-generation guard of apply_stream_completion.
Stale(gen) == guard # 0 /\ gen < guard

NeverAnnounced(reason, ends) == FALSE                                 \* mutant

AnnouncesToolUse(reason, ends) == phase # "Idle"                      \* mutant

\* The turn reached Idle, or a cancel found the session there: the queue actor is
\* told.
Announced(reason, ends) ==
  ends = "Idle" /\ (phase # "Idle" \/ reason = "Canceled")

\* pending_tool_batch.take(), then continue_tool_loop.
ContinueBuffered ==
  /\ pendingBatch' = 0
  /\ job' = Dispatch("drain", "ToolContinuation", FALSE, pendingBatch)

\* on_stream_completed.  A stale generation is dropped.  Otherwise the guard is
\* cleared, the phase ends (and re-enters Sending for ToolUse), an error or cancel
\* returns the queue to the input box, and a batch buffered early is continued.
HandleStreamCompleted ==
  LET m == Head(sessionBox)
      finished == OnStreamCompletedFinished(phase)
      ends == IF m.reason = "ToolUse" THEN BeginSending(finished) ELSE finished
  IN /\ NextSessionMsg("StreamCompleted")
     /\ \/ /\ Stale(m.gen)
           /\ UNCHANGED <<phase, guard, queue, input, overwritten, idleEvents,
                          pendingBatch, job>>
        \/ /\ ~Stale(m.gen)
           /\ guard' = 0
           /\ phase' = ends
           /\ IF m.reason \in {"Error", "Canceled"}
              THEN queue' = <<>> /\ RestoreToInput(Join(queue))
              ELSE UNCHANGED <<queue, input, overwritten>>
           /\ idleEvents' = IF Announced(m.reason, ends) THEN idleEvents + 1
                            ELSE idleEvents
           /\ IF m.reason = "ToolUse" /\ pendingBatch # 0
              THEN ContinueBuffered
              ELSE UNCHANGED <<pendingBatch, job>>
     /\ UNCHANGED <<steering, history, answered, hand, llmVars, stream, aborted,
                    toolVars, llmBox, toolBox, userVars>>

AcceptsWhileStreaming == phase = "Streaming"                          \* mutant

\* on_tool_execution_completed drops the result of a session that is not Sending.
AcceptsResult == phase = "Sending"

\* on_tool_execution_completed: the result goes into the history.
HandleToolExecutionCompleted ==
  /\ NextSessionMsg("ToolExecutionCompleted")
  /\ answered' = IF AcceptsResult THEN answered \cup {Head(sessionBox).gen}
                 ELSE answered
  /\ UNCHANGED <<phase, guard, queue, steering, input, history, pendingBatch, job, hand,
                 llmVars, stream, aborted, toolVars, llmBox, toolBox, idleEvents,
                 userVars, overwritten>>

ContinuesToo == phase # "Idle"                                        \* mutant

\* on_tool_batch_completed continues from Sending only.
ContinuesNow == phase = "Sending"

\* on_tool_batch_completed: continue from Sending, buffer in Streaming, drop in Idle.
HandleToolBatchCompleted ==
  LET of == Head(sessionBox).gen
  IN /\ NextSessionMsg("ToolBatchCompleted")
     /\ job' = IF ContinuesNow THEN Dispatch("drain", "ToolContinuation", FALSE, of)
               ELSE NoJob
     /\ pendingBatch' = IF phase = "Streaming" THEN of ELSE pendingBatch
     /\ UNCHANGED <<phase, guard, queue, steering, input, history, answered, hand,
                    llmVars, stream, aborted, toolVars, llmBox, toolBox, idleEvents,
                    userVars, overwritten>>

-----------------------------------------------------------------------------
(* QueueActor *)

\* handle_idle_transition: the queue's head, else the steering buffer, whatever
\* the phase is by now.
PopOnIdle ==
  /\ hand = NoHand /\ idleEvents > 0
  /\ idleEvents' = idleEvents - 1
  /\ \/ /\ queue # <<>>
        /\ hand' = [at |-> "popped", entry |-> Head(queue)]
        /\ queue' = Tail(queue)
        /\ UNCHANGED steering
     \/ /\ queue = <<>> /\ steering # {}
        /\ hand' = [at |-> "popped", entry |-> steering]
        /\ steering' = {}
        /\ UNCHANGED queue
     \/ /\ queue = <<>> /\ steering = {}
        /\ UNCHANGED <<hand, queue, steering>>
  /\ UNCHANGED <<phase, guard, input, history, answered, pendingBatch, job, llmVars,
                 stream, aborted, toolVars, sessionBox, llmBox, toolBox, userVars,
                 overwritten>>

\* dispatch_user_message: entry and steering into the history, Idle to Sending.
PushPopped ==
  /\ hand.at = "popped"
  /\ history' = Append(history, hand.entry)
                \o (IF steering = {} THEN <<>> ELSE <<steering>>)
  /\ steering' = {}
  /\ phase' = BeginSending(phase)
  /\ hand' = [at |-> "send"]
  /\ UNCHANGED <<guard, queue, input, answered, pendingBatch, job, llmVars, stream,
                 aborted, toolVars, sessionBox, llmBox, toolBox, idleEvents, userVars,
                 overwritten>>

SendPopped ==
  /\ hand.at = "send"
  /\ PublishSend(Now, "User") /\ stream' = Stamped(0)
  /\ hand' = NoHand
  /\ UNCHANGED <<sessionVars, job, llmVars, aborted, toolVars, toolBox, idleEvents,
                 userVars, overwritten>>

-----------------------------------------------------------------------------
(* LlmActor *)

NextLlmMsg(type) ==
  /\ llmBox # <<>> /\ Head(llmBox).type = type

\* StreamCompleted is published to the session actor and to the LLM actor itself.
PublishCompleted(box, gen, reason) ==
  /\ sessionBox' = Append(sessionBox, Completed(gen, reason))
  /\ llmBox' = Append(box, Completed(gen, reason))

NeverSuppressed(m) == FALSE                                           \* mutant

\* A continuation that arrives for a tombstoned session.
Suppressed(m) == m.origin = "ToolContinuation" /\ tombstone

\* start_stream on a tombstoned session: the continuation is dropped.
DropContinuation ==
  LET m == Head(llmBox)
  IN /\ NextLlmMsg("SendToLlmProvider") /\ Suppressed(m)
     /\ llmBox' = Tail(llmBox)
     /\ stream' = [stream EXCEPT ![m.gen].st = "dropped"]
     /\ UNCHANGED <<sessionVars, job, hand, llmVars, aborted, toolVars, sessionBox,
                    toolBox, idleEvents, userVars, overwritten>>

NoAbort == UNCHANGED aborted                                          \* mutant

\* tasks.remove(sid), then abort.
AbortTask == aborted' = aborted \cup ({task} \ {0})

\* start_stream: a user send lifts the tombstone, the running task is aborted and
\* the session tracked; with a factory the new stream is spawned, without one the
\* turn fails at once.
StartStream ==
  LET m == Head(llmBox)
  IN /\ NextLlmMsg("SendToLlmProvider") /\ ~Suppressed(m)
     /\ tombstone' = (tombstone /\ m.origin # "User")
     /\ AbortTask
     /\ \/ /\ tracked' = m.gen /\ task' = m.gen
           /\ stream' = [stream EXCEPT ![m.gen].st = "open"]
           /\ llmBox' = Tail(llmBox)
           /\ UNCHANGED <<sessionBox, budget>>
        \/ /\ Spend("factory")
           /\ tracked' = NoStamp /\ task' = 0
           /\ stream' = [stream EXCEPT ![m.gen].st = "ended"]
           /\ PublishCompleted(Tail(llmBox), m.gen, "Error")
     /\ UNCHANGED <<sessionVars, job, hand, toolVars, toolBox, idleEvents, cancelPrompt,
                    bridge, submitted, overwritten>>

\* handle_stream_completed: no generation check.
UntrackCompleted ==
  /\ NextLlmMsg("StreamCompleted")
  /\ llmBox' = Tail(llmBox)
  /\ tracked' = IF Head(llmBox).reason \in {"Error", "Finished"} THEN 0 ELSE tracked
  /\ UNCHANGED <<sessionVars, job, hand, tombstone, task, stream, aborted, toolVars,
                 sessionBox, toolBox, idleEvents, userVars, overwritten>>

CancelsUnstamped == tracked                                           \* mutant

\* The generation of a Canceled completion: a session that never reached
\* begin_streaming has none, and takes the time of the cancel.
CancelledGen == IF tracked = NoStamp THEN Now ELSE tracked

\* cancel_stream: tombstone, abort, untrack, and end the turn of a tracked session.
CancelStream ==
  /\ NextLlmMsg("CancelStream")
  /\ tombstone' = TRUE
  /\ AbortTask
  /\ task' = 0 /\ tracked' = 0
  /\ IF tracked = 0
     THEN /\ llmBox' = Tail(llmBox)
          /\ UNCHANGED <<sessionBox, toolBox, stream>>
     ELSE /\ toolBox' = Append(toolBox, [type |-> "CancelToolBatch"])
          /\ PublishCompleted(Tail(llmBox), CancelledGen, "Canceled")
          /\ stream' = IF tracked = NoStamp
                       THEN Append(stream, [of |-> 0, st |-> "ended"])
                       ELSE stream
  /\ UNCHANGED <<sessionVars, job, hand, toolVars, idleEvents, userVars, running, batch,
                 overwritten>>

-----------------------------------------------------------------------------
(* Stream tasks.  abort() takes effect where the task next yields, so what an *)
(* aborted task was about to publish may still be published.                  *)

Gens == 1..Len(stream)

Late(g) == IF g \in aborted THEN {"late"} ELSE {}
Silent(g) == IF stream[g].st = "open" THEN {"silent"} ELSE {}

StreamStep(g, from, to) ==
  /\ stream[g].st \in from
  /\ stream' = [stream EXCEPT ![g].st = to]
  /\ UNCHANGED <<sessionVars, job, hand, llmVars, aborted, toolVars, idleEvents,
                 cancelPrompt, bridge, submitted, overwritten>>

\* The first token; later ones change nothing the first has not.
FirstToken(g) ==
  /\ StreamStep(g, {"open"}, "tokens") /\ Charge(Late(g))
  /\ sessionBox' = Append(sessionBox, Note("StreamToken", g))
  /\ UNCHANGED <<llmBox, toolBox>>

\* handle_done_event without tool calls.
StreamFinishes(g) ==
  /\ StreamStep(g, {"open", "tokens"}, "ended") /\ Charge(Late(g) \cup Silent(g))
  /\ PublishCompleted(llmBox, g, "Finished")
  /\ UNCHANGED toolBox

\* emit_stream_error, from run_stream or process_stream_events.
StreamFails(g) ==
  /\ StreamStep(g, {"open", "tokens"}, "ended")
  /\ Charge({"error"} \cup Late(g) \cup Silent(g))
  /\ PublishCompleted(llmBox, g, "Error")
  /\ UNCHANGED toolBox

\* handle_done_event with tool calls: the completion is published first, ...
StreamUsesTools(g) ==
  /\ StreamStep(g, {"open", "tokens"}, "handoff") /\ Charge({"toolUse"} \cup Late(g))
  /\ PublishCompleted(llmBox, g, "ToolUse")
  /\ UNCHANGED toolBox

\* ... then the batch.
HandOffBatch(g) ==
  /\ StreamStep(g, {"handoff"}, "toolUse") /\ Charge(Late(g))
  /\ toolBox' = Append(toolBox, Note("ExecuteToolBatch", g))
  /\ UNCHANGED <<sessionBox, llmBox>>

\* An aborted task is gone.
StreamStops(g) ==
  /\ g \in aborted
  /\ StreamStep(g, {"open", "tokens", "handoff"}, "stopped")
  /\ UNCHANGED <<sessionBox, llmBox, toolBox, budget>>

-----------------------------------------------------------------------------
(* ToolOrchestratorActor and the tool tasks.  A batch is one call here; the   *)
(* counting of a batch's calls is ToolBatches.                                *)

NextToolMsg(type) ==
  /\ toolBox # <<>> /\ Head(toolBox).type = type
  /\ toolBox' = Tail(toolBox)

\* handle_execute_tool_batch overwrites a batch that is still pending.
ExecuteToolBatch ==
  /\ NextToolMsg("ExecuteToolBatch")
  /\ batch' = Head(toolBox).gen
  /\ running' = running \cup {Head(toolBox).gen}
  /\ UNCHANGED <<sessionVars, job, hand, llmVars, stream, aborted, sessionBox, llmBox,
                 idleEvents, userVars, overwritten>>

\* handle_cancel_tool_batch: the batch is forgotten and its task aborted; a tool
\* routed to an actor, or one about to publish, is not reached by the abort.
CancelToolBatch ==
  /\ NextToolMsg("CancelToolBatch")
  /\ batch' = 0
  /\ \/ running' = running \ {batch} /\ UNCHANGED budget
     \/ batch \in running /\ UNCHANGED running /\ Spend("late")
  /\ UNCHANGED <<sessionVars, job, hand, llmVars, stream, aborted, sessionBox, llmBox,
                 idleEvents, cancelPrompt, bridge, submitted, overwritten>>

\* handle_tool_execution_completed: any result of the session counts.
CountToolResult ==
  /\ NextToolMsg("ToolExecutionCompleted")
  /\ batch' = 0
  /\ sessionBox' = IF batch = 0 THEN sessionBox
                   ELSE Append(sessionBox, Note("ToolBatchCompleted", batch))
  /\ UNCHANGED <<sessionVars, job, hand, llmVars, stream, aborted, running, llmBox,
                 idleEvents, userVars, overwritten>>

ToolFinishes(g) ==
  /\ g \in running
  /\ running' = running \ {g}
  /\ sessionBox' = Append(sessionBox, Note("ToolExecutionCompleted", g))
  /\ toolBox' = Append(toolBox, Note("ToolExecutionCompleted", g))
  /\ UNCHANGED <<sessionVars, job, hand, llmVars, stream, aborted, batch, llmBox,
                 idleEvents, userVars, overwritten>>

-----------------------------------------------------------------------------
Frontend ==
  \/ \E mode \in Modes : Submit({}, mode) \/ \E m \in Msgs : Submit({m}, mode)
  \/ AskCancel \/ EscConfirm \/ Interrupt \/ RequestResume
Plugins == OutsideCancel \/ StallTrip
SessionActor ==
  \/ HandleEnqueueUserMessage \/ HandleSubmitSteeringMessage
  \/ HandleEnqueueResumeTurn \/ ResumeTurn \/ HandleRetryStalledSession
  \/ DrainSteering \/ BeginDispatch \/ SendDispatch
  \/ HandleSendToLlmProvider \/ HandleStreamToken \/ HandleStreamCompleted
  \/ HandleToolExecutionCompleted \/ HandleToolBatchCompleted
Queue == PopOnIdle \/ PushPopped \/ SendPopped
Llm == DropContinuation \/ StartStream \/ UntrackCompleted \/ CancelStream
StreamTask(g) == FirstToken(g) \/ StreamFinishes(g) \/ StreamFails(g)
                 \/ StreamUsesTools(g) \/ HandOffBatch(g) \/ StreamStops(g)
Orchestrator == ExecuteToolBatch \/ CancelToolBatch \/ CountToolResult

Next == \/ Frontend \/ Plugins \/ \E m \in bridge : BridgePublish(m)
        \/ SessionActor \/ Queue \/ Llm \/ Orchestrator
        \/ \E g \in Gens : StreamTask(g)
        \/ \E g \in running : ToolFinishes(g)

Spec == Init /\ [][Next]_vars

-----------------------------------------------------------------------------
\* Every variable holds a value of its kind: the phase machine has three phases,
\* every mailbox only the messages its actor subscribes to, every handler in
\* flight one of the states it stops in between two locks.
TypeOK ==
  /\ phase \in Phases /\ guard \in Nat /\ queue \in Seq(Texts) /\ steering \in Texts
  /\ input \in Texts /\ history \in Seq(Texts) /\ answered \subseteq Nat
  /\ pendingBatch \in Nat /\ job \in Jobs /\ hand \in Hands
  /\ tracked \in Nat \cup {NoStamp} /\ tombstone \in BOOLEAN /\ task \in Nat
  /\ stream \in Seq([of : Nat, st : StreamStates])
  /\ aborted \subseteq Nat /\ running \subseteq Nat /\ batch \in Nat
  /\ sessionBox \in Seq(SessionMsg) /\ llmBox \in Seq(LlmMsg)
  /\ toolBox \in Seq(ToolMsg) /\ idleEvents \in Nat
  /\ cancelPrompt \in BOOLEAN /\ bridge \subseteq BridgeMsg
  /\ submitted \subseteq Msgs /\ overwritten \subseteq Msgs
  /\ budget \in [Inputs -> Nat]

-----------------------------------------------------------------------------
(* Safety *)

Carries(msg, m) == msg.type \in {"EnqueueUserMessage", "SubmitSteeringMessage"}
                   /\ m \in msg.entry

\* Where a submitted text is, one element per place it is in.
Places(m) ==
  {<<"bridge", b>> : b \in {b \in bridge : Carries(b, m)}}
  \cup {<<"mailbox", i>> : i \in {i \in DOMAIN sessionBox : Carries(sessionBox[i], m)}}
  \cup {<<"queue", i>> : i \in {i \in DOMAIN queue : m \in queue[i]}}
  \cup {<<"history", i>> : i \in {i \in DOMAIN history : m \in history[i]}}
  \cup {<<name, 0>> : name \in
          {n \in {"hand", "steering", "input", "overwritten"} :
             \/ n = "hand" /\ hand.at = "popped" /\ m \in hand.entry
             \/ n = "steering" /\ m \in steering
             \/ n = "input" /\ m \in input
             \/ n = "overwritten" /\ m \in overwritten}}

\* Between the buffers, mailboxes and handlers that a text passes through, and
\* the three paths that hand it back to the input box, no submitted text is
\* dropped and none is taken twice: it is in one place, always.
EveryTextInOnePlace ==
  \A m \in Msgs : Cardinality(Places(m)) = IF m \in submitted THEN 1 ELSE 0

Live(g) == g \notin aborted /\ stream[g].st \in {"open", "tokens", "handoff"}

\* start_stream aborts the session's running task before it spawns the next:
\* however dispatches overtake each other, at most one stream talks to the
\* provider, and it is the one the LLM actor can abort.
OneLiveStream == \A g \in Gens : Live(g) => g = task

\* From the CancelStream the LLM actor handles to the next user send, nothing
\* streams: a tool loop caught in mid-step does not come back to life.
CancelledSessionIsSilent == tombstone => \A g \in Gens : ~Live(g)

\* However batches, buffered batches, retries and stragglers interleave, a finished
\* batch is continued at most once: no second request carries its results.
OneContinuationPerBatch ==
  /\ \A g, h \in Gens : stream[g].of # 0 /\ stream[g].of = stream[h].of => g = h
  /\ job.at \in {"drain", "begin", "send"} /\ job.batch # 0
       => \A g \in Gens : stream[g].of # job.batch

\* A continuation is assembled from a history that holds the result of the
\* batch it continues.
ContinuedWithResult ==
  job.at \in {"drain", "begin", "send"} /\ job.origin = "ToolContinuation"
    => job.batch \in answered

-----------------------------------------------------------------------------
(* Liveness.  The bridge's tasks, the actors and the spawned tasks are all run *)
(* by the tokio scheduler, so each gets its turns; a provider's stream and a   *)
(* tool end (both have timeouts, or a watchdog that ends them).  The user and  *)
(* the plugins owe nothing.                                                    *)

Fairness ==
  /\ WF_vars(\E m \in bridge : BridgePublish(m))
  /\ WF_vars(SessionActor) /\ WF_vars(Queue) /\ WF_vars(Llm) /\ WF_vars(Orchestrator)
  /\ WF_vars(\E g \in Gens : StreamTask(g))
  /\ WF_vars(\E g \in running : ToolFinishes(g))

FairSpec == Spec /\ Fairness

\* A turn that starts ends.
TurnEnds == phase # "Idle" ~> phase = "Idle"

InHistory(m) == \E i \in DOMAIN history : m \in history[i]

\* What the user submits reaches the history or is handed back.
EveryTextSettles ==
  \A m \in Msgs : m \in submitted ~> InHistory(m) \/ m \in input \cup overwritten

-----------------------------------------------------------------------------
(* Refinement *)

Fate(m) ==
  CASE m \notin submitted -> "unsent"
    [] m \in submitted /\ InHistory(m) -> "sent"
    [] m \in input \ {h \in Msgs : InHistory(h)} -> "handedBack"
    [] m \in overwritten -> "overwritten"
    [] OTHER -> "pending"

Ledger == INSTANCE TextLedger WITH fate <- [m \in Msgs |-> Fate(m)]

\* The actors, mailboxes and cancels together keep the promise TextLedger states.
KeepsLedger == Ledger!LedgerSpec

=============================================================================
