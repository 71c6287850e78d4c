------------------------- MODULE SubAgentsProofs -------------------------
(* The child of a task call keeps the invariants TurnEngineProofs proves of  *)
(* any session's turn: the call writes to it through its mailboxes alone.    *)
(* A child that is left alone is done when its call is answered.             *)
EXTENDS SubAgents, TurnEngineProofs

-----------------------------------------------------------------------------
(* What the call adds to the turn. *)

\* The listener answers once and is gone; the ledger holds every discovery that has
\* not been heard to end.
CallOK ==
  /\ call \in CallStates /\ listening \in BOOLEAN /\ signalled \in BOOLEAN
  /\ scanning \subseteq Discoveries /\ ledger \subseteq Discoveries /\ heard \in Nat
  /\ signalled => ~listening
  /\ call = "called" => ~signalled
  /\ call = "settling" => scanning \subseteq ledger

SubInv == TypeOK /\ Streams /\ CallOK

\* A step of the child's turn, overheard by the completion listener.
LEMMA ChildSteps ==
  ASSUME SubInv, ChildStep(Outside) \/ ChildStep(Child)
  PROVE  SubInv'
<1>1. Next
  BY DEF ChildStep, Outside, Child, Next
<1>2. TypeOK' /\ Streams'
  BY <1>1, TypesStep, StreamsStep DEF SubInv
<1>3. heard' \in {heard, heard + 1} /\ UNCHANGED <<call, scanning, ledger, listening, signalled>>
  BY DEF ChildStep
<1>4. CallOK'
  BY <1>3 DEF SubInv, CallOK
<1> QED
  BY <1>2, <1>4 DEF SubInv

\* The turn stands still while the call, the discoveries and the listeners move.
LEMMA TurnStands ==
  ASSUME SubInv, UNCHANGED vars
  PROVE  TypeOK' /\ Streams'
BY TypesStep, StreamsStep DEF SubInv

LEMMA CallMoves ==
  ASSUME SubInv,
         \/ SpawnChild \/ OpenGate \/ ReturnAnswer \/ Signal \/ AbortCall
         \/ \E d \in scanning : DiscoveryEnds(d)
  PROVE  SubInv'
<1>1. UNCHANGED vars
  BY DEF SpawnChild, OpenGate, ReturnAnswer, Signal, AbortCall, DiscoveryEnds
<1>2. ASSUME SpawnChild
      PROVE  CallOK'
  BY <1>2 DEF SpawnChild, SubInv, CallOK, CallStates, InFlight
<1>3. ASSUME OpenGate
      PROVE  CallOK'
  BY <1>3 DEF OpenGate, SubInv, CallOK, CallStates, InFlight
<1>4. ASSUME ReturnAnswer
      PROVE  CallOK'
  BY <1>4 DEF ReturnAnswer, SubInv, CallOK, CallStates, Answers
<1>5. ASSUME Signal
      PROVE  CallOK'
  <2>1. UNCHANGED <<call, scanning, ledger>> /\ heard' = 0 /\ listening' = FALSE
    BY <1>5 DEF Signal, StopListening
  <2>2. signalled' \in BOOLEAN
    <3>1. (call \in InFlight) = TRUE \/ (call \in InFlight) = FALSE
      OBVIOUS
    <3> QED
      BY <1>5, <3>1 DEF Signal, ChannelOpen
  <2>3. call = "called" => ~signalled'
    BY <1>5 DEF Signal, ChannelOpen, InFlight
  <2>4. heard' \in Nat /\ listening' \in BOOLEAN /\ (signalled' => ~listening')
    BY <2>1, Zenon
  <2> QED
    BY <2>1, <2>2, <2>3, <2>4, Zenon DEF SubInv, CallOK
<1>6. ASSUME AbortCall
      PROVE  CallOK'
  BY <1>6 DEF AbortCall, SubInv, CallOK, CallStates, InFlight
<1>7. ASSUME NEW d \in scanning, DiscoveryEnds(d)
      PROVE  CallOK'
  BY <1>7 DEF DiscoveryEnds, SubInv, CallOK
<1>8. CallOK'
  BY <1>2, <1>3, <1>4, <1>5, <1>6, <1>7 DEF SubInv
<1> QED
  BY <1>1, <1>8, TurnStands DEF SubInv

\* The prompt reaches the child as a user's message does.
LEMMA PromptEnqueued ==
  ASSUME SubInv, EnqueuePrompt
  PROVE  SubInv'
<1>1. Enqueue({Prompt}) \in SessionMsg
  BY MessageKinds, PromptAssumption DEF Texts
<1>2. sessionBox' \in Seq(SessionMsg) /\ submitted' \subseteq Msgs
  BY <1>1, PromptAssumption DEF EnqueuePrompt, SubInv, TypeOK
<1>3. TypeOK'
  BY <1>2 DEF EnqueuePrompt, SubInv, TypeOK, sessionVars, llmVars, toolVars
<1>4. Streams'
  BY StreamsUntouched DEF EnqueuePrompt, SubInv, LiveVars, llmVars
<1>5. CallOK'
  BY DEF EnqueuePrompt, SubInv, CallOK, CallStates, InFlight
<1> QED
  BY <1>3, <1>4, <1>5 DEF SubInv

\* The deadline reaches the child as any cancel does.
LEMMA DeadlinePasses ==
  ASSUME SubInv, Expire
  PROVE  SubInv'
<1>1. [type |-> "CancelStream", nth |-> 0] \in LlmMsg
  BY DEF LlmMsg, CancelMsg
<1>2. llmBox' \in Seq(LlmMsg)
  BY <1>1 DEF Expire, SubInv, TypeOK
<1>3. TypeOK'
  BY <1>2 DEF Expire, SubInv, TypeOK, sessionVars, llmVars, toolVars, userVars
<1>4. Streams'
  BY StreamsUntouched DEF Expire, SubInv, LiveVars, llmVars
<1>5. CallOK'
  BY DEF Expire, SubInv, CallOK, CallStates, Answers
<1> QED
  BY <1>3, <1>4, <1>5 DEF SubInv

LEMMA SubStep == SubInv /\ [SubNext]_subVars => SubInv'
<1> SUFFICES ASSUME SubInv, [SubNext]_subVars
             PROVE  SubInv'
  OBVIOUS
<1>1. CASE UNCHANGED subVars
  BY <1>1, TurnStands DEF subVars, callVars, SubInv, CallOK
<1> QED
  BY <1>1, ChildSteps, CallMoves, PromptEnqueued, DeadlinePasses DEF SubNext, Call

LEMMA SubInvariant == SubSpec => []SubInv
<1>1. SubInit => SubInv
  <2>1. SubInit => TypeOK /\ Streams
    BY TypesInit, StreamsInit DEF SubInit
  <2>2. SubInit => CallOK
    <3>1. 0 \in Nat /\ FALSE \in BOOLEAN /\ "called" # "settling"
      OBVIOUS
    <3> QED
      BY <3>1, Zenon DEF SubInit, CallOK, CallStates
  <2> QED
    BY <2>1, <2>2 DEF SubInv
<1> QED
  BY <1>1, SubStep, PTL DEF SubSpec

-----------------------------------------------------------------------------
\* Every variable of the child's turn and of the call holds a value of its kind; the
\* completion listener is gone once it has signalled, and the settle ledger does not
\* close on a discovery that is still running.
THEOREM SubTypeCorrect == SubSpec => []SubTypeOK
<1>1. SubInv => SubTypeOK
  BY DEF SubInv, CallOK, SubTypeOK
<1> QED
  BY <1>1, SubInvariant, PTL

\* However the call's prompt, its deadline, the user and the plugins meet in the child,
\* at most one stream of it is live, and the child's LLM task is the one to abort.
THEOREM OneStreamOfTheChild == SubSpec => []OneLiveStream
<1>1. SubInv => OneLiveStream
  BY DEF SubInv, Streams
<1> QED
  BY <1>1, SubInvariant, PTL

\* A child that its call's deadline or the user has cancelled is silent until a send that
\* continues nothing: no tool loop the cancel met comes back to life.
THEOREM CancelledChildIsSilent == SubSpec => []CancelledSessionIsSilent
<1>1. SubInv => CancelledSessionIsSilent
  BY DEF SubInv, Streams
<1> QED
  BY <1>1, SubInvariant, PTL

-----------------------------------------------------------------------------
(* A child that is left alone works on its prompt and on nothing else. *)

\* Nobody but the call gives the child anything to do.
NothingElse ==
  /\ queue = <<>> /\ steering = {} /\ input = {} /\ bridge = {} /\ hand = NoHand
  /\ job.at # "resume" /\ ~Carrying(sessionBox, ResumeMsg)

\* Its turn has not begun.
Untouched ==
  /\ phase = "Idle" /\ llmBox = <<>> /\ toolBox = <<>> /\ job = NoJob /\ stream = <<>>
  /\ running = {} /\ idleEvents = 0 /\ heard = 0 /\ ~signalled

\* Its turn has begun, and what is announced is that it is over.
Begun ==
  /\ ~Carrying(sessionBox, EntryMsg)
  /\ \E i \in DOMAIN history : Prompt \in history[i]
  /\ heard > 0 \/ signalled \/ call = "Finished" => phase = "Idle"

ChildTurn ==
  /\ Solo({}, FALSE) /\ NothingElse
  /\ \/ call \in {"called", "spawned", "settling"} /\ Untouched /\ sessionBox = <<>>
     \/ call = "waiting" /\ Untouched /\ sessionBox = <<Enqueue({Prompt})>>
     \/ call \in {"waiting", "Finished"} /\ Begun

\* Until its call is given up.
ChildKept == LeftAlone /\ call \notin {"TimedOut", "aborted"} => ChildTurn

\* The child's own steps in a turn that has begun.
OwnStep ==
  \/ HandleRetryStalledSession \/ DrainSteering \/ BeginDispatch \/ SendDispatch
  \/ HandleSendToLlmProvider \/ HandleStreamToken \/ HandleStreamCompleted
  \/ HandleToolExecutionCompleted \/ HandleToolBatchCompleted
  \/ PopOnIdle \/ Llm \/ Orchestrator
  \/ \E g \in Gens : StreamTask(g)
  \/ \E g \in running : ToolFinishes(g)

-----------------------------------------------------------------------------
\* A text that was submitted stays submitted.
LEMMA SubmittedGrows ==
  ASSUME Next \/ UNCHANGED vars
  PROVE  submitted \subseteq submitted'
<1> USE DEF sessionVars, llmVars, toolVars, userVars
<1>1. CASE Frontend
  BY <1>1 DEF Frontend, Submit, AskCancel, EscConfirm, Interrupt, RequestResume
<1>2. CASE Plugins \/ \E m \in bridge : BridgePublish(m)
  BY <1>2 DEF Plugins, OutsideCancel, StallTrip, BridgePublish
<1>3. CASE SessionActor
  BY <1>3 DEF SessionActor, HandleEnqueueUserMessage, HandleSubmitSteeringMessage,
              HandleEnqueueResumeTurn, ResumeTurn, HandleRetryStalledSession, DrainSteering,
              BeginDispatch, SendDispatch, HandleSendToLlmProvider, HandleStreamToken,
              HandleStreamCompleted, HandleToolExecutionCompleted, HandleToolBatchCompleted
<1>4. CASE Queue
  BY <1>4 DEF Queue, PopOnIdle, PushPopped, SendPopped
<1>5. CASE Llm
  BY <1>5 DEF Llm, DropContinuation, StartStream, UntrackCompleted, CancelStream
<1>6. CASE Orchestrator \/ \E g \in running : ToolFinishes(g)
  BY <1>6 DEF Orchestrator, ExecuteToolBatch, CancelToolBatch, CountToolResult, ToolFinishes
<1>7. ASSUME NEW g \in Gens, StreamTask(g)
      PROVE  submitted' = submitted
  BY <1>7 DEF StreamTask, FirstToken, StreamFinishes, StreamFails, StreamUsesTools, HandOffBatch,
              StreamStops, StreamStep
<1>8. CASE UNCHANGED vars
  BY <1>8 DEF vars
<1> QED
  BY <1>1, <1>2, <1>3, <1>4, <1>5, <1>6, <1>7, <1>8 DEF Next

\* What joins the session's mailbox is in it.
LEMMA Joined ==
  ASSUME NEW box \in Seq(SessionMsg), NEW m, NEW new \in Seq(SessionMsg), new = Append(box, m)
  PROVE  Mail(new) = Mail(box) \cup {m}
<1>1. Len(box) \in Nat /\ Len(new) = Len(box) + 1 /\ new[Len(box) + 1] = m
  OBVIOUS
<1>2. Len(box) + 1 \in DOMAIN new
  BY <1>1
<1>3. m \in SessionMsg
  BY <1>1, <1>2
<1> QED
  BY <1>3, Gained

\* With nothing else to do the child only takes its own steps.
LEMMA OnlyOwnSteps ==
  ASSUME TypeOK, NothingElse, ~Carrying(sessionBox, EntryMsg), Child
  PROVE  OwnStep
<1>1. ASSUME sessionBox # <<>>
      PROVE  /\ Head(sessionBox).type \notin {"EnqueueUserMessage", "SubmitSteeringMessage"}
             /\ Head(sessionBox).type # "EnqueueResumeTurn"
  <2>1. PICK box, new : box \in Seq(SessionMsg) /\ box = sessionBox /\ new = Tail(box) /\ box # <<>>
    BY <1>1 DEF TypeOK
  <2>2. Head(box) \in SessionMsg /\ Head(box) \in Mail(box)
    BY <2>1, Lost
  <2>3. Head(box) \notin EntryMsg \cup ResumeMsg
    BY <2>1, <2>2 DEF NothingElse, Carrying
  <2>4. \A m \in SessionMsg : /\ m.type \in {"EnqueueUserMessage", "SubmitSteeringMessage"} => m \in EntryMsg
                              /\ m.type = "EnqueueResumeTurn" => m \in ResumeMsg
    BY DEF SessionMsg, EntryMsg, RetryMsg, ResumeMsg, SendMsg, CompletedMsg, BatchMsg
  <2> QED
    BY <2>1, <2>2, <2>3, <2>4
<1>2. ~(HandleEnqueueUserMessage \/ HandleSubmitSteeringMessage \/ HandleEnqueueResumeTurn)
  BY <1>1 DEF HandleEnqueueUserMessage, HandleSubmitSteeringMessage, HandleEnqueueResumeTurn,
              NextSessionMsg
<1>3. ~ResumeTurn /\ ~PushPopped /\ ~SendPopped /\ bridge = {}
  BY DEF NothingElse, ResumeTurn, PushPopped, SendPopped, NoHand
<1> QED
  BY <1>2, <1>3 DEF Child, SessionActor, Queue, OwnStep

\* What a child publishes to itself asks for no new turn.
LEMMA OwnMail ==
  ASSUME TypeOK, TypeOK', OwnStep, ~Carrying(sessionBox, EntryMsg), ~Carrying(sessionBox, ResumeMsg)
  PROVE  ~Carrying(sessionBox', EntryMsg) /\ ~Carrying(sessionBox', ResumeMsg)
<1> USE DEF sessionVars, llmVars, toolVars, userVars
<1> DEFINE Own == {"SendToLlmProvider", "StreamToken", "StreamCompleted", "ToolExecutionCompleted",
                   "ToolBatchCompleted"}
<1>1. PICK box \in Seq(SessionMsg), new \in Seq(SessionMsg) : box = sessionBox /\ new = sessionBox'
  BY DEF TypeOK
<1>2. \/ new = box \/ (box # <<>> /\ new = Tail(box))
      \/ \E m : new = Append(box, m) /\ m.type \in Own
  <2>1. CASE \/ HandleRetryStalledSession \/ DrainSteering \/ BeginDispatch
             \/ HandleSendToLlmProvider \/ HandleStreamToken \/ HandleStreamCompleted
             \/ HandleToolExecutionCompleted \/ HandleToolBatchCompleted \/ PopOnIdle
    BY <1>1, <2>1 DEF HandleRetryStalledSession, DrainSteering, BeginDispatch, HandleSendToLlmProvider,
       HandleStreamToken, HandleStreamCompleted, HandleToolExecutionCompleted,
       HandleToolBatchCompleted, PopOnIdle, NextSessionMsg
  <2>2. CASE SendDispatch
    BY <1>1, <2>2 DEF SendDispatch, PublishSend, Send
  <2>3. CASE Llm
    <3>1. CASE DropContinuation \/ UntrackCompleted
      BY <1>1, <3>1 DEF DropContinuation, UntrackCompleted
    <3>2. CASE StartStream
      BY <1>1, <3>2 DEF StartStream, PublishCompleted, Completed
    <3>3. CASE CancelStream
      BY <1>1, <3>3 DEF CancelStream, PublishCompleted, Completed
    <3> QED
      BY <2>3, <3>1, <3>2, <3>3 DEF Llm
  <2>4. CASE Orchestrator \/ \E g \in running : ToolFinishes(g)
    <3>1. CASE ExecuteToolBatch \/ CancelToolBatch
      BY <1>1, <3>1 DEF ExecuteToolBatch, CancelToolBatch
    <3>2. CASE CountToolResult
      BY <1>1, <3>2 DEF CountToolResult, Note
    <3>3. ASSUME NEW g \in running, ToolFinishes(g)
          PROVE  \E m : new = Append(box, m) /\ m.type \in Own
      BY <1>1, <3>3 DEF ToolFinishes, Note
    <3> QED
      BY <2>4, <3>1, <3>2, <3>3 DEF Orchestrator
  <2>5. ASSUME NEW g \in Gens, StreamTask(g)
        PROVE  \/ new = box
               \/ \E m : new = Append(box, m) /\ m.type \in Own
    BY <1>1, <2>5 DEF StreamTask, FirstToken, StreamFinishes, StreamFails, StreamUsesTools, HandOffBatch,
                      StreamStops, PublishCompleted, Completed, Note
  <2> QED
    BY <2>1, <2>2, <2>3, <2>4, <2>5 DEF OwnStep
<1>3. \A m \in EntryMsg \cup ResumeMsg : m.type \notin Own
  BY DEF EntryMsg, ResumeMsg
<1>4. ASSUME NEW kind, kind \in {EntryMsg, ResumeMsg}, ~Carrying(box, kind)
      PROVE  ~Carrying(new, kind)
  <2>1. CASE box # <<>> /\ new = Tail(box)
    <3>1. Mail(box) = Mail(new) \cup {Head(box)}
      BY <2>1, Lost
    <3> QED
      BY <1>4, <3>1 DEF Carrying
  <2>2. ASSUME NEW m, new = Append(box, m), m.type \in Own
        PROVE  ~Carrying(new, kind)
    <3>1. Mail(new) = Mail(box) \cup {m}
      BY <2>2, Joined
    <3>2. m \notin kind
      BY <1>3, <1>4, <2>2
    <3> QED
      BY <1>4, <3>1, <3>2 DEF Carrying
  <2> QED
    BY <1>2, <1>4, <2>1, <2>2
<1>5. ~Carrying(box, EntryMsg) /\ ~Carrying(box, ResumeMsg)
  BY <1>1
<1>6. ~Carrying(new, EntryMsg) /\ ~Carrying(new, ResumeMsg)
  BY <1>4, <1>5
<1> QED
  BY <1>1, <1>6

\* The buffers, the input box and the history stay as they are.
LEMMA OwnKeeps ==
  ASSUME TypeOK, TypeOK', NothingElse, ~Carrying(sessionBox, EntryMsg), OwnStep
  PROVE  NothingElse' /\ UNCHANGED history /\ ~Carrying(sessionBox', EntryMsg)
<1> USE DEF sessionVars, llmVars, toolVars, userVars
<1>0. /\ queue = <<>> /\ steering = {} /\ input = {} /\ bridge = {} /\ hand = NoHand /\ job.at # "resume"
      /\ ~Carrying(sessionBox, ResumeMsg)
  BY DEF NothingElse
<1>1. /\ ~Carrying(sessionBox', EntryMsg) /\ ~Carrying(sessionBox', ResumeMsg)
  BY <1>0, OwnMail
<1>2. UNCHANGED <<queue, steering, input, bridge, hand, history>>
  <2>1. CASE \/ HandleRetryStalledSession \/ HandleToolBatchCompleted \/ BeginDispatch \/ SendDispatch
             \/ HandleSendToLlmProvider \/ HandleStreamToken \/ HandleToolExecutionCompleted
    BY <2>1 DEF HandleRetryStalledSession, HandleToolBatchCompleted, BeginDispatch, SendDispatch,
                HandleSendToLlmProvider, HandleStreamToken, HandleToolExecutionCompleted
  <2>2. CASE DrainSteering \/ PopOnIdle
    BY <1>0, <2>2 DEF DrainSteering, PopOnIdle
  <2>3. CASE HandleStreamCompleted
    <3>1. Join(queue) = {}
      BY <1>0 DEF Join
    <3>2. UNCHANGED <<steering, bridge, hand, history>>
      BY <2>3 DEF HandleStreamCompleted
    <3>3. UNCHANGED <<queue, input>>
      BY <1>0, <2>3, <3>1 DEF HandleStreamCompleted, RestoreToInput
    <3> QED
      BY <3>2, <3>3
  <2>4. CASE Llm
    BY <2>4 DEF Llm, DropContinuation, StartStream, UntrackCompleted, CancelStream
  <2>5. CASE Orchestrator \/ \E g \in running : ToolFinishes(g)
    BY <2>5 DEF Orchestrator, ExecuteToolBatch, CancelToolBatch, CountToolResult, ToolFinishes
  <2>6. ASSUME NEW g \in Gens, StreamTask(g)
        PROVE  UNCHANGED <<queue, steering, input, bridge, hand, history>>
    BY <2>6 DEF StreamTask, FirstToken, StreamFinishes, StreamFails, StreamUsesTools, HandOffBatch,
                StreamStops, StreamStep
  <2> QED
    BY <2>1, <2>2, <2>3, <2>4, <2>5, <2>6 DEF OwnStep
<1>3. job'.at # "resume"
  <2>1. CASE DrainSteering \/ BeginDispatch
    <3>1. job \in Jobs /\ job.at \in {"drain", "begin"}
      BY <2>1 DEF TypeOK, DrainSteering, BeginDispatch
    <3>2. /\ \A at \in {"begin", "send"} : [job EXCEPT !.at = at].at = at
          /\ [job EXCEPT !.at = "send", !.gen = Now].at = "send"
      BY <3>1 DEF Jobs, NoJob
    <3> QED
      BY <2>1, <3>2 DEF DrainSteering, BeginDispatch
  <2>2. CASE HandleRetryStalledSession \/ HandleToolBatchCompleted \/ SendDispatch
    BY <2>2 DEF HandleRetryStalledSession, HandleToolBatchCompleted, SendDispatch, Dispatch, NoJob
  <2>3. CASE HandleStreamCompleted
    BY <1>0, <2>3 DEF HandleStreamCompleted, ContinueBuffered, Dispatch
  <2>4. CASE HandleSendToLlmProvider \/ HandleStreamToken \/ HandleToolExecutionCompleted \/ PopOnIdle
    BY <1>0, <2>4 DEF HandleSendToLlmProvider, HandleStreamToken, HandleToolExecutionCompleted, PopOnIdle
  <2>5. CASE Llm
    BY <1>0, <2>5 DEF Llm, DropContinuation, StartStream, UntrackCompleted, CancelStream
  <2>6. CASE Orchestrator \/ \E g \in running : ToolFinishes(g)
    BY <1>0, <2>6 DEF Orchestrator, ExecuteToolBatch, CancelToolBatch, CountToolResult, ToolFinishes
  <2>7. ASSUME NEW g \in Gens, StreamTask(g)
        PROVE  job' = job
    BY <2>7 DEF StreamTask, FirstToken, StreamFinishes, StreamFails, StreamUsesTools, HandOffBatch,
                StreamStops, StreamStep
  <2> QED
    BY <1>0, <2>1, <2>2, <2>3, <2>4, <2>5, <2>6, <2>7 DEF OwnStep
<1> QED
  BY <1>0, <1>1, <1>2, <1>3 DEF NothingElse

\* A child that rests keeps resting: nothing of its turn is left that could take it up.
LEMMA RestStays ==
  ASSUME TypeOK, Solo({}, FALSE), OwnStep, phase = "Idle"
  PROVE  phase' = "Idle"
<1> USE DEF sessionVars, llmVars, toolVars, userVars
<1>0. Activity({}, FALSE) = {} /\ ~Carrying(sessionBox, UseMsg) /\ MailInOrder
  <2>1. Activity({}, FALSE) = {}
    BY DEF Solo, OneActivity
  <2> QED
    BY <2>1 DEF Solo, ToolsAwaited
<1>1. CASE HandleStreamCompleted
  <2>1. Head(sessionBox).reason # "ToolUse"
    <3>1. PICK h \in SessionMsg : /\ h = Head(sessionBox) /\ h.type = "StreamCompleted"
                                  /\ h \in Mail(sessionBox)
      BY <1>0, <1>1, SessionTakes DEF HandleStreamCompleted
    <3>2. h \notin UseMsg
      BY <1>0, <3>1 DEF Carrying
    <3> QED
      BY <3>1, <3>2, Sorts
  <2> QED
    BY <1>1, <2>1 DEF HandleStreamCompleted, OnStreamCompletedFinished, Transition
<1>2. ~BeginDispatch
  <2>1. ~Dispatching(job)
    BY <1>0, Absent
  <2> QED
    BY <2>1 DEF BeginDispatch, Dispatching
<1>3. CASE HandleStreamToken
  BY <1>3 DEF HandleStreamToken, OnFirstToken, Transition
<1>4. CASE \/ HandleRetryStalledSession \/ DrainSteering \/ SendDispatch
           \/ HandleSendToLlmProvider
           \/ HandleToolExecutionCompleted \/ HandleToolBatchCompleted \/ PopOnIdle
  BY <1>4 DEF HandleRetryStalledSession, DrainSteering, SendDispatch, HandleSendToLlmProvider,
              HandleToolExecutionCompleted, HandleToolBatchCompleted, PopOnIdle
<1>5. CASE Llm
  BY <1>5 DEF Llm, DropContinuation, StartStream, UntrackCompleted, CancelStream
<1>6. CASE Orchestrator \/ \E g \in running : ToolFinishes(g)
  BY <1>6 DEF Orchestrator, ExecuteToolBatch, CancelToolBatch, CountToolResult, ToolFinishes
<1>7. ASSUME NEW g \in Gens, StreamTask(g)
      PROVE  phase' = phase
  BY <1>7 DEF StreamTask, FirstToken, StreamFinishes, StreamFails, StreamUsesTools, HandOffBatch,
              StreamStops, StreamStep
<1> QED
  BY <1>1, <1>2, <1>3, <1>4, <1>5, <1>6, <1>7 DEF OwnStep

\* What the listener hears of is a turn that is over.
LEMMA RestAnnounced ==
  ASSUME TypeOK, OwnStep, idleEvents' > idleEvents
  PROVE  phase' = "Idle"
<1> USE DEF sessionVars, llmVars, toolVars, userVars
<1>0. idleEvents \in Nat /\ idleEvents' # idleEvents /\ idleEvents' # idleEvents - 1
  BY DEF TypeOK
<1>1. CASE HandleStreamCompleted
  <2>1. PICK m : m = Head(sessionBox)
    OBVIOUS
  <2>2. Announced(m.reason, phase') /\ ~Stale(m.gen)
    BY <1>0, <1>1, <2>1 DEF HandleStreamCompleted
  <2> QED
    BY <2>2 DEF Announced
<1>2. CASE \/ HandleRetryStalledSession \/ DrainSteering \/ BeginDispatch \/ SendDispatch
           \/ HandleSendToLlmProvider \/ HandleStreamToken
           \/ HandleToolExecutionCompleted \/ HandleToolBatchCompleted
  BY <1>0, <1>2 DEF HandleRetryStalledSession, DrainSteering, BeginDispatch, SendDispatch,
              HandleSendToLlmProvider, HandleStreamToken,
              HandleToolExecutionCompleted, HandleToolBatchCompleted
<1>3. CASE PopOnIdle
  BY <1>0, <1>3 DEF PopOnIdle
<1>4. CASE Llm
  BY <1>0, <1>4 DEF Llm, DropContinuation, StartStream, UntrackCompleted, CancelStream
<1>5. CASE Orchestrator \/ \E g \in running : ToolFinishes(g)
  BY <1>0, <1>5 DEF Orchestrator, ExecuteToolBatch, CancelToolBatch, CountToolResult, ToolFinishes
<1>6. ASSUME NEW g \in Gens, StreamTask(g)
      PROVE  idleEvents' = idleEvents
  BY <1>6 DEF StreamTask, FirstToken, StreamFinishes, StreamFails, StreamUsesTools, HandOffBatch,
              StreamStops, StreamStep
<1> QED
  BY <1>0, <1>1, <1>2, <1>3, <1>4, <1>5, <1>6 DEF OwnStep

\* Before the prompt is handled the child takes no step but the one that handles it.
LEMMA OnlyThePrompt ==
  ASSUME TypeOK, NothingElse, Untouched, Child
  PROVE  HandleEnqueueUserMessage \/ HandleSubmitSteeringMessage \/ HandleEnqueueResumeTurn
           \/ HandleRetryStalledSession \/ HandleSendToLlmProvider \/ HandleStreamToken
           \/ HandleStreamCompleted \/ HandleToolExecutionCompleted \/ HandleToolBatchCompleted
<1>1. /\ llmBox = <<>> /\ toolBox = <<>> /\ running = {} /\ bridge = {} /\ idleEvents = 0
      /\ hand = NoHand /\ job = NoJob /\ Gens = {}
  BY DEF NothingElse, Untouched, Gens
<1>2. ~Llm /\ ~Orchestrator
  BY <1>1 DEF Llm, DropContinuation, StartStream, UntrackCompleted, CancelStream, NextLlmMsg,
              Orchestrator, ExecuteToolBatch, CancelToolBatch, CountToolResult, NextToolMsg
<1>3. ~Queue
  BY <1>1 DEF Queue, PopOnIdle, PushPopped, SendPopped, NoHand
<1>4. ~(ResumeTurn \/ DrainSteering \/ BeginDispatch \/ SendDispatch)
  BY <1>1 DEF ResumeTurn, DrainSteering, BeginDispatch, SendDispatch, NoJob
<1> QED
  BY <1>1, <1>2, <1>3, <1>4 DEF Child, SessionActor

\* The prompt comes in.
LEMMA PromptSolo ==
  ASSUME TypeOK, Solo({}, FALSE), EnqueuePrompt
  PROVE  Solo({}, FALSE)'
<1> USE DEF sessionVars, llmVars, toolVars, userVars
<1>0. MailInOrder
  BY DEF Solo
<1>1. PICK m \in SessionMsg : /\ m.type = "EnqueueUserMessage" /\ sessionBox' = Append(sessionBox, m)
  <2>1. Enqueue({Prompt}) \in SessionMsg
    BY MessageKinds, PromptAssumption DEF Texts
  <2> QED
    BY <2>1 DEF EnqueuePrompt, Enqueue
<1>2. m \notin RetryMsg \cup EndMsg \cup UseMsg \cup DoneMsg \cup ResultMsg \cup TokenMsg \cup SendMsg
  BY <1>1, Sorts
<1>3. UNCHANGED <<bridge, llmBox, toolBox, job, hand, stream, batch, aborted, task, guard, pendingBatch,
                  running, answered, phase>>
  BY DEF EnqueuePrompt
<1>4. SessionMail(sessionBox') /\ Mail(sessionBox') = Mail(sessionBox) \cup {m}
  BY <1>0, <1>1, <1>2, SessionGets
<1>5. PICK still, asked : still = {} /\ asked = FALSE
  OBVIOUS
<1>6. Solo(still, asked)
  BY <1>5
<1>7. Activity(still, asked)' = Activity(still, asked)
  BY <1>2, <1>3, <1>4 DEF Activity, Carrying, Acting, Gens
<1>8. OneActivity(still, asked)'
  BY <1>3, <1>6, <1>7 DEF OneActivity, Solo
<1>9. MailInOrder'
  BY <1>0, <1>3, <1>4 DEF MailInOrder
<1>10. LastGeneration(still)'
  BY <1>2, <1>3, <1>4, <1>6 DEF Solo, LastGeneration, Unopened, Gens
<1>11. ToolsAwaited(still, asked)'
  BY <1>2, <1>3, <1>4, <1>6, <1>7 DEF Solo, ToolsAwaited, Carrying
<1>12. ToolsAnswer'
  <2>1. \A b : Reported(b) => Reported(b)'
    BY <1>3, <1>4 DEF Reported
  <2> QED
    BY <1>2, <1>3, <1>4, <1>6, <2>1 DEF Solo, ToolsAnswer
<1>13. Solo(still, asked)'
  BY <1>8, <1>9, <1>10, <1>11, <1>12 DEF Solo
<1> QED
  BY <1>5, <1>13

\* The prompt is what the child dispatches first.
LEMMA PromptHandled ==
  ASSUME TypeOK, NothingElse, Untouched, sessionBox = <<Enqueue({Prompt})>>, Child
  PROVE  /\ NothingElse' /\ ~Carrying(sessionBox', EntryMsg) /\ idleEvents' = idleEvents
         /\ \E i \in DOMAIN history' : Prompt \in history'[i]
<1> USE DEF sessionVars, llmVars, toolVars, userVars
<1>1. Head(sessionBox).type = "EnqueueUserMessage" /\ Head(sessionBox).entry = {Prompt}
  <2>1. Head(sessionBox) = Enqueue({Prompt})
    OBVIOUS
  <2> QED
    BY <2>1 DEF Enqueue
<1>2. HandleEnqueueUserMessage
  BY <1>1, OnlyThePrompt DEF HandleSubmitSteeringMessage, HandleEnqueueResumeTurn,
     HandleRetryStalledSession, HandleSendToLlmProvider, HandleStreamToken, HandleStreamCompleted,
     HandleToolExecutionCompleted, HandleToolBatchCompleted, NextSessionMsg
<1>3. phase = "Idle"
  BY DEF Untouched
<1>4. /\ history' = Append(history, {Prompt}) /\ job' = Dispatch("drain", "User", FALSE, 0)
      /\ UNCHANGED <<queue, steering, input, bridge, hand, idleEvents>>
      /\ sessionBox' = Tail(sessionBox)
  BY <1>1, <1>2, <1>3 DEF HandleEnqueueUserMessage, NextSessionMsg
<1>5. sessionBox' = <<>>
  BY <1>4
<1>6. \A kind : ~Carrying(sessionBox', kind)
  BY <1>5 DEF Carrying, Mail
<1>7. \E i \in DOMAIN history' : Prompt \in history'[i]
  <2>1. history \in Seq(Texts)
    BY DEF TypeOK
  <2>2. /\ Len(history) + 1 \in DOMAIN history'
        /\ history'[Len(history) + 1] = {Prompt}
    BY <1>4, <2>1
  <2> QED
    BY <2>2
<1> QED
  BY <1>4, <1>6, <1>7 DEF NothingElse, Dispatch

LEMMA ChildWorks ==
  ASSUME TypeOK, TypeOK', ChildTurn, ChildStep(Child)
  PROVE  ChildTurn'
<1>0. /\ Solo({}, FALSE) /\ NothingElse /\ Child /\ UNCHANGED <<call, listening, signalled>>
      /\ heard' = IF listening /\ idleEvents' > idleEvents THEN heard + 1 ELSE heard
  BY DEF ChildTurn, ChildStep
<1>1. Solo({}, FALSE)'
  <2>1. PICK still, asked : still = {} /\ asked = FALSE
    OBVIOUS
  <2>2. ~PushPopped /\ ~ResumeTurn
    BY <1>0 DEF NothingElse, PushPopped, ResumeTurn, NoHand
  <2>3. SoloNext(still)
    BY <1>0, <2>1, <2>2 DEF Child, SoloNext
  <2>4. Solo(still, asked)
    BY <1>0, <2>1
  <2>5. Solo(still, asked)'
    BY <2>3, <2>4, SoloStep
  <2> QED
    BY <2>1, <2>5
<1>2. CASE Untouched /\ sessionBox = <<>>
  <2>1. FALSE
    BY <1>0, <1>2, OnlyThePrompt DEF HandleEnqueueUserMessage, HandleSubmitSteeringMessage,
       HandleEnqueueResumeTurn, HandleRetryStalledSession, HandleSendToLlmProvider, HandleStreamToken,
       HandleStreamCompleted, HandleToolExecutionCompleted, HandleToolBatchCompleted, NextSessionMsg
  <2> QED
    BY <2>1
<1>3. CASE call = "waiting" /\ Untouched /\ sessionBox = <<Enqueue({Prompt})>>
  <2>1. /\ NothingElse' /\ ~Carrying(sessionBox', EntryMsg) /\ idleEvents' = idleEvents
        /\ \E i \in DOMAIN history' : Prompt \in history'[i]
    BY <1>0, <1>3, PromptHandled
  <2>2. heard' = 0 /\ ~signalled'
    <3>1. idleEvents = 0 /\ heard = 0 /\ ~signalled
      BY <1>3 DEF Untouched
    <3> QED
      BY <1>0, <2>1, <3>1
  <2>3. Begun'
    BY <1>0, <1>3, <2>1, <2>2 DEF Begun
  <2> QED
    BY <1>0, <1>1, <1>3, <2>1, <2>3 DEF ChildTurn
<1>4. CASE call \in {"waiting", "Finished"} /\ Begun
  <2>1. ~Carrying(sessionBox, EntryMsg) /\ OwnStep
    BY <1>0, <1>4, OnlyOwnSteps DEF Begun
  <2>2. NothingElse' /\ UNCHANGED history /\ ~Carrying(sessionBox', EntryMsg)
    BY <1>0, <2>1, OwnKeeps
  <2>3. phase = "Idle" => phase' = "Idle"
    BY <1>0, <2>1, RestStays
  <2>4. idleEvents' > idleEvents => phase' = "Idle"
    BY <2>1, RestAnnounced
  <2>5. heard' > 0 \/ signalled' \/ call' = "Finished" => phase' = "Idle"
    <3>1. CASE listening /\ idleEvents' > idleEvents
      BY <2>4, <3>1
    <3>2. CASE ~(listening /\ idleEvents' > idleEvents)
      BY <1>0, <1>4, <2>3, <3>2 DEF Begun
    <3> QED
      BY <3>1, <3>2
  <2>6. Begun'
    BY <1>4, <2>2, <2>5 DEF Begun
  <2> QED
    BY <1>0, <1>1, <1>4, <2>2, <2>6 DEF ChildTurn
<1> QED
  BY <1>2, <1>3, <1>4 DEF ChildTurn

-----------------------------------------------------------------------------
\* No plugin acts on the child, and its user neither cancels nor resumes it.
CallAlone == ~(Plugins \/ EscConfirm \/ Interrupt \/ RequestResume)

\* What the user may still do to a child that he leaves alone is to look at it.
LEMMA UserLooks ==
  ASSUME SubInv, TypeOK', ChildTurn, ChildStep(Outside), CallAlone, LeftAlone'
  PROVE  ChildTurn'
<1> USE DEF sessionVars, llmVars, toolVars, userVars
<1>0. /\ Solo({}, FALSE) /\ NothingElse /\ UNCHANGED <<call, listening, signalled>>
      /\ Outside
      /\ heard' = IF listening /\ idleEvents' > idleEvents THEN heard + 1 ELSE heard
      /\ TypeOK
  BY DEF ChildTurn, ChildStep, SubInv
<1>1. ASSUME NEW new \in SUBSET Msgs, NEW mode \in Modes, Submit(new, mode)
      PROVE  FALSE
  <2>1. input \cup new # {} /\ new \cap submitted = {} /\ submitted' = submitted \cup new
    BY <1>1 DEF Submit
  <2>2. new # {}
    BY <1>0, <2>1 DEF NothingElse
  <2>3. Prompt \in new /\ Prompt \in submitted'
    BY <2>1, <2>2 DEF LeftAlone
  <2>4. Prompt \in submitted
    BY <1>0, <2>3 DEF Outside
  <2> QED
    BY <2>1, <2>3, <2>4
<1>2. AskCancel
  <2>1. Frontend /\ ~(EscConfirm \/ Interrupt \/ RequestResume)
    BY <1>0 DEF Outside, CallAlone
  <2>2. \A m \in Msgs : {m} \in SUBSET Msgs
    OBVIOUS
  <2> QED
    BY <1>1, <2>1, <2>2 DEF Frontend
<1>3. UNCHANGED <<queue, steering, input, bridge, hand, job, sessionBox, phase, llmBox, toolBox, stream,
                  running, idleEvents, history>>
  BY <1>2 DEF AskCancel
<1>4. heard' = heard
  BY <1>0, <1>3 DEF TypeOK
<1>5. Solo({}, FALSE)'
  <2>1. PICK still, asked : still = {} /\ asked = FALSE
    OBVIOUS
  <2>2. Frontend /\ ~(EscConfirm \/ Interrupt)
    BY <1>2 DEF Frontend, CallAlone
  <2>3. Solo(still, asked)
    BY <1>0, <2>1
  <2>4. Solo(still, asked)'
    BY <1>0, <2>2, <2>3, SoloStep DEF SoloNext
  <2> QED
    BY <2>1, <2>4
<1>6. NothingElse'
  BY <1>0, <1>3 DEF NothingElse
<1>7. (Untouched => Untouched') /\ (Begun => Begun')
  BY <1>0, <1>3, <1>4 DEF Untouched, Begun
<1> QED
  BY <1>0, <1>3, <1>5, <1>6, <1>7 DEF ChildTurn

\* The call moves on: what it waits for, what it hears and what it answers.
LEMMA CallWaits ==
  ASSUME SubInv, ChildTurn,
         \/ SpawnChild \/ OpenGate \/ ReturnAnswer \/ Signal
         \/ \E d \in scanning : DiscoveryEnds(d)
  PROVE  ChildTurn'
<1>1. UNCHANGED vars
  BY DEF SpawnChild, OpenGate, ReturnAnswer, Signal, DiscoveryEnds
<1>2. UNCHANGED <<queue, steering, input, bridge, hand, job, sessionBox, phase, llmBox, toolBox, stream,
                  running, idleEvents, history>>
  BY <1>1 DEF vars, sessionVars, llmVars, toolVars, userVars
<1>3. Solo({}, FALSE)' /\ NothingElse'
  <2>1. PICK still, asked : still = {} /\ asked = FALSE
    OBVIOUS
  <2>2. Solo(still, asked)
    BY <2>1 DEF ChildTurn
  <2>3. Solo(still, asked)'
    BY <1>1, <2>2, SoloStands
  <2> QED
    BY <1>2, <2>1, <2>3 DEF ChildTurn, NothingElse
<1>4. CASE SpawnChild \/ OpenGate \/ \E d \in scanning : DiscoveryEnds(d)
  <2>1. UNCHANGED <<heard, signalled>>
    BY <1>4 DEF SpawnChild, OpenGate, DiscoveryEnds
  <2>2. \/ call \in {"called", "spawned"} /\ call' \in {"spawned", "settling"}
        \/ call' = call
    BY <1>4 DEF SpawnChild, OpenGate, DiscoveryEnds
  <2>3. (Untouched => Untouched') /\ (call' = call => (Begun => Begun'))
    BY <1>2, <2>1 DEF Untouched, Begun
  <2> QED
    BY <1>2, <1>3, <2>2, <2>3 DEF ChildTurn
<1>5. CASE ReturnAnswer
  <2>1. call = "waiting" /\ signalled /\ call' = "Finished" /\ UNCHANGED <<heard, signalled>>
    BY <1>5 DEF ReturnAnswer
  <2>2. Begun
    BY <2>1 DEF ChildTurn, Untouched
  <2>3. Begun'
    BY <1>2, <2>1, <2>2 DEF Begun
  <2> QED
    BY <1>3, <2>1, <2>3 DEF ChildTurn
<1>6. CASE Signal
  <2>1. heard > 0 /\ heard' = 0 /\ call' = call
    BY <1>6 DEF Signal
  <2>2. ~Untouched
    BY <2>1 DEF Untouched
  <2>3. Begun /\ call \in {"waiting", "Finished"}
    BY <2>2 DEF ChildTurn
  <2>4. Begun'
    BY <1>2, <2>1, <2>3 DEF Begun
  <2> QED
    BY <1>3, <2>1, <2>3, <2>4 DEF ChildTurn
<1> QED
  BY <1>4, <1>5, <1>6

LEMMA PromptSent ==
  ASSUME SubInv, ChildTurn, EnqueuePrompt
  PROVE  ChildTurn'
<1> USE DEF sessionVars, llmVars, toolVars, userVars
<1>1. /\ call = "settling" /\ call' = "waiting" /\ sessionBox' = Append(sessionBox, Enqueue({Prompt}))
      /\ UNCHANGED <<queue, steering, input, bridge, hand, job, phase, llmBox, toolBox, stream, running,
                     idleEvents, heard, signalled>>
  BY DEF EnqueuePrompt
<1>2. Solo({}, FALSE) /\ NothingElse /\ Untouched /\ sessionBox = <<>>
  BY <1>1 DEF ChildTurn
<1>3. Solo({}, FALSE)'
  BY <1>2, PromptSolo DEF SubInv
<1>4. sessionBox' = <<Enqueue({Prompt})>>
  BY <1>1, <1>2
<1>5. ~Carrying(sessionBox', ResumeMsg)
  <2>1. Enqueue({Prompt}) \notin ResumeMsg
    BY DEF Enqueue, ResumeMsg
  <2>2. Mail(sessionBox') = {Enqueue({Prompt})}
    BY <1>4 DEF Mail
  <2> QED
    BY <2>1, <2>2 DEF Carrying
<1>6. NothingElse' /\ Untouched'
  BY <1>1, <1>2, <1>5 DEF NothingElse, Untouched
<1> QED
  BY <1>1, <1>3, <1>4, <1>6 DEF ChildTurn

LEMMA ChildKeptStep ==
  ASSUME SubInv, SubInv', ChildKept, [SubNext]_subVars, [CallAlone]_subVars
  PROVE  ChildKept'
<1> SUFFICES ASSUME LeftAlone', call' \notin {"TimedOut", "aborted"}
             PROVE  ChildTurn'
  BY DEF ChildKept
<1>0. TypeOK /\ TypeOK'
  BY DEF SubInv
<1>1. ASSUME ChildStep(Outside) \/ ChildStep(Child)
      PROVE  submitted \subseteq submitted'
  BY <1>1, SubmittedGrows DEF ChildStep, Outside, Child, Next
<1>2. CASE ChildStep(Child)
  <2>1. LeftAlone /\ call' = call
    BY <1>1, <1>2 DEF LeftAlone, ChildStep
  <2> QED
    BY <1>0, <1>2, <2>1, ChildWorks DEF ChildKept
<1>3. ASSUME ChildStep(Outside), CallAlone
      PROVE  ChildTurn'
  <2>1. LeftAlone /\ call' = call
    BY <1>1, <1>3 DEF LeftAlone, ChildStep
  <2> QED
    BY <1>0, <1>3, <2>1, UserLooks DEF ChildKept
<1>4. CASE \/ SpawnChild \/ OpenGate \/ ReturnAnswer \/ Signal
           \/ \E d \in scanning : DiscoveryEnds(d)
  <2>1. UNCHANGED vars /\ call \notin {"TimedOut", "aborted"}
    BY <1>4 DEF SpawnChild, OpenGate, ReturnAnswer, Signal, DiscoveryEnds
  <2>2. LeftAlone
    BY <2>1 DEF LeftAlone, vars, userVars
  <2> QED
    BY <1>4, <2>1, <2>2, CallWaits DEF ChildKept
<1>5. CASE EnqueuePrompt
  <2>1. LeftAlone /\ call = "settling"
    BY <1>5 DEF LeftAlone, EnqueuePrompt
  <2> QED
    BY <1>5, <2>1, PromptSent DEF ChildKept
<1>6. ~Expire /\ ~AbortCall
  BY DEF Expire, AbortCall
<1>7. CASE UNCHANGED subVars
  <2>1. UNCHANGED vars /\ UNCHANGED <<call, heard, signalled>>
    BY <1>7 DEF subVars, callVars
  <2>2. LeftAlone
    BY <2>1 DEF LeftAlone, vars, userVars
  <2>3. ChildTurn
    BY <2>1, <2>2 DEF ChildKept
  <2>4. UNCHANGED <<queue, steering, input, bridge, hand, job, sessionBox, phase, llmBox, toolBox, stream,
                    running, idleEvents, history>>
    BY <2>1 DEF vars, sessionVars, llmVars, toolVars, userVars
  <2>5. PICK still, asked : still = {} /\ asked = FALSE
    OBVIOUS
  <2>6. Solo(still, asked)
    BY <2>3, <2>5 DEF ChildTurn
  <2>7. Solo(still, asked)'
    BY <2>1, <2>6, SoloStands
  <2>8. Solo({}, FALSE)'
    BY <2>5, <2>7
  <2> QED
    BY <2>1, <2>3, <2>4, <2>8 DEF ChildTurn, NothingElse, Untouched, Begun
<1>8. (SubNext \/ UNCHANGED subVars) /\ (CallAlone \/ UNCHANGED subVars)
  OBVIOUS
<1> QED
  BY <1>2, <1>3, <1>4, <1>5, <1>6, <1>7, <1>8 DEF SubNext, Call

LEMMA ChildKeptInit == SubInit => ChildKept
<1> SUFFICES ASSUME SubInit
             PROVE  ChildTurn
  BY DEF ChildKept
<1>1. Init /\ call = "called" /\ heard = 0 /\ signalled = FALSE
  BY DEF SubInit
<1>2. Solo({}, FALSE)
  BY <1>1, SoloInit
<1>3. ~Carrying(sessionBox, ResumeMsg)
  BY <1>1 DEF Init, Carrying, Mail
<1> QED
  BY <1>1, <1>2, <1>3 DEF Init, ChildTurn, NothingElse, Untouched, NoJob

-----------------------------------------------------------------------------
\* The answer of a finished call is read from a child that is done: its prompt has been
\* dispatched, the session rests, no stream talks and no tool runs in it; provided that
\* nobody cancels, resumes or restarts the child in between.
THEOREM ChildDoneWhenAnswered ==
  SubSpec /\ [][CallAlone]_subVars => []FinishedChildRests
<1>1. SubInv /\ ChildKept => FinishedChildRests
  <2> SUFFICES ASSUME SubInv, ChildKept, call = "Finished", LeftAlone
               PROVE  /\ phase = "Idle" /\ queue = <<>> /\ running = {}
                      /\ \A g \in Gens : ~Live(g)
                      /\ \E i \in DOMAIN history : Prompt \in history[i]
    BY DEF FinishedChildRests
  <2>1. ChildTurn
    BY DEF ChildKept
  <2>2. Begun /\ Solo({}, FALSE) /\ queue = <<>>
    BY <2>1 DEF ChildTurn, NothingElse
  <2>3. phase = "Idle" /\ \E i \in DOMAIN history : Prompt \in history[i]
    BY <2>2 DEF Begun
  <2>4. Activity({}, FALSE) = {}
    BY <2>2, <2>3 DEF Solo, OneActivity
  <2>5. running = {}
    <3>1. batch = 0
      BY <2>4, Absent
    <3> QED
      BY <2>2, <3>1 DEF Solo, ToolsAnswer
  <2>6. \A g \in Gens : ~Live(g)
    <3>1. \A g \in Gens : stream[g].st \notin {"open", "tokens", "handoff"}
      BY <2>4 DEF Activity, Acting
    <3> QED
      BY <3>1 DEF Live
  <2> QED
    BY <2>2, <2>3, <2>5, <2>6
<1>2. SubInv /\ SubInv' /\ ChildKept /\ [SubNext]_subVars /\ [CallAlone]_subVars => ChildKept'
  BY ChildKeptStep
<1> QED
  BY <1>1, <1>2, ChildKeptInit, SubInvariant, PTL DEF SubSpec

=============================================================================
