-------------------------- MODULE TurnEngineProofs --------------------------
(* What holds of a turn for every set of texts, every mix of input modes and  *)
(* every number of inputs and mishaps; and, at the end, what holds besides of *)
(* a turn that nobody cancels and in which no dispatch overtakes another.     *)
EXTENDS TurnEngine, SequenceTheorems, TLAPS

-----------------------------------------------------------------------------
(* The messages are told apart by their type. *)

\* A message an actor builds is one its receivers know.
LEMMA MessageKinds ==
  /\ \A e \in Texts : /\ Enqueue(e) \in SessionMsg /\ Enqueue(e) \in BridgeMsg
                      /\ Steer(e) \in SessionMsg /\ Steer(e) \in BridgeMsg
  /\ \A g \in Nat, o \in Origins : Send(g, o) \in SessionMsg /\ Send(g, o) \in LlmMsg
  /\ \A g \in Nat, r \in Reasons :
       Completed(g, r) \in SessionMsg /\ Completed(g, r) \in LlmMsg
  /\ \A g \in Nat : /\ Note("StreamToken", g) \in SessionMsg
                    /\ Note("ToolExecutionCompleted", g) \in SessionMsg
                    /\ Note("ToolExecutionCompleted", g) \in ToolMsg
                    /\ Note("ToolBatchCompleted", g) \in SessionMsg
                    /\ Note("ExecuteToolBatch", g) \in ToolMsg
  /\ \A n \in Nat : /\ [type |-> "CancelStream", nth |-> n] \in BridgeMsg
                    /\ [type |-> "CancelStream", nth |-> n] \in LlmMsg
                    /\ [type |-> "EnqueueResumeTurn", nth |-> n] \in BridgeMsg
  /\ [type |-> "RetryStalledSession"] \in SessionMsg
  /\ [type |-> "CancelToolBatch"] \in ToolMsg
BY DEF Enqueue, Steer, Send, Completed, Note, SessionMsg, BridgeMsg, LlmMsg, ToolMsg,
       EntryMsg, RetryMsg, ResumeMsg, SendMsg, CompletedMsg, CancelMsg, BatchMsg,
       CancelBatchMsg

\* What a handler reads from the message at its mailbox's head.
LEMMA MessageFields ==
  /\ \A m \in SessionMsg :
       /\ m.type \in {"EnqueueUserMessage", "SubmitSteeringMessage"} => m.entry \in Texts
       /\ m.type = "SendToLlmProvider" => m.gen \in Nat
       /\ m.type = "StreamCompleted" => m.gen \in Nat /\ m.reason \in Reasons
       /\ m.type \in {"ToolExecutionCompleted", "ToolBatchCompleted"} => m.gen \in Nat
  /\ \A m \in LlmMsg :
       m.type = "SendToLlmProvider" => m.gen \in Nat /\ m.origin \in Origins
  /\ \A m \in ToolMsg : m.type \in {"ExecuteToolBatch", "ToolExecutionCompleted"}
                          => m.gen \in Nat
  /\ \A m \in BridgeMsg : IF m.type = "CancelStream" THEN m \in LlmMsg
                          ELSE m \in SessionMsg
BY DEF SessionMsg, BridgeMsg, LlmMsg, ToolMsg, EntryMsg, RetryMsg, ResumeMsg, SendMsg,
       CompletedMsg, CancelMsg, BatchMsg, CancelBatchMsg

\* What the session actor finds at the head of its mailbox.
LEMMA SessionHead ==
  ASSUME sessionBox \in Seq(SessionMsg), NEW type, NextSessionMsg(type)
  PROVE  /\ Head(sessionBox) \in SessionMsg /\ Head(sessionBox).type = type
         /\ job = NoJob /\ sessionBox' \in Seq(SessionMsg)
BY DEF NextSessionMsg

LEMMA LlmHead ==
  ASSUME llmBox \in Seq(LlmMsg), NEW type, NextLlmMsg(type)
  PROVE  /\ Head(llmBox) \in LlmMsg /\ Head(llmBox).type = type
         /\ Tail(llmBox) \in Seq(LlmMsg)
BY DEF NextLlmMsg

LEMMA ToolHead ==
  ASSUME toolBox \in Seq(ToolMsg), NEW type, NextToolMsg(type)
  PROVE  /\ Head(toolBox) \in ToolMsg /\ Head(toolBox).type = type
         /\ toolBox' \in Seq(ToolMsg)
BY DEF NextToolMsg

\* The phase machine never leaves its three phases.
LEMMA PhaseClosed ==
  \A p \in Phases : /\ Cancel(p) \in Phases /\ BeginSending(p) \in Phases
                    /\ BeginStreaming(p) \in Phases /\ OnFirstToken(p) \in Phases
                    /\ OnStreamCompletedFinished(p) \in Phases
BY DEF Phases, Cancel, BeginSending, BeginStreaming, OnFirstToken, OnDispatchMessage,
       OnStreamCompletedFinished, Transition

LEMMA ChargeClosed ==
  ASSUME budget \in [Inputs -> Nat], NEW kinds, Charge(kinds)
  PROVE  budget' \in [Inputs -> Nat]
<1>1. \A k \in Inputs : k \in kinds => budget[k] - 1 \in Nat
  BY DEF Charge
<1> QED
  BY <1>1 DEF Charge

\* The dispatch paths meet at `drain` and part at `send`.
LEMMA JobClosed ==
  /\ \A at \in {"drain", "begin", "send"}, o \in Origins, e \in BOOLEAN, b \in Nat :
       Dispatch(at, o, e, b) \in Jobs
  /\ [at |-> "resume"] \in Jobs /\ NoJob \in Jobs
  /\ \A j \in Jobs : j.at \in {"drain", "begin", "send"} =>
       /\ j.gen \in Nat /\ j.origin \in Origins /\ j.early \in BOOLEAN /\ j.batch \in Nat
       /\ \A at \in {"drain", "begin", "send"} : [j EXCEPT !.at = at] \in Jobs
       /\ \A at \in {"drain", "begin", "send"}, g \in Nat :
            [j EXCEPT !.at = at, !.gen = g] \in Jobs
<1> DEFINE Dispatches == [at : {"drain", "begin", "send"}, origin : Origins,
                          early : BOOLEAN, batch : Nat, gen : Nat]
<1>1. /\ \A at \in {"drain", "begin", "send"}, o \in Origins, e \in BOOLEAN, b \in Nat :
            Dispatch(at, o, e, b) \in Dispatches
      /\ [at |-> "resume"] \in Jobs /\ NoJob \in Jobs
  BY DEF Jobs, Dispatch, NoJob
<1>2. Dispatches \subseteq Jobs
  BY DEF Jobs
<1>3. ASSUME NEW j \in Jobs, j.at \in {"drain", "begin", "send"}
      PROVE  j \in Dispatches
  BY <1>3 DEF Jobs, NoJob
<1>4. ASSUME NEW j \in Dispatches
      PROVE  /\ j.gen \in Nat /\ j.origin \in Origins /\ j.early \in BOOLEAN
             /\ j.batch \in Nat
             /\ \A at \in {"drain", "begin", "send"} : [j EXCEPT !.at = at] \in Dispatches
             /\ \A at \in {"drain", "begin", "send"}, g \in Nat :
                  [j EXCEPT !.at = at, !.gen = g] \in Dispatches
  OBVIOUS
<1> HIDE DEF Dispatches
<1> QED
  BY <1>1, <1>2, <1>3, <1>4

LEMMA RestoreClosed ==
  ASSUME input \in Texts, overwritten \subseteq Msgs, NEW text \in Texts, RestoreToInput(text)
  PROVE  input' \in Texts /\ overwritten' \subseteq Msgs
BY DEF RestoreToInput, Texts

LEMMA JoinClosed == \A q \in Seq(Texts) : Join(q) \in Texts
BY DEF Join, Texts

LEMMA StreamClosed ==
  ASSUME stream \in Seq([of : Nat, st : StreamStates])
  PROVE  /\ Now \in Nat
         /\ \A o \in Nat, s \in StreamStates :
              Append(stream, [of |-> o, st |-> s])
                \in Seq([of : Nat, st : StreamStates])
         /\ \A g \in Nat, s \in StreamStates :
              [stream EXCEPT ![g].st = s] \in Seq([of : Nat, st : StreamStates])
<1> DEFINE Stream == [of : Nat, st : StreamStates]
<1>1. Now \in Nat
  BY DEF Now
<1>2. \A o \in Nat, s \in StreamStates : [of |-> o, st |-> s] \in Stream
  OBVIOUS
<1>3. \A r \in Stream, s \in StreamStates : [r EXCEPT !.st = s] \in Stream
  OBVIOUS
<1> HIDE DEF Stream
<1>4. stream \in Seq(Stream)
  BY DEF Stream
<1>5. ASSUME NEW g \in Nat, NEW s \in StreamStates
      PROVE  [stream EXCEPT ![g].st = s] \in Seq(Stream)
  <2>1. CASE g \in 1..Len(stream)
    <3>1. [stream[g] EXCEPT !.st = s] \in Stream
      BY <1>3, <1>4, <2>1
    <3> QED
      BY <3>1, <1>4, <2>1, ExceptSeq
  <2>2. CASE g \notin 1..Len(stream)
    <3>1. stream \in [1..Len(stream) -> Stream]
      BY <1>4, LenProperties
    <3>2. [stream EXCEPT ![g].st = s] = stream
      BY <3>1, <2>2
    <3> QED
      BY <3>2, <1>4
  <2> QED
    BY <2>1, <2>2
<1>6. ASSUME NEW o \in Nat, NEW s \in StreamStates
      PROVE  Append(stream, [of |-> o, st |-> s]) \in Seq(Stream)
  BY <1>2, <1>4, AppendProperties
<1> QED
  BY <1>1, <1>5, <1>6 DEF Stream

-----------------------------------------------------------------------------
(* Type correctness, one actor at a time. *)

LEMMA FrontendTypes ==
  ASSUME TypeOK, Frontend \/ Plugins \/ \E m \in bridge : BridgePublish(m)
  PROVE  TypeOK'
<1> USE ModesAssumption DEF sessionVars, llmVars, toolVars, userVars
<1>1. ASSUME NEW mode \in Modes, NEW new \in {{}} \cup {{m} : m \in Msgs}, Submit(new, mode)
      PROVE  TypeOK'
  <2>1. budget' \in [Inputs -> Nat]
    BY <1>1, ChargeClosed DEF TypeOK, Submit, Spend
  <2>2. input \cup new \in Texts /\ new \subseteq Msgs
    BY <1>1 DEF TypeOK, Texts
  <2>3. bridge' \subseteq BridgeMsg
    BY <1>1, <2>2, MessageKinds DEF TypeOK, Submit
  <2> QED
    BY <1>1, <2>1, <2>2, <2>3 DEF TypeOK, Submit, Texts
<1>2. CASE AskCancel
  BY <1>2 DEF TypeOK, AskCancel
<1>3. CASE EscConfirm
  <2>1. budget' \in [Inputs -> Nat]
    BY <1>3, ChargeClosed DEF TypeOK, EscConfirm, Spend
  <2>2. steering \cup Join(queue) \in Texts
    BY JoinClosed DEF TypeOK, Texts
  <2>3. input' \in Texts /\ overwritten' \subseteq Msgs
    BY <1>3, <2>2, RestoreClosed DEF TypeOK, EscConfirm
  <2>4. CancelNth \in Nat
    BY DEF TypeOK, CancelNth, Inputs
  <2>5. bridge' \subseteq BridgeMsg
    BY <1>3, <2>4, MessageKinds DEF TypeOK, EscConfirm
  <2>6. {} \in Texts /\ <<>> \in Seq(Texts)
    BY DEF Texts
  <2>7. phase' \in Phases
    BY <1>3, PhaseClosed DEF TypeOK, EscConfirm
  <2> QED
    BY <1>3, <2>1, <2>3, <2>5, <2>6, <2>7 DEF TypeOK, EscConfirm, DrainBuffers
<1>4. CASE Interrupt
  <2>1. budget' \in [Inputs -> Nat]
    BY <1>4, ChargeClosed DEF TypeOK, Interrupt, Spend
  <2>2. CancelNth \in Nat
    BY DEF TypeOK, CancelNth, Inputs
  <2>3. bridge' \subseteq BridgeMsg
    BY <1>4, <2>2, MessageKinds DEF TypeOK, Interrupt
  <2>4. phase' \in Phases
    BY <1>4, PhaseClosed DEF TypeOK, Interrupt
  <2> QED
    BY <1>4, <2>1, <2>3, <2>4 DEF TypeOK, Interrupt
<1>5. CASE RequestResume
  <2>1. budget' \in [Inputs -> Nat]
    BY <1>5, ChargeClosed DEF TypeOK, RequestResume, Spend
  <2>2. budget["resume"] \in Nat
    BY DEF TypeOK, Inputs
  <2>3. bridge' \subseteq BridgeMsg
    BY <1>5, <2>2, MessageKinds DEF TypeOK, RequestResume
  <2> QED
    BY <1>5, <2>1, <2>3 DEF TypeOK, RequestResume
<1>6. CASE OutsideCancel
  <2>1. budget' \in [Inputs -> Nat]
    BY <1>6, ChargeClosed DEF TypeOK, OutsideCancel, Spend
  <2>2. [type |-> "CancelStream", nth |-> 0] \in LlmMsg
    BY MessageKinds
  <2>3. llmBox' \in Seq(LlmMsg)
    BY <1>6, <2>2 DEF TypeOK, OutsideCancel
  <2> QED
    BY <1>6, <2>1, <2>3 DEF TypeOK, OutsideCancel
<1>7. CASE StallTrip
  <2>1. budget' \in [Inputs -> Nat]
    BY <1>7, ChargeClosed DEF TypeOK, StallTrip, Spend
  <2>2. sessionBox' \in Seq(SessionMsg)
    BY <1>7, MessageKinds DEF TypeOK, StallTrip
  <2> QED
    BY <1>7, <2>1, <2>2 DEF TypeOK, StallTrip
<1>8. ASSUME NEW m \in bridge, BridgePublish(m)
      PROVE  TypeOK'
  <2>1. IF m.type = "CancelStream" THEN m \in LlmMsg ELSE m \in SessionMsg
    BY <1>8, MessageFields DEF TypeOK
  <2>2. sessionBox' \in Seq(SessionMsg) /\ llmBox' \in Seq(LlmMsg)
    <3>1. CASE m.type = "CancelStream"
      <4>1. m \in LlmMsg /\ llmBox' = Append(llmBox, m) /\ sessionBox' = sessionBox
        BY <1>8, <2>1, <3>1 DEF BridgePublish
      <4> QED
        BY <4>1, AppendProperties DEF TypeOK
    <3>2. CASE m.type # "CancelStream"
      <4>1. m \in SessionMsg /\ sessionBox' = Append(sessionBox, m) /\ llmBox' = llmBox
        BY <1>8, <2>1, <3>2 DEF BridgePublish
      <4> QED
        BY <4>1, AppendProperties DEF TypeOK
    <3> QED
      BY <3>1, <3>2
  <2> QED
    BY <1>8, <2>2 DEF TypeOK, BridgePublish
<1> QED
  BY <1>1, <1>2, <1>3, <1>4, <1>5, <1>6, <1>7, <1>8 DEF Frontend, Plugins

LEMMA SessionActorTypes ==
  ASSUME TypeOK, SessionActor
  PROVE  TypeOK'
<1> USE DEF sessionVars, llmVars, toolVars, userVars
<1>1. CASE HandleEnqueueUserMessage
  <2>1. /\ Head(sessionBox).entry \in Texts /\ job = NoJob
        /\ sessionBox' \in Seq(SessionMsg)
    BY <1>1, SessionHead, MessageFields DEF TypeOK, HandleEnqueueUserMessage
  <2>2. /\ queue' = queue \/ queue' = Append(queue, Head(sessionBox).entry)
        /\ history' = history \/ history' = Append(history, Head(sessionBox).entry)
        /\ phase' \in Phases
    BY <1>1, PhaseClosed DEF TypeOK, HandleEnqueueUserMessage
  <2>3. job' \in Jobs
    BY <1>1, JobClosed DEF TypeOK, HandleEnqueueUserMessage, Origins
  <2>4. queue' \in Seq(Texts) /\ history' \in Seq(Texts)
    <3>1. queue \in Seq(Texts) /\ history \in Seq(Texts)
      BY DEF TypeOK
    <3>2. /\ Append(queue, Head(sessionBox).entry) \in Seq(Texts)
          /\ Append(history, Head(sessionBox).entry) \in Seq(Texts)
      BY <2>1, <3>1, AppendProperties
    <3> QED
      BY <2>2, <3>1, <3>2
  <2> QED
    BY <1>1, <2>1, <2>2, <2>3, <2>4 DEF TypeOK, HandleEnqueueUserMessage
<1>2. CASE HandleSubmitSteeringMessage
  <2>1. Head(sessionBox).entry \in Texts /\ sessionBox' \in Seq(SessionMsg)
    BY <1>2, SessionHead, MessageFields DEF TypeOK, HandleSubmitSteeringMessage
  <2> QED
    BY <1>2, <2>1 DEF TypeOK, HandleSubmitSteeringMessage, Texts
<1>3. CASE HandleEnqueueResumeTurn
  <2>1. job' \in Jobs /\ sessionBox' \in Seq(SessionMsg)
    BY <1>3, SessionHead, JobClosed DEF TypeOK, HandleEnqueueResumeTurn
  <2> QED
    BY <1>3, <2>1 DEF TypeOK, HandleEnqueueResumeTurn
<1>4. CASE ResumeTurn
  <2>1. job' \in Jobs /\ phase' \in Phases
    BY <1>4, JobClosed, PhaseClosed DEF TypeOK, ResumeTurn, Origins
  <2> QED
    BY <1>4, <2>1 DEF TypeOK, ResumeTurn
<1>5. CASE HandleRetryStalledSession
  <2>1. job' \in Jobs /\ sessionBox' \in Seq(SessionMsg)
    BY <1>5, SessionHead, JobClosed DEF TypeOK, HandleRetryStalledSession, Origins
  <2> QED
    BY <1>5, <2>1 DEF TypeOK, HandleRetryStalledSession
<1>6. CASE DrainSteering
  <2>1. job' \in Jobs
    BY <1>6, JobClosed DEF TypeOK, DrainSteering
  <2>2. {} \in Texts /\ history' \in Seq(Texts)
    BY <1>6 DEF TypeOK, DrainSteering, Texts
  <2> QED
    BY <1>6, <2>1, <2>2 DEF TypeOK, DrainSteering
<1>7. CASE BeginDispatch
  <2>1. /\ job.batch \in Nat /\ "stamped" \in StreamStates
        /\ phase' \in Phases
    BY <1>7, JobClosed, PhaseClosed DEF TypeOK, BeginDispatch, StreamStates
  <2>2. job' \in Jobs
    BY <1>7, JobClosed, StreamClosed DEF TypeOK, BeginDispatch
  <2>3. stream' \in Seq([of : Nat, st : StreamStates])
    <3>1. stream' = stream \/ stream' = Append(stream, [of |-> job.batch, st |-> "stamped"])
      BY <1>7 DEF BeginDispatch, Stamped
    <3> QED
      BY <2>1, <3>1, StreamClosed DEF TypeOK
  <2> QED
    BY <1>7, <2>1, <2>2, <2>3 DEF TypeOK, BeginDispatch
<1>8. CASE SendDispatch
  <2>1. /\ job.origin \in Origins /\ job.gen \in Nat /\ "stamped" \in StreamStates
        /\ job.batch \in Nat /\ NoJob \in Jobs /\ Now \in Nat
    BY <1>8, JobClosed, StreamClosed DEF TypeOK, SendDispatch, StreamStates
  <2>2. stream' \in Seq([of : Nat, st : StreamStates])
    BY <1>8, <2>1, StreamClosed DEF TypeOK, SendDispatch, Stamped
  <2>3. PICK g \in Nat : PublishSend(g, job.origin)
    BY <1>8, <2>1 DEF SendDispatch
  <2>4. Send(g, job.origin) \in SessionMsg /\ Send(g, job.origin) \in LlmMsg
    BY <2>1, MessageKinds
  <2>5. sessionBox' \in Seq(SessionMsg) /\ llmBox' \in Seq(LlmMsg)
    BY <2>3, <2>4 DEF TypeOK, PublishSend
  <2> QED
    BY <1>8, <2>1, <2>2, <2>5 DEF TypeOK, SendDispatch
<1>9. CASE HandleSendToLlmProvider
  <2>1. guard' \in Nat /\ sessionBox' \in Seq(SessionMsg)
    BY <1>9, SessionHead, MessageFields DEF TypeOK, HandleSendToLlmProvider
  <2> QED
    BY <1>9, <2>1 DEF TypeOK, HandleSendToLlmProvider
<1>10. CASE HandleStreamToken
  <2>1. phase' \in Phases /\ sessionBox' \in Seq(SessionMsg)
    BY <1>10, SessionHead, PhaseClosed DEF TypeOK, HandleStreamToken
  <2> QED
    BY <1>10, <2>1 DEF TypeOK, HandleStreamToken
<1>11. CASE HandleStreamCompleted
  <2>1. job = NoJob /\ sessionBox' \in Seq(SessionMsg)
    BY <1>11, SessionHead DEF TypeOK, HandleStreamCompleted
  <2>2. phase' \in Phases
    BY <1>11, PhaseClosed DEF TypeOK, HandleStreamCompleted
  <2>3. queue' \in Seq(Texts) /\ input' \in Texts /\ overwritten' \subseteq Msgs
    <3>1. Join(queue) \in Texts
      BY JoinClosed DEF TypeOK
    <3>2. \/ UNCHANGED <<queue, input, overwritten>>
          \/ queue' = <<>> /\ RestoreToInput(Join(queue))
      BY <1>11 DEF HandleStreamCompleted
    <3>3. CASE UNCHANGED <<queue, input, overwritten>>
      BY <3>3 DEF TypeOK
    <3>4. CASE queue' = <<>> /\ RestoreToInput(Join(queue))
      <4>1. input' \in Texts /\ overwritten' \subseteq Msgs
        BY <3>1, <3>4, RestoreClosed DEF TypeOK
      <4> QED
        BY <3>4, <4>1
    <3> QED
      BY <3>2, <3>3, <3>4
  <2>4. idleEvents' \in Nat /\ guard' \in Nat
    BY <1>11 DEF TypeOK, HandleStreamCompleted
  <2>5. job' \in Jobs /\ pendingBatch' \in Nat
    <3>1. UNCHANGED <<pendingBatch, job>> \/ ContinueBuffered
      BY <1>11 DEF HandleStreamCompleted
    <3>2. ASSUME ContinueBuffered
          PROVE  job' \in Jobs /\ pendingBatch' \in Nat
      BY <3>2, JobClosed DEF TypeOK, ContinueBuffered, Origins
    <3> QED
      BY <3>1, <3>2 DEF TypeOK
  <2> QED
    BY <1>11, <2>1, <2>2, <2>3, <2>4, <2>5 DEF TypeOK, HandleStreamCompleted
<1>12. CASE HandleToolExecutionCompleted
  <2>1. Head(sessionBox).gen \in Nat /\ sessionBox' \in Seq(SessionMsg)
    BY <1>12, SessionHead, MessageFields DEF TypeOK, HandleToolExecutionCompleted
  <2> QED
    BY <1>12, <2>1 DEF TypeOK, HandleToolExecutionCompleted
<1>13. CASE HandleToolBatchCompleted
  <2>1. Head(sessionBox).gen \in Nat /\ sessionBox' \in Seq(SessionMsg)
    BY <1>13, SessionHead, MessageFields DEF TypeOK, HandleToolBatchCompleted
  <2>2. job' \in Jobs /\ pendingBatch' \in Nat
    BY <1>13, <2>1, JobClosed DEF TypeOK, HandleToolBatchCompleted, Origins
  <2> QED
    BY <1>13, <2>1, <2>2 DEF TypeOK, HandleToolBatchCompleted
<1> QED
  BY <1>1, <1>2, <1>3, <1>4, <1>5, <1>6, <1>7, <1>8, <1>9, <1>10, <1>11, <1>12, <1>13
     DEF SessionActor

LEMMA PublishClosed ==
  ASSUME sessionBox \in Seq(SessionMsg), NEW box \in Seq(LlmMsg), NEW g \in Nat,
         NEW r \in Reasons, PublishCompleted(box, g, r)
  PROVE  sessionBox' \in Seq(SessionMsg) /\ llmBox' \in Seq(LlmMsg)
<1>1. Completed(g, r) \in SessionMsg /\ Completed(g, r) \in LlmMsg
  BY MessageKinds
<1> QED
  BY <1>1 DEF PublishCompleted

LEMMA QueueTypes ==
  ASSUME TypeOK, Queue
  PROVE  TypeOK'
<1> USE DEF sessionVars, llmVars, toolVars, userVars
<1>1. CASE PopOnIdle
  <2>1. queue # <<>> => Head(queue) \in Texts /\ Tail(queue) \in Seq(Texts)
    BY HeadTailProperties DEF TypeOK
  <2>2. \A e \in Texts : [at |-> "popped", entry |-> e] \in Hands
    BY DEF Hands
  <2>3. hand' \in Hands /\ queue' \in Seq(Texts)
    BY <1>1, <2>1, <2>2 DEF TypeOK, PopOnIdle
  <2>4. steering' \in Texts /\ idleEvents' \in Nat
    BY <1>1 DEF TypeOK, PopOnIdle, Texts
  <2> QED
    BY <1>1, <2>3, <2>4 DEF TypeOK, PopOnIdle
<1>2. CASE PushPopped
  <2>1. hand.entry \in Texts
    BY <1>2 DEF TypeOK, PushPopped, Hands, NoHand
  <2>2. Append(history, hand.entry) \in Seq(Texts)
    BY <2>1, AppendProperties DEF TypeOK
  <2>3. (IF steering = {} THEN <<>> ELSE <<steering>>) \in Seq(Texts)
    BY DEF TypeOK
  <2>4. history' \in Seq(Texts)
    BY <1>2, <2>2, <2>3, ConcatProperties DEF PushPopped
  <2>5. phase' \in Phases /\ hand' \in Hands /\ {} \in Texts
    BY <1>2, PhaseClosed DEF TypeOK, PushPopped, Hands, Texts
  <2> QED
    BY <1>2, <2>4, <2>5 DEF TypeOK, PushPopped
<1>3. CASE SendPopped
  <2>1. "User" \in Origins /\ "stamped" \in StreamStates /\ Now \in Nat
    BY StreamClosed DEF TypeOK, Origins, StreamStates
  <2>2. stream' \in Seq([of : Nat, st : StreamStates])
    BY <1>3, <2>1, StreamClosed DEF TypeOK, SendPopped, Stamped
  <2>3. Send(Now, "User") \in SessionMsg /\ Send(Now, "User") \in LlmMsg
    BY <2>1, MessageKinds
  <2>4. sessionBox' \in Seq(SessionMsg) /\ llmBox' \in Seq(LlmMsg)
    BY <1>3, <2>3 DEF TypeOK, SendPopped, PublishSend
  <2>5. hand' \in Hands
    BY <1>3 DEF SendPopped, Hands
  <2> QED
    BY <1>3, <2>2, <2>4, <2>5 DEF TypeOK, SendPopped
<1> QED
  BY <1>1, <1>2, <1>3 DEF Queue

LEMMA LlmTypes ==
  ASSUME TypeOK, Llm
  PROVE  TypeOK'
<1> USE DEF sessionVars, llmVars, toolVars, userVars
<1>1. \A s \in {"dropped", "open", "ended"} : s \in StreamStates
  BY DEF StreamStates
<1>2. CASE DropContinuation
  <2>1. Head(llmBox).gen \in Nat /\ llmBox' \in Seq(LlmMsg)
    BY <1>2, LlmHead, MessageFields DEF TypeOK, DropContinuation
  <2>2. stream' \in Seq([of : Nat, st : StreamStates])
    BY <1>1, <1>2, <2>1, StreamClosed DEF TypeOK, DropContinuation
  <2> QED
    BY <1>2, <2>1, <2>2 DEF TypeOK, DropContinuation
<1>3. CASE StartStream
  <2>1. Head(llmBox).gen \in Nat /\ Tail(llmBox) \in Seq(LlmMsg)
    BY <1>3, LlmHead, MessageFields DEF TypeOK, StartStream
  <2>2. stream' \in Seq([of : Nat, st : StreamStates])
    <3>1. PICK s \in {"open", "ended"} :
            stream' = [stream EXCEPT ![Head(llmBox).gen].st = s]
      BY <1>3 DEF StartStream
    <3> QED
      BY <1>1, <2>1, <3>1, StreamClosed DEF TypeOK
  <2>3. \/ llmBox' = Tail(llmBox) /\ sessionBox' = sessionBox
        \/ PublishCompleted(Tail(llmBox), Head(llmBox).gen, "Error")
    BY <1>3 DEF StartStream
  <2>4. sessionBox' \in Seq(SessionMsg) /\ llmBox' \in Seq(LlmMsg)
    BY <2>1, <2>3, PublishClosed DEF TypeOK, Reasons
  <2>5. budget' \in [Inputs -> Nat]
    BY <1>3, ChargeClosed DEF TypeOK, StartStream, Spend
  <2>6. tracked' \in Nat \cup {NoStamp} /\ task' \in Nat /\ tombstone' \in BOOLEAN
    BY <1>3, <2>1 DEF TypeOK, StartStream
  <2>7. aborted' \subseteq Nat
    BY <1>3 DEF TypeOK, StartStream, AbortTask
  <2> QED
    BY <1>3, <2>2, <2>4, <2>5, <2>6, <2>7 DEF TypeOK, StartStream
<1>4. CASE UntrackCompleted
  <2>1. llmBox' \in Seq(LlmMsg) /\ tracked' \in Nat \cup {NoStamp}
    BY <1>4, LlmHead DEF TypeOK, UntrackCompleted
  <2> QED
    BY <1>4, <2>1 DEF TypeOK, UntrackCompleted
<1>5. CASE CancelStream
  <2>1. Tail(llmBox) \in Seq(LlmMsg) /\ CancelledGen \in Nat
    BY <1>5, LlmHead, StreamClosed DEF TypeOK, CancelStream, CancelledGen
  <2>2. \/ llmBox' = Tail(llmBox) /\ sessionBox' = sessionBox
        \/ PublishCompleted(Tail(llmBox), CancelledGen, "Canceled")
    BY <1>5 DEF CancelStream, CancelledGen
  <2>3. sessionBox' \in Seq(SessionMsg) /\ llmBox' \in Seq(LlmMsg)
    BY <2>1, <2>2, PublishClosed DEF TypeOK, Reasons
  <2>4. toolBox' \in Seq(ToolMsg)
    <3>1. toolBox' = toolBox \/ toolBox' = Append(toolBox, [type |-> "CancelToolBatch"])
      BY <1>5 DEF CancelStream
    <3>2. toolBox \in Seq(ToolMsg) /\ [type |-> "CancelToolBatch"] \in ToolMsg
      BY MessageKinds DEF TypeOK
    <3>3. Append(toolBox, [type |-> "CancelToolBatch"]) \in Seq(ToolMsg)
      BY <3>2, AppendProperties
    <3> QED
      BY <3>1, <3>2, <3>3
  <2>5. stream' \in Seq([of : Nat, st : StreamStates])
    BY <1>1, <1>5, StreamClosed DEF TypeOK, CancelStream, Origins
  <2>6. aborted' \subseteq Nat
    BY <1>5 DEF TypeOK, CancelStream, AbortTask
  <2> QED
    BY <1>5, <2>3, <2>4, <2>5, <2>6 DEF TypeOK, CancelStream
<1> QED
  BY <1>2, <1>3, <1>4, <1>5 DEF Llm

LEMMA StreamTaskTypes ==
  ASSUME TypeOK, NEW g \in Gens, StreamTask(g)
  PROVE  TypeOK'
<1> USE DEF sessionVars, llmVars, toolVars, userVars
<1>1. g \in Nat
  BY LenProperties DEF TypeOK, Gens
<1>2. ASSUME NEW from, NEW to \in StreamStates, StreamStep(g, from, to)
      PROVE  stream' \in Seq([of : Nat, st : StreamStates])
  BY <1>1, <1>2, StreamClosed DEF TypeOK, StreamStep
<1>3. ASSUME NEW r \in Reasons, PublishCompleted(llmBox, g, r)
      PROVE  sessionBox' \in Seq(SessionMsg) /\ llmBox' \in Seq(LlmMsg)
  BY <1>1, <1>3, PublishClosed DEF TypeOK
<1>4. CASE FirstToken(g)
  <2>1. budget' \in [Inputs -> Nat]
    BY <1>4, ChargeClosed DEF TypeOK, FirstToken
  <2>2. stream' \in Seq([of : Nat, st : StreamStates])
    BY <1>4, <1>2 DEF FirstToken, StreamStates
  <2>3. sessionBox' \in Seq(SessionMsg)
    BY <1>1, <1>4, MessageKinds DEF TypeOK, FirstToken
  <2> QED
    BY <1>4, <2>1, <2>2, <2>3 DEF TypeOK, FirstToken, StreamStep
<1>5. CASE StreamFinishes(g)
  <2>1. budget' \in [Inputs -> Nat]
    BY <1>5, ChargeClosed DEF TypeOK, StreamFinishes
  <2>2. stream' \in Seq([of : Nat, st : StreamStates])
    BY <1>5, <1>2 DEF StreamFinishes, StreamStates
  <2>3. sessionBox' \in Seq(SessionMsg) /\ llmBox' \in Seq(LlmMsg)
    BY <1>3, <1>5 DEF StreamFinishes, Reasons
  <2> QED
    BY <1>5, <2>1, <2>2, <2>3 DEF TypeOK, StreamFinishes, StreamStep
<1>6. CASE StreamFails(g)
  <2>1. budget' \in [Inputs -> Nat]
    BY <1>6, ChargeClosed DEF TypeOK, StreamFails
  <2>2. stream' \in Seq([of : Nat, st : StreamStates])
    BY <1>6, <1>2 DEF StreamFails, StreamStates
  <2>3. sessionBox' \in Seq(SessionMsg) /\ llmBox' \in Seq(LlmMsg)
    BY <1>3, <1>6 DEF StreamFails, Reasons
  <2> QED
    BY <1>6, <2>1, <2>2, <2>3 DEF TypeOK, StreamFails, StreamStep
<1>7. CASE StreamUsesTools(g)
  <2>1. budget' \in [Inputs -> Nat]
    BY <1>7, ChargeClosed DEF TypeOK, StreamUsesTools
  <2>2. stream' \in Seq([of : Nat, st : StreamStates])
    BY <1>7, <1>2 DEF StreamUsesTools, StreamStates
  <2>3. sessionBox' \in Seq(SessionMsg) /\ llmBox' \in Seq(LlmMsg)
    BY <1>3, <1>7 DEF StreamUsesTools, Reasons
  <2> QED
    BY <1>7, <2>1, <2>2, <2>3 DEF TypeOK, StreamUsesTools, StreamStep
<1>8. CASE HandOffBatch(g)
  <2>1. budget' \in [Inputs -> Nat]
    BY <1>8, ChargeClosed DEF TypeOK, HandOffBatch
  <2>2. stream' \in Seq([of : Nat, st : StreamStates])
    BY <1>8, <1>2 DEF HandOffBatch, StreamStates
  <2>3. toolBox' \in Seq(ToolMsg)
    BY <1>1, <1>8, MessageKinds DEF TypeOK, HandOffBatch
  <2> QED
    BY <1>8, <2>1, <2>2, <2>3 DEF TypeOK, HandOffBatch, StreamStep
<1>9. CASE StreamStops(g)
  <2>1. stream' \in Seq([of : Nat, st : StreamStates])
    BY <1>9, <1>2 DEF StreamStops, StreamStates
  <2> QED
    BY <1>9, <2>1 DEF TypeOK, StreamStops, StreamStep
<1> QED
  BY <1>4, <1>5, <1>6, <1>7, <1>8, <1>9 DEF StreamTask

LEMMA OrchestratorTypes ==
  ASSUME TypeOK, Orchestrator \/ \E g \in running : ToolFinishes(g)
  PROVE  TypeOK'
<1> USE DEF sessionVars, llmVars, toolVars, userVars
<1>1. CASE ExecuteToolBatch
  <2>1. Head(toolBox).gen \in Nat /\ toolBox' \in Seq(ToolMsg)
    BY <1>1, ToolHead, MessageFields DEF TypeOK, ExecuteToolBatch
  <2> QED
    BY <1>1, <2>1 DEF TypeOK, ExecuteToolBatch
<1>2. CASE CancelToolBatch
  <2>1. toolBox' \in Seq(ToolMsg)
    BY <1>2, ToolHead DEF TypeOK, CancelToolBatch
  <2>2. budget' \in [Inputs -> Nat]
    BY <1>2, ChargeClosed DEF TypeOK, CancelToolBatch, Spend
  <2>3. running' \subseteq Nat
    BY <1>2 DEF TypeOK, CancelToolBatch
  <2> QED
    BY <1>2, <2>1, <2>2, <2>3 DEF TypeOK, CancelToolBatch
<1>3. CASE CountToolResult
  <2>1. toolBox' \in Seq(ToolMsg)
    BY <1>3, ToolHead DEF TypeOK, CountToolResult
  <2>2. sessionBox' \in Seq(SessionMsg)
    BY <1>3, MessageKinds DEF TypeOK, CountToolResult
  <2> QED
    BY <1>3, <2>1, <2>2 DEF TypeOK, CountToolResult
<1>4. ASSUME NEW g \in running, ToolFinishes(g)
      PROVE  TypeOK'
  <2>1. Note("ToolExecutionCompleted", g) \in SessionMsg \cap ToolMsg
    BY MessageKinds DEF TypeOK
  <2>2. sessionBox' \in Seq(SessionMsg) /\ toolBox' \in Seq(ToolMsg)
    BY <1>4, <2>1 DEF TypeOK, ToolFinishes
  <2> QED
    BY <1>4, <2>2 DEF TypeOK, ToolFinishes
<1> QED
  BY <1>1, <1>2, <1>3, <1>4 DEF Orchestrator

LEMMA TypesInit == Init => TypeOK
<1>1. NoJob \in Jobs /\ NoHand \in Hands /\ "Idle" \in Phases /\ {} \in Texts
  BY JobClosed DEF Hands, Phases, Texts
<1>2. /\ <<>> \in Seq(Texts) /\ <<>> \in Seq([of : Nat, st : StreamStates])
      /\ <<>> \in Seq(SessionMsg) /\ <<>> \in Seq(LlmMsg) /\ <<>> \in Seq(ToolMsg)
  OBVIOUS
<1>3. 0 \in Nat /\ FALSE \in BOOLEAN
  OBVIOUS
<1> QED
  BY <1>1, <1>2, <1>3, BudgetAssumption, Zenon DEF Init, TypeOK

LEMMA TypesStep == TypeOK /\ [Next]_vars => TypeOK'
<1> SUFFICES ASSUME TypeOK, [Next]_vars
             PROVE  TypeOK'
  OBVIOUS
<1>1. CASE Next
  BY <1>1, FrontendTypes, SessionActorTypes, QueueTypes, LlmTypes, StreamTaskTypes,
     OrchestratorTypes DEF Next
<1>2. CASE UNCHANGED vars
  BY <1>2 DEF TypeOK, vars, sessionVars, llmVars, toolVars, userVars
<1> QED
  BY <1>1, <1>2

\* Every variable holds a value of its kind (TypeOK): each mailbox only messages
\* its actor subscribes to, each interrupted handler a point it really stops at.
THEOREM TypeCorrect == Spec => []TypeOK
  BY TypesInit, TypesStep, PTL DEF Spec

-----------------------------------------------------------------------------
(* At most one stream talks to the provider, and none does after a cancel.     *)
(* The two are one inductive invariant with the types: start_stream aborts the *)
(* only stream that can be live, so the new one is alone, and a cancel aborts  *)
(* it and leaves none, so the tombstone is only ever set on a silent session   *)
(* and a stream can start only on a send that lifts it.                        *)

Streams == OneLiveStream /\ CancelledSessionIsSilent

LiveVars == <<stream, aborted, task, tombstone>>

LEMMA StreamsUntouched ==
  ASSUME Streams, UNCHANGED LiveVars
  PROVE  Streams'
BY DEF Streams, LiveVars, OneLiveStream, CancelledSessionIsSilent, Live, Gens

\* A dispatch only stamps a generation: it is not live before the LLM actor has it.
LEMMA StreamsStamped ==
  ASSUME TypeOK, Streams, NEW o \in Nat, NEW s \in {"stamped", "ended"},
         stream' = Append(stream, [of |-> o, st |-> s]),
         UNCHANGED <<aborted, task, tombstone>>
  PROVE  Streams'
<1>1. /\ Len(stream') = Len(stream) + 1 /\ Len(stream) \in Nat
      /\ \A g \in 1..Len(stream) : stream'[g] = stream[g]
      /\ stream'[Len(stream) + 1].st = s
  BY AppendProperties DEF TypeOK, StreamStates
<1>2. \A g \in Gens' : Live(g)' => g \in Gens /\ Live(g)
  BY <1>1 DEF Gens, Live
<1> QED
  BY <1>2 DEF Streams, OneLiveStream, CancelledSessionIsSilent

\* A stream's own steps, and a dropped send, make nothing live.
LEMMA StreamsAdvance ==
  ASSUME TypeOK, Streams, NEW g \in Nat, NEW s \in StreamStates,
         g \in Gens => Live(g) \/ s \notin {"open", "tokens", "handoff"} \/ g \in aborted,
         stream' = [stream EXCEPT ![g].st = s],
         UNCHANGED <<aborted, task, tombstone>>
  PROVE  Streams'
<1>1. Gens' = Gens
  BY DEF Gens, TypeOK
<1>2. \A h \in Gens : stream'[h].st = IF h = g THEN s ELSE stream[h].st
  BY DEF Gens, TypeOK
<1>3. \A h \in Gens : Live(h)' => Live(h)
  BY <1>2 DEF Live
<1> QED
  BY <1>1, <1>3 DEF Streams, OneLiveStream, CancelledSessionIsSilent

LEMMA StreamsStep == TypeOK /\ Streams /\ [Next]_vars => Streams'
<1> SUFFICES ASSUME TypeOK, Streams, [Next]_vars
             PROVE  Streams'
  OBVIOUS
<1> USE DEF sessionVars, llmVars, toolVars, userVars
<1>1. CASE Frontend \/ Plugins \/ \E m \in bridge : BridgePublish(m)
  <2>1. UNCHANGED LiveVars
    BY <1>1 DEF Frontend, Plugins, Submit, AskCancel, EscConfirm, Interrupt, RequestResume,
                OutsideCancel, StallTrip, BridgePublish, LiveVars
  <2> QED
    BY <2>1, StreamsUntouched
<1>2. CASE BeginDispatch \/ SendDispatch
  <2>1. UNCHANGED <<aborted, task, tombstone>> /\ job.batch \in Nat
    BY <1>2, JobClosed DEF BeginDispatch, SendDispatch, TypeOK
  <2>2. UNCHANGED stream \/ stream' = Append(stream, [of |-> job.batch, st |-> "stamped"])
    BY <1>2 DEF BeginDispatch, SendDispatch, Stamped
  <2> QED
    BY <2>1, <2>2, StreamsUntouched, StreamsStamped DEF LiveVars
<1>3. CASE SessionActor /\ ~(BeginDispatch \/ SendDispatch)
  <2>1. UNCHANGED LiveVars
    BY <1>3 DEF SessionActor, HandleEnqueueUserMessage, HandleSubmitSteeringMessage,
                HandleEnqueueResumeTurn, ResumeTurn, HandleRetryStalledSession,
                DrainSteering, HandleSendToLlmProvider, HandleStreamToken,
                HandleStreamCompleted, HandleToolExecutionCompleted,
                HandleToolBatchCompleted, LiveVars
  <2> QED
    BY <2>1, StreamsUntouched
<1>4. CASE PopOnIdle \/ PushPopped
  <2>1. UNCHANGED LiveVars
    BY <1>4 DEF PopOnIdle, PushPopped, LiveVars
  <2> QED
    BY <2>1, StreamsUntouched
<1>5. CASE SendPopped
  BY <1>5, StreamsStamped DEF SendPopped, Stamped
<1>6. CASE DropContinuation
  <2>1. Head(llmBox).gen \in Nat
    BY <1>6, LlmHead, MessageFields DEF TypeOK, DropContinuation
  <2> QED
    BY <1>6, <2>1, StreamsAdvance DEF DropContinuation, StreamStates
<1>7. CASE StartStream
  <2> DEFINE m == Head(llmBox)
  <2>1. m.gen \in Nat /\ m.origin \in Origins
    BY <1>7, LlmHead, MessageFields DEF TypeOK, StartStream
  <2>2. PICK s \in {"open", "ended"} : /\ stream' = [stream EXCEPT ![m.gen].st = s]
                                       /\ s = "open" => task' = m.gen
    BY <1>7 DEF StartStream
  <2>3. /\ Gens' = Gens
        /\ \A h \in Gens : stream'[h].st = IF h = m.gen THEN s ELSE stream[h].st
    BY <2>1, <2>2 DEF Gens, TypeOK
  <2>4. \A h \in Gens : Live(h) => h \in aborted'
    BY <1>7 DEF StartStream, AbortTask, Streams, OneLiveStream, Gens
  <2>5. aborted \subseteq aborted'
    BY <1>7 DEF StartStream, AbortTask
  <2>6. \A h \in Gens : Live(h)' => h = task'
    <3> SUFFICES ASSUME NEW h \in Gens, Live(h)'
                 PROVE  h = task'
      OBVIOUS
    <3>1. h \notin aborted' /\ stream'[h].st \in {"open", "tokens", "handoff"}
      BY DEF Live
    <3>2. CASE h = m.gen
      BY <2>2, <2>3, <3>1, <3>2
    <3>3. CASE h # m.gen
      <4>1. stream[h].st \in {"open", "tokens", "handoff"} /\ h \notin aborted
        BY <2>3, <2>5, <3>1, <3>3
      <4> QED
        BY <4>1, <2>4, <3>1 DEF Live
    <3> QED
      BY <3>2, <3>3
  <2>7. ~tombstone'
    BY <1>7, <2>1 DEF StartStream, Suppressed, Origins, TypeOK
  <2> QED
    BY <2>3, <2>6, <2>7 DEF Streams, OneLiveStream, CancelledSessionIsSilent
<1>8. CASE UntrackCompleted
  BY <1>8, StreamsUntouched DEF UntrackCompleted, LiveVars
<1>9. CASE CancelStream
  <2>1. \A h \in Gens : h \in aborted' \/ stream[h].st \notin {"open", "tokens", "handoff"}
    BY <1>9 DEF CancelStream, AbortTask, Streams, OneLiveStream, Live, Gens
  <2>2. UNCHANGED stream \/ stream' = Append(stream, [of |-> 0, st |-> "ended"])
    BY <1>9 DEF CancelStream
  <2>3. \A h \in Gens' : (h \in Gens /\ stream'[h] = stream[h]) \/ stream'[h].st = "ended"
    <3>1. CASE UNCHANGED stream
      BY <3>1 DEF Gens
    <3>2. CASE stream' = Append(stream, [of |-> 0, st |-> "ended"])
      <4>1. /\ Len(stream') = Len(stream) + 1 /\ Len(stream) \in Nat
            /\ \A g \in 1..Len(stream) : stream'[g] = stream[g]
            /\ stream'[Len(stream) + 1].st = "ended"
        BY <3>2, AppendProperties DEF TypeOK, Origins, StreamStates
      <4> QED
        BY <4>1 DEF Gens
    <3> QED
      BY <2>2, <3>1, <3>2
  <2>4. \A h \in Gens' : ~Live(h)'
    BY <2>1, <2>3 DEF Live
  <2> QED
    BY <2>4 DEF Streams, OneLiveStream, CancelledSessionIsSilent
<1>10. ASSUME NEW g \in Gens, StreamTask(g)
       PROVE  Streams'
  <2>1. PICK s \in StreamStates :
          /\ stream[g].st \in {"open", "tokens", "handoff"}
          /\ stream' = [stream EXCEPT ![g].st = s]
          /\ UNCHANGED <<aborted, task, tombstone>>
    BY <1>10 DEF StreamTask, FirstToken, StreamFinishes, StreamFails, StreamUsesTools,
                 HandOffBatch, StreamStops, StreamStep, StreamStates
  <2>2. Live(g) \/ g \in aborted
    BY <2>1 DEF Live
  <2>3. g \in Nat
    BY LenProperties DEF TypeOK, Gens
  <2> QED
    BY <2>1, <2>2, <2>3, StreamsAdvance
<1>11. CASE Orchestrator \/ \E g \in running : ToolFinishes(g)
  <2>1. UNCHANGED LiveVars
    BY <1>11 DEF Orchestrator, ExecuteToolBatch, CancelToolBatch, CountToolResult,
                 ToolFinishes, LiveVars
  <2> QED
    BY <2>1, StreamsUntouched
<1>12. CASE UNCHANGED vars
  BY <1>12, StreamsUntouched DEF vars, LiveVars
<1> QED
  BY <1>1, <1>2, <1>3, <1>4, <1>5, <1>6, <1>7, <1>8, <1>9, <1>10, <1>11, <1>12
     DEF Next, Queue, Llm

LEMMA StreamsInit == Init => Streams
BY DEF Init, Streams, OneLiveStream, CancelledSessionIsSilent, Gens

\* The two stream properties hold together, since each step that keeps one leans on the
\* other: the LLM actor aborts the task it holds before it starts a stream, and lifts the
\* tombstone only for a send that is no continuation.
THEOREM StreamsInvariant == Spec => [](TypeOK /\ Streams)
  BY StreamsInit, StreamsStep, TypeCorrect, PTL DEF Spec

\* However dispatches of the queue, the session actor, a retry or a resume
\* overtake each other, at most one stream of the session is live, and it is the
\* one whose handle the LLM actor holds.
THEOREM AtMostOneStream == Spec => []OneLiveStream
<1>1. Streams => OneLiveStream
  BY DEF Streams
<1> QED
  BY <1>1, StreamsInvariant, PTL

\* From a handled CancelStream to the next user send nothing streams: no
\* continuation of a cancelled tool loop, sent before or after, comes back.
THEOREM SilentAfterCancel == Spec => []CancelledSessionIsSilent
<1>1. Streams => CancelledSessionIsSilent
  BY DEF Streams
<1> QED
  BY <1>1, StreamsInvariant, PTL


-----------------------------------------------------------------------------
(* A batch is continued once.                                                 *)
(*                                                                            *)
(* From its hand-off on, a batch is in one place: on its way to the           *)
(* orchestrator, pending there, on its way back, buffered, in a dispatch, or  *)
(* stamped on the generation that continues it.  Every step of an actor moves *)
(* it on or drops it.  It is handed off once because a generation is started  *)
(* once: its SendToLlmProvider is in one place too until then.                *)

Names(m, type, g) == m.type = type /\ m.gen = g
Posted(box, type, g) == \E i \in DOMAIN box : Names(box[i], type, g)
PostedOnce(box, type, g) ==
  \A i, j \in DOMAIN box : Names(box[i], type, g) /\ Names(box[j], type, g) => i = j

\* The generation a dispatch of the session actor has stamped and not published.
Announcing(j, g) == j.at = "send" /\ j.early /\ j.gen = g

Fresh(str, g) == g \in 1..Len(str) /\ str[g].st = "stamped"

SendAt(llm, str, j, g) ==
  /\ PostedOnce(llm, "SendToLlmProvider", g)
  /\ Posted(llm, "SendToLlmProvider", g) \/ Announcing(j, g) => Fresh(str, g)
  /\ ~(Posted(llm, "SendToLlmProvider", g) /\ Announcing(j, g))

SendsFresh == \A g \in Nat : SendAt(llmBox, stream, job, g)

Dispatching(j) == j.at \in {"drain", "begin", "send"}

Unsent(str, b) == b \notin 1..Len(str) \/ str[b].st # "toolUse"
Dispatched(j, b) == Dispatching(j) /\ j.batch = b
Continued(str, b) == \E g \in 1..Len(str) : str[g].of = b
ContinuedOnce(str, b) == \A g, h \in 1..Len(str) : str[g].of = b /\ str[h].of = b => g = h

\* At most one of seven.
Apart(p, q, r, s, t, u, v) ==
  /\ p => ~q /\ ~r /\ ~s /\ ~t /\ ~u /\ ~v
  /\ q => ~r /\ ~s /\ ~t /\ ~u /\ ~v
  /\ r => ~s /\ ~t /\ ~u /\ ~v
  /\ s => ~t /\ ~u /\ ~v
  /\ t => ~u /\ ~v
  /\ u => ~v

BatchAt(tool, sess, str, bat, pend, j, b) ==
  /\ PostedOnce(tool, "ExecuteToolBatch", b) /\ PostedOnce(sess, "ToolBatchCompleted", b)
  /\ ContinuedOnce(str, b)
  /\ Apart(Unsent(str, b), Posted(tool, "ExecuteToolBatch", b), bat = b,
           Posted(sess, "ToolBatchCompleted", b), pend = b, Dispatched(j, b),
           Continued(str, b))

\* A dispatch that stamps early, of a retry or a resume, continues no batch.
EarlyAlone == Dispatching(job) /\ job.early => job.batch = 0

BatchesPlaced ==
  /\ EarlyAlone
  /\ \A b \in Nat \ {0} : BatchAt(toolBox, sessionBox, stream, batch, pendingBatch, job, b)

\* What an actor's mailbox gains and loses.
LEMMA PostAppended ==
  ASSUME NEW S, NEW s \in Seq(S), NEW e \in S, NEW type, NEW g
  PROVE  /\ Posted(Append(s, e), type, g) <=> Posted(s, type, g) \/ Names(e, type, g)
         /\ PostedOnce(s, type, g) /\ ~(Posted(s, type, g) /\ Names(e, type, g))
              => PostedOnce(Append(s, e), type, g)
<1>1. /\ DOMAIN s = 1..Len(s) /\ Len(s) \in Nat
      /\ DOMAIN Append(s, e) = 1..(Len(s) + 1)
      /\ \A i \in 1..Len(s) : Append(s, e)[i] = s[i]
      /\ Append(s, e)[Len(s) + 1] = e
  OBVIOUS
<1>2. \A i \in 1..(Len(s) + 1) : i \in 1..Len(s) \/ i = Len(s) + 1
  BY <1>1
<1>3. Len(s) + 1 \in 1..(Len(s) + 1) /\ \A i \in 1..Len(s) : i \in 1..(Len(s) + 1)
  BY <1>1
<1> QED
  BY <1>1, <1>2, <1>3 DEF Posted, PostedOnce

LEMMA PostTaken ==
  ASSUME NEW S, NEW s \in Seq(S), s # <<>>, NEW type, NEW g
  PROVE  /\ Posted(s, type, g) <=> Names(Head(s), type, g) \/ Posted(Tail(s), type, g)
         /\ PostedOnce(s, type, g)
              => /\ PostedOnce(Tail(s), type, g)
                 /\ ~(Names(Head(s), type, g) /\ Posted(Tail(s), type, g))
<1>1. /\ DOMAIN s = 1..Len(s) /\ Len(s) \in Nat /\ Len(s) > 0 /\ Head(s) = s[1]
      /\ DOMAIN Tail(s) = 1..(Len(s) - 1)
      /\ \A i \in 1..(Len(s) - 1) : Tail(s)[i] = s[i + 1] /\ i + 1 \in 1..Len(s)
  OBVIOUS
<1>2. 1 \in 1..Len(s) /\ \A i \in 1..Len(s) : i = 1 \/ i - 1 \in 1..(Len(s) - 1)
  BY <1>1
<1>3. \A i \in 1..Len(s) : i # 1 => s[i] = Tail(s)[i - 1]
  <2> SUFFICES ASSUME NEW i \in 1..Len(s), i # 1 PROVE s[i] = Tail(s)[i - 1]
    OBVIOUS
  <2>1. i - 1 \in 1..(Len(s) - 1) /\ (i - 1) + 1 = i
    BY <1>1
  <2> QED
    BY <1>1, <2>1
<1>4. Posted(s, type, g) <=> Names(Head(s), type, g) \/ Posted(Tail(s), type, g)
  BY <1>1, <1>2, <1>3 DEF Posted
<1>5. ASSUME PostedOnce(s, type, g)
      PROVE  /\ PostedOnce(Tail(s), type, g)
             /\ ~(Names(Head(s), type, g) /\ Posted(Tail(s), type, g))
  <2>1. ASSUME NEW i \in DOMAIN Tail(s), NEW j \in DOMAIN Tail(s),
               Names(Tail(s)[i], type, g), Names(Tail(s)[j], type, g)
        PROVE  i = j
    <3>1. i + 1 \in DOMAIN s /\ j + 1 \in DOMAIN s
          /\ Names(s[i + 1], type, g) /\ Names(s[j + 1], type, g)
      BY <1>1, <2>1
    <3>2. i + 1 = j + 1
      BY <1>5, <3>1 DEF PostedOnce
    <3> QED
      BY <1>1, <3>2
  <2>2. ASSUME NEW i \in DOMAIN Tail(s), Names(Tail(s)[i], type, g), Names(Head(s), type, g)
        PROVE  FALSE
    <3>1. i + 1 \in DOMAIN s /\ 1 \in DOMAIN s
          /\ Names(s[i + 1], type, g) /\ Names(s[1], type, g)
      BY <1>1, <1>2, <2>2
    <3>2. i + 1 = 1
      BY <1>5, <3>1 DEF PostedOnce
    <3> QED
      BY <1>1, <3>2
  <2> QED
    BY <2>1, <2>2 DEF PostedOnce, Posted
<1> QED
  BY <1>4, <1>5

\* A mailbox that gains and loses messages of other types only.
Quiet(box, new, S, type) ==
  \/ new = box
  \/ \E e \in S : e.type # type /\ new = Append(box, e)
  \/ box # <<>> /\ Head(box).type # type /\ new = Tail(box)
  \/ /\ box # <<>> /\ Head(box).type # type
     /\ \E e \in S : e.type # type /\ new = Append(Tail(box), e)

LEMMA PostQuiet ==
  ASSUME NEW S, NEW box \in Seq(S), NEW new, NEW type, Quiet(box, new, S, type), NEW g
  PROVE  /\ Posted(new, type, g) => Posted(box, type, g)
         /\ PostedOnce(box, type, g) => PostedOnce(new, type, g)
<1>1. ASSUME NEW s \in Seq(S), NEW e \in S, e.type # type
      PROVE  /\ Posted(Append(s, e), type, g) => Posted(s, type, g)
             /\ PostedOnce(s, type, g) => PostedOnce(Append(s, e), type, g)
  <2>1. ~Names(e, type, g)
    BY <1>1 DEF Names
  <2> QED
    BY <2>1, PostAppended
<1>2. ASSUME box # <<>>
      PROVE  /\ Tail(box) \in Seq(S)
             /\ Posted(Tail(box), type, g) => Posted(box, type, g)
             /\ PostedOnce(box, type, g) => PostedOnce(Tail(box), type, g)
  BY <1>2, PostTaken
<1> QED
  BY <1>1, <1>2 DEF Quiet

\* A new generation, and what it continues.
LEMMA StreamGrows ==
  ASSUME stream \in Seq([of : Nat, st : StreamStates]), NEW o \in Nat, NEW s \in StreamStates,
         s # "toolUse", stream' = Append(stream, [of |-> o, st |-> s])
  PROVE  /\ Now \in Nat /\ ~Fresh(stream, Now) /\ (s = "stamped" => Fresh(stream', Now))
         /\ \A g : Fresh(stream, g) => Fresh(stream', g)
         /\ \A b : Unsent(stream', b) => Unsent(stream, b)
         /\ \A b : Continued(stream', b) <=> Continued(stream, b) \/ b = o
         /\ \A b : ContinuedOnce(stream, b) /\ ~(Continued(stream, b) /\ b = o)
                     => ContinuedOnce(stream', b)
<1> DEFINE n == Len(stream)
<1>1. /\ n \in Nat /\ Len(stream') = n + 1 /\ Now = n + 1
      /\ \A g \in 1..n : stream'[g] = stream[g]
      /\ stream'[n + 1].of = o /\ stream'[n + 1].st = s
  BY AppendProperties DEF Now
<1>2. /\ \A g : g \in 1..(n + 1) <=> g \in 1..n \/ g = n + 1
      /\ n + 1 \in Nat /\ n + 1 \notin 1..n
  BY <1>1
<1> HIDE DEF n
<1>3. Len(stream) = n
  BY DEF n
<1> QED
  BY <1>1, <1>2, <1>3 DEF Fresh, Unsent, Continued, ContinuedOnce

\* A generation that moves on.
LEMMA StreamMoves ==
  ASSUME stream \in Seq([of : Nat, st : StreamStates]), NEW g \in Gens, NEW s \in StreamStates,
         stream' = [stream EXCEPT ![g].st = s]
  PROVE  /\ \A k : Fresh(stream, k) /\ k # g => Fresh(stream', k)
         /\ \A b : b # g => (Unsent(stream', b) => Unsent(stream, b))
         /\ s = "toolUse" => ~Unsent(stream', g)
         /\ \A b : Continued(stream', b) <=> Continued(stream, b)
         /\ \A b : ContinuedOnce(stream, b) => ContinuedOnce(stream', b)
<1>1. /\ Len(stream') = Len(stream)
      /\ \A k \in 1..Len(stream) : /\ stream'[k].of = stream[k].of
                                   /\ k # g => stream'[k] = stream[k]
      /\ stream'[g].st = s
  <2>1. stream \in [1..Len(stream) -> [of : Nat, st : StreamStates]] /\ Len(stream) \in Nat
    BY LenProperties
  <2>2. stream' \in [1..Len(stream) -> [of : Nat, st : StreamStates]]
    BY <2>1 DEF Gens
  <2>3. Len(stream') = Len(stream)
    BY <2>1, <2>2
  <2> QED
    BY <2>1, <2>3 DEF Gens
<1> QED
  BY <1>1 DEF Fresh, Unsent, Continued, ContinuedOnce, Gens

\* A step that starts nothing and stamps no generation that is announced later.
LEMMA SendsQuiet ==
  ASSUME TypeOK, SendsFresh, Quiet(llmBox, llmBox', LlmMsg, "SendToLlmProvider"),
         \A g \in Nat : Announcing(job', g) => Announcing(job, g),
         \A g : Fresh(stream, g) => Fresh(stream', g)
  PROVE  SendsFresh'
<1> SUFFICES ASSUME NEW g \in Nat
             PROVE  SendAt(llmBox', stream', job', g)
  BY DEF SendsFresh
<1>1. SendAt(llmBox, stream, job, g)
  BY DEF SendsFresh
<1>2. /\ Posted(llmBox', "SendToLlmProvider", g) => Posted(llmBox, "SendToLlmProvider", g)
      /\ PostedOnce(llmBox, "SendToLlmProvider", g)
           => PostedOnce(llmBox', "SendToLlmProvider", g)
  BY PostQuiet DEF TypeOK
<1> QED
  BY <1>1, <1>2 DEF SendAt

StreamQuiet(b) ==
  /\ Unsent(stream', b) => Unsent(stream, b)
  /\ Continued(stream', b) => Continued(stream, b)
  /\ ContinuedOnce(stream, b) => ContinuedOnce(stream', b)

\* A step that moves no batch on: one it drops is nowhere then.
LEMMA BatchesQuiet ==
  ASSUME TypeOK, BatchesPlaced,
         Quiet(toolBox, toolBox', ToolMsg, "ExecuteToolBatch"),
         Quiet(sessionBox, sessionBox', SessionMsg, "ToolBatchCompleted"),
         batch' \in {batch, 0}, pendingBatch' \in {pendingBatch, 0}, EarlyAlone',
         \A b \in Nat \ {0} : Dispatched(job', b) => Dispatched(job, b),
         \A b \in Nat \ {0} : StreamQuiet(b)
  PROVE  BatchesPlaced'
<1> SUFFICES ASSUME NEW b \in Nat \ {0}
             PROVE  BatchAt(toolBox', sessionBox', stream', batch', pendingBatch', job', b)
  BY DEF BatchesPlaced
<1>1. BatchAt(toolBox, sessionBox, stream, batch, pendingBatch, job, b)
  BY DEF BatchesPlaced
<1>2. /\ Posted(toolBox', "ExecuteToolBatch", b) => Posted(toolBox, "ExecuteToolBatch", b)
      /\ PostedOnce(toolBox, "ExecuteToolBatch", b)
           => PostedOnce(toolBox', "ExecuteToolBatch", b)
  BY PostQuiet DEF TypeOK
<1>3. /\ Posted(sessionBox', "ToolBatchCompleted", b)
           => Posted(sessionBox, "ToolBatchCompleted", b)
      /\ PostedOnce(sessionBox, "ToolBatchCompleted", b)
           => PostedOnce(sessionBox', "ToolBatchCompleted", b)
  BY PostQuiet DEF TypeOK
<1>4. (batch' = b => batch = b) /\ (pendingBatch' = b => pendingBatch = b)
  OBVIOUS
<1> QED
  BY <1>1, <1>2, <1>3, <1>4 DEF BatchAt, Apart, StreamQuiet

BoxesQuiet ==
  /\ Quiet(llmBox, llmBox', LlmMsg, "SendToLlmProvider")
  /\ Quiet(toolBox, toolBox', ToolMsg, "ExecuteToolBatch")
  /\ Quiet(sessionBox, sessionBox', SessionMsg, "ToolBatchCompleted")

JobQuiet ==
  /\ EarlyAlone'
  /\ \A g \in Nat : Announcing(job', g) => Announcing(job, g)
  /\ \A b \in Nat \ {0} : Dispatched(job', b) => Dispatched(job, b)

BatchInv == SendsFresh /\ BatchesPlaced

LEMMA PlacedQuiet ==
  ASSUME TypeOK, BatchInv, BoxesQuiet, JobQuiet, stream' = stream,
         batch' \in {batch, 0}, pendingBatch' \in {pendingBatch, 0}
  PROVE  BatchInv'
<1>1. \A b : StreamQuiet(b)
  BY DEF StreamQuiet
<1>2. SendsFresh'
  BY SendsQuiet DEF BatchInv, BoxesQuiet, JobQuiet
<1>3. BatchesPlaced'
  BY <1>1, BatchesQuiet DEF BatchInv, BoxesQuiet, JobQuiet
<1> QED
  BY <1>2, <1>3 DEF BatchInv

LEMMA JobStays == ASSUME BatchInv, job' = job PROVE JobQuiet
BY DEF BatchInv, BatchesPlaced, EarlyAlone, JobQuiet

\* A job that continues no batch: none, a resume, or a dispatch of a user's turn.
LEMMA JobOfUser ==
  ASSUME \/ job' = NoJob \/ job' = [at |-> "resume"]
         \/ \E early \in BOOLEAN, at \in {"drain", "begin"} :
              job' = Dispatch(at, "User", early, 0)
  PROVE  JobQuiet
BY DEF JobQuiet, EarlyAlone, Announcing, Dispatched, Dispatching, Dispatch, NoJob

LEMMA FrontendPlaced ==
  ASSUME TypeOK, BatchInv, Frontend \/ Plugins \/ \E m \in bridge : BridgePublish(m)
  PROVE  BatchInv'
<1> USE DEF sessionVars, llmVars, toolVars, userVars
<1>1. CASE Frontend
  <2>1. /\ UNCHANGED <<llmBox, toolBox, sessionBox, job, stream, batch, pendingBatch>>
    BY <1>1 DEF Frontend, Submit, AskCancel, EscConfirm, Interrupt, RequestResume
  <2> QED
    BY <2>1, PlacedQuiet, JobStays DEF BoxesQuiet, Quiet
<1>2. CASE OutsideCancel
  <2>1. /\ UNCHANGED <<toolBox, sessionBox, job, stream, batch, pendingBatch>>
        /\ llmBox' = Append(llmBox, [type |-> "CancelStream", nth |-> 0])
    BY <1>2 DEF OutsideCancel
  <2>2. /\ [type |-> "CancelStream", nth |-> 0] \in LlmMsg
        /\ [type |-> "CancelStream", nth |-> 0].type # "SendToLlmProvider"
    BY MessageKinds
  <2>3. BoxesQuiet
    BY <2>1, <2>2 DEF BoxesQuiet, Quiet
  <2> QED
    BY <2>1, <2>3, PlacedQuiet, JobStays
<1>3. CASE StallTrip
  <2>1. /\ UNCHANGED <<toolBox, llmBox, job, stream, batch, pendingBatch>>
        /\ sessionBox' = Append(sessionBox, [type |-> "RetryStalledSession"])
    BY <1>3 DEF StallTrip
  <2>2. /\ [type |-> "RetryStalledSession"] \in SessionMsg
        /\ [type |-> "RetryStalledSession"].type # "ToolBatchCompleted"
    BY MessageKinds
  <2>3. BoxesQuiet
    BY <2>1, <2>2 DEF BoxesQuiet, Quiet
  <2> QED
    BY <2>1, <2>3, PlacedQuiet, JobStays
<1>4. ASSUME NEW m \in bridge, BridgePublish(m)
      PROVE  BatchInv'
  <2>1. UNCHANGED <<toolBox, job, stream, batch, pendingBatch>>
    BY <1>4 DEF BridgePublish
  <2>2. m \in BridgeMsg
    BY DEF TypeOK
  <2>3. m.type \notin {"SendToLlmProvider", "ToolBatchCompleted"}
    BY <2>2 DEF BridgeMsg, EntryMsg, ResumeMsg, CancelMsg
  <2>4. CASE m.type = "CancelStream"
    <3>1. m \in LlmMsg /\ llmBox' = Append(llmBox, m) /\ sessionBox' = sessionBox
      BY <1>4, <2>2, <2>4, MessageFields DEF BridgePublish
    <3>2. BoxesQuiet
      BY <2>1, <2>3, <3>1 DEF BoxesQuiet, Quiet
    <3> QED
      BY <2>1, <3>2, PlacedQuiet, JobStays
  <2>5. CASE m.type # "CancelStream"
    <3>1. m \in SessionMsg /\ sessionBox' = Append(sessionBox, m) /\ llmBox' = llmBox
      BY <1>4, <2>2, <2>5, MessageFields DEF BridgePublish
    <3>2. BoxesQuiet
      BY <2>1, <2>3, <3>1 DEF BoxesQuiet, Quiet
    <3> QED
      BY <2>1, <3>2, PlacedQuiet, JobStays
  <2> QED
    BY <2>4, <2>5
<1> QED
  BY <1>1, <1>2, <1>3, <1>4 DEF Plugins

\* The session actor takes a message that ends no batch.
LEMMA TakenQuiet ==
  ASSUME NEW type, type # "ToolBatchCompleted", NextSessionMsg(type),
         UNCHANGED <<llmBox, toolBox>>
  PROVE  BoxesQuiet
BY DEF NextSessionMsg, BoxesQuiet, Quiet

LEMMA BufferedContinued ==
  ASSUME TypeOK, BatchInv, HandleStreamCompleted
  PROVE  BatchInv'
<1> USE DEF llmVars, toolVars, userVars
<1>1. /\ UNCHANGED <<llmBox, toolBox, stream, batch>> /\ job = NoJob
      /\ BoxesQuiet
  <2>1. UNCHANGED <<llmBox, toolBox, stream, batch>> /\ NextSessionMsg("StreamCompleted")
    BY DEF HandleStreamCompleted
  <2>2. job = NoJob
    BY <2>1 DEF NextSessionMsg
  <2> QED
    BY <2>1, <2>2, TakenQuiet
<1>2. UNCHANGED <<pendingBatch, job>> \/ ContinueBuffered
  BY DEF HandleStreamCompleted
<1>3. CASE UNCHANGED <<pendingBatch, job>>
  BY <1>1, <1>3, PlacedQuiet, JobStays
<1>4. CASE ContinueBuffered
  <2>1. /\ pendingBatch' = 0 /\ job' = Dispatch("drain", "ToolContinuation", FALSE, pendingBatch)
    BY <1>4 DEF ContinueBuffered
  <2>2. \A g : ~Announcing(job', g)
    BY <2>1 DEF Announcing, Dispatch
  <2>3. EarlyAlone' /\ \A b : Dispatched(job', b) <=> b = pendingBatch
    BY <2>1 DEF EarlyAlone, Dispatching, Dispatched, Dispatch
  <2>4. SendsFresh'
    BY <1>1, <2>2, SendsQuiet DEF BoxesQuiet, BatchInv
  <2>5. ASSUME NEW b \in Nat \ {0}
        PROVE  BatchAt(toolBox', sessionBox', stream', batch', pendingBatch', job', b)
    <3>1. BatchAt(toolBox, sessionBox, stream, batch, pendingBatch, job, b)
      BY DEF BatchInv, BatchesPlaced
    <3>2. /\ Posted(sessionBox', "ToolBatchCompleted", b)
               => Posted(sessionBox, "ToolBatchCompleted", b)
          /\ PostedOnce(sessionBox, "ToolBatchCompleted", b)
               => PostedOnce(sessionBox', "ToolBatchCompleted", b)
      BY <1>1, PostQuiet DEF TypeOK, BoxesQuiet
    <3>3. (Dispatched(job', b) <=> pendingBatch = b) /\ pendingBatch' # b
      BY <2>1, <2>3
    <3> QED
      BY <1>1, <3>1, <3>2, <3>3 DEF BatchAt, Apart
  <2> QED
    BY <2>3, <2>4, <2>5 DEF BatchInv, BatchesPlaced
<1> QED
  BY <1>2, <1>3, <1>4

LEMMA CompletedContinued ==
  ASSUME TypeOK, BatchInv, HandleToolBatchCompleted
  PROVE  BatchInv'
<1> USE DEF llmVars, toolVars, userVars
<1> DEFINE of == Head(sessionBox).gen
<1>1. /\ UNCHANGED <<llmBox, toolBox, stream, batch>> /\ job = NoJob
      /\ sessionBox # <<>> /\ Head(sessionBox).type = "ToolBatchCompleted"
      /\ sessionBox' = Tail(sessionBox)
  BY DEF HandleToolBatchCompleted, NextSessionMsg
<1>2. /\ job' = IF phase = "Sending" THEN Dispatch("drain", "ToolContinuation", FALSE, of)
                ELSE NoJob
      /\ pendingBatch' = IF phase = "Streaming" THEN of ELSE pendingBatch
  BY DEF HandleToolBatchCompleted, ContinuesNow
<1> HIDE DEF of
<1>3. /\ \A g : ~Announcing(job', g)
      /\ EarlyAlone' /\ \A b : Dispatched(job', b) => b = of /\ phase = "Sending"
  BY <1>2 DEF Announcing, Dispatch, EarlyAlone, Dispatching, Dispatched, NoJob
<1>4. SendsFresh'
  BY <1>1, <1>3, SendsQuiet DEF BatchInv, Quiet
<1>5. ASSUME NEW b \in Nat \ {0}
      PROVE  BatchAt(toolBox', sessionBox', stream', batch', pendingBatch', job', b)
  <2>1. BatchAt(toolBox, sessionBox, stream, batch, pendingBatch, job, b)
    BY DEF BatchInv, BatchesPlaced
  <2>2. /\ Posted(sessionBox, "ToolBatchCompleted", b)
             <=> of = b \/ Posted(sessionBox', "ToolBatchCompleted", b)
        /\ PostedOnce(sessionBox, "ToolBatchCompleted", b)
             => /\ PostedOnce(sessionBox', "ToolBatchCompleted", b)
                /\ ~(of = b /\ Posted(sessionBox', "ToolBatchCompleted", b))
    BY <1>1, PostTaken DEF TypeOK, Names, of
  <2>3. ~Dispatched(job, b)
    BY <1>1 DEF Dispatched, Dispatching, NoJob
  <2>4. /\ Dispatched(job', b) => b = of /\ pendingBatch' = pendingBatch
        /\ pendingBatch' = b => b = of \/ pendingBatch = b
        /\ ~(Dispatched(job', b) /\ b = of /\ pendingBatch' = b /\ pendingBatch # b)
    BY <1>2, <1>3
  <2> QED
    BY <1>1, <2>1, <2>2, <2>3, <2>4 DEF BatchAt, Apart
<1> QED
  BY <1>3, <1>4, <1>5 DEF BatchInv, BatchesPlaced

\* A request goes out: for a generation that was stamped for it, or for a new one.
LEMMA SentFresh ==
  ASSUME TypeOK, SendsFresh, NEW g \in Nat, NEW o \in Origins, PublishSend(g, o),
         \A k \in Nat : ~Announcing(job', k), \A k : Fresh(stream, k) => Fresh(stream', k),
         Fresh(stream', g), Announcing(job, g) \/ ~Fresh(stream, g)
  PROVE  SendsFresh'
<1> SUFFICES ASSUME NEW k \in Nat
             PROVE  SendAt(llmBox', stream', job', k)
  BY DEF SendsFresh
<1>1. SendAt(llmBox, stream, job, k) /\ SendAt(llmBox, stream, job, g)
  BY DEF SendsFresh
<1>2. /\ llmBox' = Append(llmBox, Send(g, o)) /\ Send(g, o) \in LlmMsg
      /\ Names(Send(g, o), "SendToLlmProvider", k) <=> k = g
  BY MessageKinds DEF PublishSend, Names, Send
<1>3. /\ Posted(llmBox', "SendToLlmProvider", k)
           <=> Posted(llmBox, "SendToLlmProvider", k) \/ k = g
      /\ PostedOnce(llmBox, "SendToLlmProvider", k)
           /\ ~(Posted(llmBox, "SendToLlmProvider", k) /\ k = g)
           => PostedOnce(llmBox', "SendToLlmProvider", k)
  BY <1>2, PostAppended DEF TypeOK
<1> QED
  BY <1>1, <1>3 DEF SendAt

LEMMA SessionSendQuiet ==
  ASSUME TypeOK, NEW g \in Nat, NEW o \in Origins, PublishSend(g, o)
  PROVE  Quiet(sessionBox, sessionBox', SessionMsg, "ToolBatchCompleted")
<1>1. Send(g, o) \in SessionMsg /\ Send(g, o).type # "ToolBatchCompleted"
  BY MessageKinds DEF Send
<1> QED
  BY <1>1 DEF PublishSend, Quiet

\* A generation is stamped for the batch the dispatch continues, or for none.
LEMMA StampPlaced ==
  ASSUME TypeOK, BatchInv, NEW o \in Nat, stream' = Stamped(o), o = 0 \/ Dispatched(job, o),
         UNCHANGED <<toolBox, batch, pendingBatch>>, EarlyAlone',
         Quiet(sessionBox, sessionBox', SessionMsg, "ToolBatchCompleted"),
         \A b \in Nat \ {0} : Dispatched(job', b) => Dispatched(job, b) /\ b # o
  PROVE  BatchesPlaced'
<1> SUFFICES ASSUME NEW b \in Nat \ {0}
             PROVE  BatchAt(toolBox', sessionBox', stream', batch', pendingBatch', job', b)
  BY DEF BatchesPlaced
<1>1. BatchAt(toolBox, sessionBox, stream, batch, pendingBatch, job, b)
  BY DEF BatchInv, BatchesPlaced
<1>2. /\ Posted(sessionBox', "ToolBatchCompleted", b)
           => Posted(sessionBox, "ToolBatchCompleted", b)
      /\ PostedOnce(sessionBox, "ToolBatchCompleted", b)
           => PostedOnce(sessionBox', "ToolBatchCompleted", b)
  BY PostQuiet DEF TypeOK
<1>3. /\ Unsent(stream', b) => Unsent(stream, b)
      /\ Continued(stream', b) <=> Continued(stream, b) \/ b = o
      /\ ContinuedOnce(stream, b) /\ ~(Continued(stream, b) /\ b = o)
           => ContinuedOnce(stream', b)
  <2>1. "stamped" \in StreamStates /\ "stamped" # "toolUse"
    BY DEF StreamStates
  <2>2. stream \in Seq([of : Nat, st : StreamStates])
        /\ stream' = Append(stream, [of |-> o, st |-> "stamped"])
    BY DEF TypeOK, Stamped
  <2> QED
    BY <2>1, <2>2, StreamGrows
<1>4. b = o => Dispatched(job, b) /\ ~Dispatched(job', b)
  OBVIOUS
<1> QED
  BY <1>1, <1>2, <1>3, <1>4 DEF BatchAt, Apart

LEMMA StampFresh ==
  ASSUME TypeOK, NEW o \in Nat, stream' = Stamped(o)
  PROVE  /\ Now \in Nat /\ ~Fresh(stream, Now) /\ Fresh(stream', Now)
         /\ \A g : Fresh(stream, g) => Fresh(stream', g)
<1>1. "stamped" \in StreamStates /\ "stamped" # "toolUse"
  BY DEF StreamStates
<1>2. stream \in Seq([of : Nat, st : StreamStates])
      /\ stream' = Append(stream, [of |-> o, st |-> "stamped"])
  BY DEF TypeOK, Stamped
<1> QED
  BY <1>1, <1>2, StreamGrows

LEMMA DispatchPlaced ==
  ASSUME TypeOK, BatchInv, BeginDispatch \/ SendDispatch \/ SendPopped
  PROVE  BatchInv'
<1> USE DEF sessionVars, llmVars, toolVars, userVars
<1>1. /\ job.at \in {"begin", "send"} => job.batch \in Nat /\ job.gen \in Nat
                                           /\ job.origin \in Origins /\ job.early \in BOOLEAN
      /\ job.at = "begin" /\ job.early => job.batch = 0
      /\ job.at = "send" /\ job.early => job.batch = 0
  BY JobClosed DEF TypeOK, BatchInv, BatchesPlaced, EarlyAlone, Dispatching
<1>2. CASE BeginDispatch /\ job.early
  <2>1. /\ job.at = "begin" /\ job' = [job EXCEPT !.at = "send", !.gen = Now]
        /\ stream' = Stamped(job.batch)
        /\ UNCHANGED <<llmBox, toolBox, sessionBox, batch, pendingBatch>>
    BY <1>2 DEF BeginDispatch
  <2>2. job.batch = 0
    BY <1>1, <1>2, <2>1
  <2>3. job'.at = "send" /\ job'.gen = Now /\ job'.batch = 0 /\ job'.early
    <3>1. job \in [at : {"drain", "begin", "send"}, origin : Origins, early : BOOLEAN,
                   batch : Nat, gen : Nat]
      BY <2>1 DEF TypeOK, Jobs, NoJob
    <3> HIDE DEF Now
    <3> QED
      BY <1>2, <2>1, <2>2, <3>1
  <2>4. /\ Now \in Nat /\ ~Fresh(stream, Now) /\ Fresh(stream', Now)
        /\ \A g : Fresh(stream, g) => Fresh(stream', g)
    BY <2>1, <2>2, StampFresh
  <2>5. \A g : Announcing(job', g) <=> g = Now
    BY <2>3 DEF Announcing
  <2>6. SendsFresh'
    <3> SUFFICES ASSUME NEW g \in Nat
                 PROVE  SendAt(llmBox', stream', job', g)
      BY DEF SendsFresh
    <3>1. SendAt(llmBox, stream, job, g)
      BY DEF BatchInv, SendsFresh
    <3> QED
      BY <2>1, <2>4, <2>5, <3>1 DEF SendAt
  <2>7. EarlyAlone' /\ \A b \in Nat \ {0} : ~Dispatched(job', b)
    BY <2>3 DEF EarlyAlone, Dispatched
  <2>8. BatchesPlaced'
    BY <2>1, <2>2, <2>7, StampPlaced DEF Quiet
  <2> QED
    BY <2>6, <2>8 DEF BatchInv
<1>3. CASE BeginDispatch /\ ~job.early
  <2>1. /\ job.at = "begin" /\ job' = [job EXCEPT !.at = "send"]
        /\ UNCHANGED <<llmBox, toolBox, sessionBox, stream, batch, pendingBatch>>
    BY <1>3 DEF BeginDispatch
  <2>2. job'.at = "send" /\ job'.batch = job.batch /\ ~job'.early
    <3>1. job \in [at : {"drain", "begin", "send"}, origin : Origins, early : BOOLEAN,
                   batch : Nat, gen : Nat]
      BY <2>1 DEF TypeOK, Jobs, NoJob
    <3> QED
      BY <1>3, <2>1, <3>1
  <2>3. JobQuiet
    BY <2>1, <2>2 DEF JobQuiet, EarlyAlone, Announcing, Dispatched, Dispatching
  <2> QED
    BY <2>1, <2>3, PlacedQuiet DEF BoxesQuiet, Quiet
<1>4. CASE SendDispatch
  <2>1. /\ job.at = "send" /\ job' = NoJob
        /\ UNCHANGED <<toolBox, batch, pendingBatch>>
    BY <1>4 DEF SendDispatch
  <2>2. /\ \A g : ~Announcing(job', g)
        /\ EarlyAlone' /\ \A b : ~Dispatched(job', b)
    BY <2>1 DEF Announcing, EarlyAlone, Dispatched, Dispatching, NoJob
  <2>3. CASE job.early
    <3>1. PublishSend(job.gen, job.origin) /\ stream' = stream
      BY <1>4, <2>3 DEF SendDispatch
    <3>2. Announcing(job, job.gen) /\ job.gen \in Nat /\ job.origin \in Origins
      BY <1>1, <2>1, <2>3 DEF Announcing
    <3>3. Fresh(stream, job.gen)
      BY <3>2 DEF BatchInv, SendsFresh, SendAt
    <3>4. SendsFresh'
      BY <2>2, <3>1, <3>2, <3>3, SentFresh DEF BatchInv
    <3>5. BatchesPlaced'
      <4>1. \A b : StreamQuiet(b)
        BY <3>1 DEF StreamQuiet
      <4>2. Quiet(sessionBox, sessionBox', SessionMsg, "ToolBatchCompleted")
        BY <3>1, <3>2, SessionSendQuiet
      <4> QED
        BY <2>1, <2>2, <4>1, <4>2, BatchesQuiet DEF BatchInv, Quiet
    <3> QED
      BY <3>4, <3>5 DEF BatchInv
  <2>4. CASE ~job.early
    <3>1. PublishSend(Now, job.origin) /\ stream' = Stamped(job.batch)
      BY <1>4, <2>4 DEF SendDispatch
    <3>2. job.batch \in Nat /\ job.origin \in Origins /\ Dispatched(job, job.batch)
      BY <1>1, <2>1 DEF Dispatched, Dispatching
    <3>3. /\ Now \in Nat /\ ~Fresh(stream, Now) /\ Fresh(stream', Now)
          /\ \A g : Fresh(stream, g) => Fresh(stream', g)
      BY <3>1, <3>2, StampFresh
    <3>4. SendsFresh'
      BY <2>2, <3>1, <3>2, <3>3, SentFresh DEF BatchInv
    <3>5. Quiet(sessionBox, sessionBox', SessionMsg, "ToolBatchCompleted")
      BY <3>1, <3>2, <3>3, SessionSendQuiet
    <3>6. BatchesPlaced'
      BY <2>1, <2>2, <3>1, <3>2, <3>5, StampPlaced
    <3> QED
      BY <3>4, <3>6 DEF BatchInv
  <2> QED
    BY <2>3, <2>4
<1>5. CASE SendPopped
  <2>1. /\ PublishSend(Now, "User") /\ stream' = Stamped(0)
        /\ UNCHANGED <<job, toolBox, batch, pendingBatch>>
    BY <1>5 DEF SendPopped
  <2>2. /\ Now \in Nat /\ ~Fresh(stream, Now) /\ Fresh(stream', Now)
        /\ \A g : Fresh(stream, g) => Fresh(stream', g)
    BY <2>1, StampFresh
  <2>3. "User" \in Origins
    BY DEF Origins
  <2>4. SendsFresh'
    <3> SUFFICES ASSUME NEW k \in Nat
                 PROVE  SendAt(llmBox', stream', job', k)
      BY DEF SendsFresh
    <3>1. SendAt(llmBox, stream, job, k)
      BY DEF BatchInv, SendsFresh
    <3>2. /\ llmBox' = Append(llmBox, Send(Now, "User")) /\ Send(Now, "User") \in LlmMsg
          /\ Names(Send(Now, "User"), "SendToLlmProvider", k) <=> k = Now
      BY <2>1, <2>2, <2>3, MessageKinds DEF PublishSend, Names, Send
    <3>3. /\ Posted(llmBox', "SendToLlmProvider", k)
               <=> Posted(llmBox, "SendToLlmProvider", k) \/ k = Now
          /\ PostedOnce(llmBox, "SendToLlmProvider", k)
               /\ ~(Posted(llmBox, "SendToLlmProvider", k) /\ k = Now)
               => PostedOnce(llmBox', "SendToLlmProvider", k)
      BY <3>2, PostAppended DEF TypeOK
    <3> HIDE DEF Now
    <3> QED
      BY <2>1, <2>2, <3>1, <3>3 DEF SendAt
  <2>5. EarlyAlone' /\ \A b : Dispatched(job', b) => Dispatched(job, b)
    BY <2>1 DEF EarlyAlone, BatchInv, BatchesPlaced
  <2>6. Quiet(sessionBox, sessionBox', SessionMsg, "ToolBatchCompleted")
    BY <2>1, <2>2, <2>3, SessionSendQuiet
  <2>7. BatchesPlaced'
    BY <2>1, <2>5, <2>6, StampPlaced
  <2> QED
    BY <2>4, <2>7 DEF BatchInv
<1> QED
  BY <1>2, <1>3, <1>4, <1>5

LEMMA SessionActorPlaced ==
  ASSUME TypeOK, BatchInv, SessionActor \/ Queue
  PROVE  BatchInv'
<1> USE DEF sessionVars, llmVars, toolVars, userVars
<1>1. CASE HandleEnqueueUserMessage
  <2>1. /\ NextSessionMsg("EnqueueUserMessage")
        /\ UNCHANGED <<llmBox, toolBox, stream, batch, pendingBatch>>
        /\ job' = job \/ job' = Dispatch("drain", "User", FALSE, 0)
    BY <1>1 DEF HandleEnqueueUserMessage
  <2>2. JobQuiet
    BY <2>1, JobStays, JobOfUser
  <2> QED
    BY <2>1, <2>2, TakenQuiet, PlacedQuiet
<1>2. CASE HandleSubmitSteeringMessage
  BY <1>2, TakenQuiet, PlacedQuiet, JobStays DEF HandleSubmitSteeringMessage
<1>3. CASE HandleEnqueueResumeTurn
  <2>1. /\ NextSessionMsg("EnqueueResumeTurn")
        /\ UNCHANGED <<llmBox, toolBox, stream, batch, pendingBatch>>
        /\ job' = NoJob \/ job' = [at |-> "resume"]
    BY <1>3 DEF HandleEnqueueResumeTurn
  <2> QED
    BY <2>1, JobOfUser, TakenQuiet, PlacedQuiet
<1>4. CASE ResumeTurn
  <2>1. /\ UNCHANGED <<llmBox, toolBox, sessionBox, stream, batch, pendingBatch>>
        /\ job' = Dispatch("drain", "User", TRUE, 0)
    BY <1>4 DEF ResumeTurn
  <2> QED
    BY <2>1, JobOfUser, PlacedQuiet DEF BoxesQuiet, Quiet
<1>5. CASE HandleRetryStalledSession
  <2>1. /\ NextSessionMsg("RetryStalledSession")
        /\ UNCHANGED <<llmBox, toolBox, stream, batch, pendingBatch>>
        /\ job' = NoJob \/ job' = Dispatch("begin", "User", TRUE, 0)
    BY <1>5 DEF HandleRetryStalledSession
  <2> QED
    BY <2>1, JobOfUser, TakenQuiet, PlacedQuiet
<1>6. CASE DrainSteering
  <2>1. /\ UNCHANGED <<llmBox, toolBox, sessionBox, stream, batch, pendingBatch>>
        /\ job.at = "drain" /\ job' = [job EXCEPT !.at = "begin"]
    BY <1>6 DEF DrainSteering
  <2>2. job'.at = "begin" /\ job'.batch = job.batch /\ job'.early = job.early
    <3>1. job \in [at : {"drain", "begin", "send"}, origin : Origins, early : BOOLEAN,
                   batch : Nat, gen : Nat]
      BY <2>1 DEF TypeOK, Jobs, NoJob
    <3> QED
      BY <2>1, <3>1
  <2>3. EarlyAlone
    BY DEF BatchInv, BatchesPlaced
  <2>4. JobQuiet
    BY <2>1, <2>2, <2>3 DEF JobQuiet, EarlyAlone, Announcing, Dispatched, Dispatching
  <2> QED
    BY <2>1, <2>4, PlacedQuiet DEF BoxesQuiet, Quiet
<1>7. CASE BeginDispatch \/ SendDispatch \/ SendPopped
  BY <1>7, DispatchPlaced
<1>8. CASE HandleSendToLlmProvider
  BY <1>8, TakenQuiet, PlacedQuiet, JobStays DEF HandleSendToLlmProvider
<1>9. CASE HandleStreamToken
  BY <1>9, TakenQuiet, PlacedQuiet, JobStays DEF HandleStreamToken
<1>10. CASE HandleStreamCompleted
  BY <1>10, BufferedContinued
<1>11. CASE HandleToolExecutionCompleted
  BY <1>11, TakenQuiet, PlacedQuiet, JobStays DEF HandleToolExecutionCompleted
<1>12. CASE HandleToolBatchCompleted
  BY <1>12, CompletedContinued
<1>13. CASE PopOnIdle
  <2>1. UNCHANGED <<llmBox, toolBox, sessionBox, job, stream, batch, pendingBatch>>
    BY <1>13 DEF PopOnIdle
  <2> QED
    BY <2>1, PlacedQuiet, JobStays DEF BoxesQuiet, Quiet
<1>14. CASE PushPopped
  <2>1. UNCHANGED <<llmBox, toolBox, sessionBox, job, stream, batch, pendingBatch>>
    BY <1>14 DEF PushPopped
  <2> QED
    BY <2>1, PlacedQuiet, JobStays DEF BoxesQuiet, Quiet
<1> QED
  BY <1>1, <1>2, <1>3, <1>4, <1>5, <1>6, <1>7, <1>8, <1>9, <1>10, <1>11, <1>12, <1>13, <1>14
     DEF SessionActor, Queue

\* PublishCompleted tells two actors, and neither of a batch or a send.
LEMMA CompletedQuiet ==
  ASSUME TypeOK, NEW g \in Nat, NEW r \in Reasons,
         \/ PublishCompleted(llmBox, g, r)
         \/ /\ llmBox # <<>> /\ Head(llmBox).type # "SendToLlmProvider"
            /\ PublishCompleted(Tail(llmBox), g, r)
  PROVE  /\ Quiet(llmBox, llmBox', LlmMsg, "SendToLlmProvider")
         /\ Quiet(sessionBox, sessionBox', SessionMsg, "ToolBatchCompleted")
<1>1. /\ Completed(g, r) \in SessionMsg /\ Completed(g, r) \in LlmMsg
      /\ Completed(g, r).type = "StreamCompleted"
  BY MessageKinds DEF Completed
<1> QED
  BY <1>1 DEF PublishCompleted, Quiet

\* The LLM actor takes a send: the generation it names is not announced again.
LEMMA SendTaken ==
  ASSUME TypeOK, BatchInv, NextLlmMsg("SendToLlmProvider"), NEW s \in StreamStates, s # "toolUse",
         stream' = [stream EXCEPT ![Head(llmBox).gen].st = s],
         Quiet(Tail(llmBox), llmBox', LlmMsg, "SendToLlmProvider"),
         Quiet(sessionBox, sessionBox', SessionMsg, "ToolBatchCompleted"),
         UNCHANGED <<job, toolBox, batch, pendingBatch>>
  PROVE  BatchInv'
<1> DEFINE m == Head(llmBox)
<1>1. /\ llmBox \in Seq(LlmMsg) /\ llmBox # <<>> /\ Tail(llmBox) \in Seq(LlmMsg)
      /\ m \in LlmMsg /\ m.type = "SendToLlmProvider" /\ m.gen \in Nat
  BY LlmHead, MessageFields DEF TypeOK, NextLlmMsg
<1>2. Names(m, "SendToLlmProvider", m.gen) /\ \A g : Names(m, "SendToLlmProvider", g) <=> g = m.gen
  BY <1>1 DEF Names
<1>3. \A g : /\ Posted(llmBox, "SendToLlmProvider", g)
                  <=> g = m.gen \/ Posted(Tail(llmBox), "SendToLlmProvider", g)
             /\ PostedOnce(llmBox, "SendToLlmProvider", g)
                  => /\ PostedOnce(Tail(llmBox), "SendToLlmProvider", g)
                     /\ ~(g = m.gen /\ Posted(Tail(llmBox), "SendToLlmProvider", g))
  BY <1>1, <1>2, PostTaken
<1>4. \A g : /\ Posted(llmBox', "SendToLlmProvider", g)
                  => Posted(Tail(llmBox), "SendToLlmProvider", g)
             /\ PostedOnce(Tail(llmBox), "SendToLlmProvider", g)
                  => PostedOnce(llmBox', "SendToLlmProvider", g)
  BY <1>1, PostQuiet
<1>5. Fresh(stream, m.gen)
  BY <1>1, <1>3 DEF BatchInv, SendsFresh, SendAt
<1>6. m.gen \in Gens /\ stream[m.gen].st = "stamped"
  BY <1>5 DEF Fresh, Gens
<1>7. /\ \A k : Fresh(stream, k) /\ k # m.gen => Fresh(stream', k)
      /\ \A b : b # m.gen => (Unsent(stream', b) => Unsent(stream, b))
      /\ \A b : Continued(stream', b) <=> Continued(stream, b)
      /\ \A b : ContinuedOnce(stream, b) => ContinuedOnce(stream', b)
  <2>1. stream \in Seq([of : Nat, st : StreamStates])
    BY DEF TypeOK
  <2> QED
    BY <1>6, <2>1, StreamMoves
<1>8. SendsFresh'
  <2> SUFFICES ASSUME NEW g \in Nat
               PROVE  SendAt(llmBox', stream', job', g)
    BY DEF SendsFresh
  <2>1. SendAt(llmBox, stream, job, g)
    BY DEF BatchInv, SendsFresh
  <2> HIDE DEF m
  <2> QED
    BY <1>3, <1>4, <1>7, <2>1 DEF SendAt
<1>9. \A b : Unsent(stream', b) => Unsent(stream, b)
  BY <1>6, <1>7 DEF Unsent
<1>10. \A b : StreamQuiet(b)
  BY <1>7, <1>9 DEF StreamQuiet
<1>11. EarlyAlone' /\ \A b : Dispatched(job', b) => Dispatched(job, b)
  BY DEF EarlyAlone, BatchInv, BatchesPlaced
<1>12. BatchesPlaced'
  BY <1>10, <1>11, BatchesQuiet DEF BatchInv, Quiet
<1> QED
  BY <1>8, <1>12 DEF BatchInv

LEMMA LlmPlaced ==
  ASSUME TypeOK, BatchInv, Llm
  PROVE  BatchInv'
<1> USE DEF sessionVars, llmVars, toolVars, userVars
<1>1. CASE DropContinuation
  <2>1. /\ NextLlmMsg("SendToLlmProvider") /\ llmBox' = Tail(llmBox)
        /\ stream' = [stream EXCEPT ![Head(llmBox).gen].st = "dropped"]
        /\ UNCHANGED <<sessionBox, job, toolBox, batch, pendingBatch>>
    BY <1>1 DEF DropContinuation
  <2>2. "dropped" \in StreamStates
    BY DEF StreamStates
  <2> QED
    BY <2>1, <2>2, SendTaken DEF Quiet
<1>2. CASE StartStream
  <2>1. /\ NextLlmMsg("SendToLlmProvider")
        /\ UNCHANGED <<job, toolBox, batch, pendingBatch>>
        /\ \/ /\ stream' = [stream EXCEPT ![Head(llmBox).gen].st = "open"]
              /\ llmBox' = Tail(llmBox) /\ sessionBox' = sessionBox
           \/ /\ stream' = [stream EXCEPT ![Head(llmBox).gen].st = "ended"]
              /\ PublishCompleted(Tail(llmBox), Head(llmBox).gen, "Error")
    BY <1>2 DEF StartStream
  <2>2. {"open", "ended"} \subseteq StreamStates /\ "Error" \in Reasons
    BY DEF StreamStates, Reasons
  <2>3. /\ Head(llmBox).gen \in Nat
    BY <2>1, LlmHead, MessageFields DEF TypeOK
  <2>4. /\ Quiet(Tail(llmBox), llmBox', LlmMsg, "SendToLlmProvider")
        /\ Quiet(sessionBox, sessionBox', SessionMsg, "ToolBatchCompleted")
    <3>1. /\ Completed(Head(llmBox).gen, "Error") \in SessionMsg
          /\ Completed(Head(llmBox).gen, "Error") \in LlmMsg
          /\ Completed(Head(llmBox).gen, "Error").type = "StreamCompleted"
      BY <2>2, <2>3, MessageKinds DEF Completed
    <3> QED
      BY <2>1, <3>1 DEF PublishCompleted, Quiet
  <2> QED
    BY <2>1, <2>2, <2>4, SendTaken
<1>3. CASE UntrackCompleted
  <2>1. /\ UNCHANGED <<toolBox, sessionBox, job, stream, batch, pendingBatch>>
        /\ NextLlmMsg("StreamCompleted") /\ llmBox' = Tail(llmBox)
    BY <1>3 DEF UntrackCompleted
  <2>2. BoxesQuiet
    BY <2>1 DEF BoxesQuiet, Quiet, NextLlmMsg
  <2> QED
    BY <2>1, <2>2, PlacedQuiet, JobStays
<1>4. CASE CancelStream
  <2>1. /\ NextLlmMsg("CancelStream") /\ UNCHANGED <<job, batch, pendingBatch>>
        /\ \/ /\ llmBox' = Tail(llmBox) /\ UNCHANGED <<sessionBox, toolBox, stream>>
           \/ /\ toolBox' = Append(toolBox, [type |-> "CancelToolBatch"])
              /\ PublishCompleted(Tail(llmBox), CancelledGen, "Canceled")
              /\ stream' = stream \/ stream' = Append(stream, [of |-> 0, st |-> "ended"])
    <3>1. NextLlmMsg("CancelStream") /\ UNCHANGED <<job, batch, pendingBatch>>
      BY <1>4 DEF CancelStream
    <3>2. CASE tracked = 0
      BY <1>4, <3>1, <3>2 DEF CancelStream
    <3>3. CASE tracked # 0
      BY <1>4, <3>1, <3>3 DEF CancelStream
    <3> QED
      BY <3>2, <3>3
  <2>2. CancelledGen \in Nat /\ "Canceled" \in Reasons
    BY StreamClosed DEF TypeOK, CancelledGen, Reasons
  <2>3. llmBox # <<>> /\ Head(llmBox).type # "SendToLlmProvider"
    BY <2>1 DEF NextLlmMsg
  <2>4. [type |-> "CancelToolBatch"] \in ToolMsg
    BY MessageKinds
  <2>5. BoxesQuiet
    BY <2>1, <2>2, <2>3, <2>4, CompletedQuiet DEF BoxesQuiet, Quiet
  <2>6. CASE stream' = stream
    BY <2>1, <2>5, <2>6, PlacedQuiet, JobStays
  <2>7. CASE stream' = Append(stream, [of |-> 0, st |-> "ended"])
    <3>1. /\ \A g : Fresh(stream, g) => Fresh(stream', g)
          /\ \A b \in Nat \ {0} : StreamQuiet(b)
      <4>1. stream \in Seq([of : Nat, st : StreamStates]) /\ "ended" \in StreamStates
        BY DEF TypeOK, StreamStates
      <4> QED
        BY <2>7, <4>1, StreamGrows DEF StreamQuiet
    <3>2. JobQuiet
      BY <2>1, JobStays
    <3>3. SendsFresh'
      BY <2>5, <3>1, <3>2, SendsQuiet DEF BatchInv, BoxesQuiet, JobQuiet
    <3>4. BatchesPlaced'
      BY <2>1, <2>5, <3>1, <3>2, BatchesQuiet DEF BatchInv, BoxesQuiet, JobQuiet
    <3> QED
      BY <3>3, <3>4 DEF BatchInv
  <2> QED
    BY <2>1, <2>6, <2>7
<1> QED
  BY <1>1, <1>2, <1>3, <1>4 DEF Llm

LEMMA StreamTaskPlaced ==
  ASSUME TypeOK, BatchInv, NEW g \in Gens, StreamTask(g)
  PROVE  BatchInv'
<1> USE DEF sessionVars, llmVars, toolVars, userVars
<1>1. g \in Nat /\ g # 0
  BY DEF Gens, TypeOK
<1>2. PICK to \in StreamStates :
        /\ stream[g].st \in {"open", "tokens", "handoff"}
        /\ stream' = [stream EXCEPT ![g].st = to]
        /\ UNCHANGED <<job, batch, pendingBatch>>
        /\ \/ /\ HandOffBatch(g) /\ stream[g].st = "handoff" /\ to = "toolUse"
           \/ /\ to # "toolUse" /\ toolBox' = toolBox
              /\ \/ sessionBox' = Append(sessionBox, Note("StreamToken", g)) /\ llmBox' = llmBox
                 \/ \E r \in Reasons : PublishCompleted(llmBox, g, r)
                 \/ UNCHANGED <<sessionBox, llmBox>>
  <2> USE DEF StreamStates
  <2>1. {"Finished", "Error", "ToolUse"} \subseteq Reasons
    BY DEF Reasons
  <2>2. CASE FirstToken(g)
    <3> WITNESS "tokens" \in StreamStates
    <3> QED
      BY <2>1, <2>2 DEF FirstToken, StreamStep
  <2>3. CASE StreamFinishes(g)
    <3> WITNESS "ended" \in StreamStates
    <3> QED
      BY <2>1, <2>3 DEF StreamFinishes, StreamStep
  <2>4. CASE StreamFails(g)
    <3> WITNESS "ended" \in StreamStates
    <3> QED
      BY <2>1, <2>4 DEF StreamFails, StreamStep
  <2>5. CASE StreamUsesTools(g)
    <3> WITNESS "handoff" \in StreamStates
    <3> QED
      BY <2>1, <2>5 DEF StreamUsesTools, StreamStep
  <2>6. CASE HandOffBatch(g)
    <3> WITNESS "toolUse" \in StreamStates
    <3> QED
      BY <2>1, <2>6 DEF HandOffBatch, StreamStep
  <2>7. CASE StreamStops(g)
    <3> WITNESS "stopped" \in StreamStates
    <3> QED
      BY <2>1, <2>7 DEF StreamStops, StreamStep
  <2> QED
    BY <2>2, <2>3, <2>4, <2>5, <2>6, <2>7 DEF StreamTask
<1>3. /\ \A k : Fresh(stream, k) => Fresh(stream', k)
      /\ \A b : b # g => (Unsent(stream', b) => Unsent(stream, b))
      /\ Unsent(stream, g) /\ (to = "toolUse" => ~Unsent(stream', g))
      /\ \A b : Continued(stream', b) <=> Continued(stream, b)
      /\ \A b : ContinuedOnce(stream, b) => ContinuedOnce(stream', b)
  <2>1. stream \in Seq([of : Nat, st : StreamStates])
    BY DEF TypeOK
  <2>2. ~Fresh(stream, g) /\ Unsent(stream, g)
    BY <1>2 DEF Fresh, Unsent
  <2> QED
    BY <1>2, <2>1, <2>2, StreamMoves
<1>4. JobQuiet
  BY <1>2, JobStays
<1>5. CASE to # "toolUse"
  <2>1. Quiet(toolBox, toolBox', ToolMsg, "ExecuteToolBatch")
    BY <1>2, <1>5 DEF Quiet
  <2>2. /\ Quiet(llmBox, llmBox', LlmMsg, "SendToLlmProvider")
        /\ Quiet(sessionBox, sessionBox', SessionMsg, "ToolBatchCompleted")
    <3>1. Note("StreamToken", g) \in SessionMsg /\ Note("StreamToken", g).type = "StreamToken"
      BY <1>1, MessageKinds DEF Note
    <3>2. CASE sessionBox' = Append(sessionBox, Note("StreamToken", g)) /\ llmBox' = llmBox
      BY <3>1, <3>2 DEF Quiet
    <3>3. CASE \E r \in Reasons : PublishCompleted(llmBox, g, r)
      BY <1>1, <3>3, CompletedQuiet
    <3>4. CASE UNCHANGED <<sessionBox, llmBox>>
      BY <3>4 DEF Quiet
    <3> QED
      BY <1>2, <1>5, <3>2, <3>3, <3>4
  <2>3. \A b : StreamQuiet(b)
    BY <1>3 DEF StreamQuiet
  <2>4. SendsFresh'
    BY <1>3, <1>4, <2>2, SendsQuiet DEF BatchInv, JobQuiet
  <2>5. BatchesPlaced'
    BY <1>2, <1>4, <2>1, <2>2, <2>3, BatchesQuiet DEF BatchInv, JobQuiet
  <2> QED
    BY <2>4, <2>5 DEF BatchInv
<1>6. CASE to = "toolUse"
  <2>1. /\ toolBox' = Append(toolBox, Note("ExecuteToolBatch", g))
        /\ UNCHANGED <<sessionBox, llmBox>>
    BY <1>2, <1>6 DEF HandOffBatch
  <2>2. SendsFresh'
    BY <1>3, <1>4, <2>1, SendsQuiet DEF BatchInv, JobQuiet, Quiet
  <2>3. ASSUME NEW b \in Nat \ {0}
        PROVE  BatchAt(toolBox', sessionBox', stream', batch', pendingBatch', job', b)
    <3>1. BatchAt(toolBox, sessionBox, stream, batch, pendingBatch, job, b)
      BY DEF BatchInv, BatchesPlaced
    <3>2. /\ Note("ExecuteToolBatch", g) \in ToolMsg
          /\ Names(Note("ExecuteToolBatch", g), "ExecuteToolBatch", b) <=> b = g
      BY <1>1, MessageKinds DEF Names, Note
    <3>3. /\ Posted(toolBox', "ExecuteToolBatch", b)
               <=> Posted(toolBox, "ExecuteToolBatch", b) \/ b = g
          /\ PostedOnce(toolBox, "ExecuteToolBatch", b)
               /\ ~(Posted(toolBox, "ExecuteToolBatch", b) /\ b = g)
               => PostedOnce(toolBox', "ExecuteToolBatch", b)
      BY <2>1, <3>2, PostAppended DEF TypeOK
    <3>4. /\ Unsent(stream', b) => Unsent(stream, b) /\ b # g
          /\ b = g => Unsent(stream, b)
      BY <1>3, <1>6
    <3>5. UNCHANGED <<sessionBox, job, batch, pendingBatch>>
      BY <1>2, <2>1
    <3> QED
      BY <1>3, <3>1, <3>3, <3>4, <3>5 DEF BatchAt, Apart
  <2> QED
    BY <1>4, <2>2, <2>3 DEF BatchInv, BatchesPlaced, JobQuiet
<1> QED
  BY <1>5, <1>6

LEMMA OrchestratorPlaced ==
  ASSUME TypeOK, BatchInv, Orchestrator \/ \E g \in running : ToolFinishes(g)
  PROVE  BatchInv'
<1> USE DEF sessionVars, llmVars, toolVars, userVars
<1>1. CASE ExecuteToolBatch
  <2> DEFINE of == Head(toolBox).gen
  <2>1. /\ toolBox # <<>> /\ Head(toolBox).type = "ExecuteToolBatch" /\ toolBox' = Tail(toolBox)
        /\ batch' = of /\ UNCHANGED <<job, llmBox, sessionBox, stream, pendingBatch>>
    BY <1>1 DEF ExecuteToolBatch, NextToolMsg
  <2>2. SendsFresh'
    BY <2>1, SendsQuiet DEF BatchInv, Quiet
  <2>3. ASSUME NEW b \in Nat \ {0}
        PROVE  BatchAt(toolBox', sessionBox', stream', batch', pendingBatch', job', b)
    <3>1. BatchAt(toolBox, sessionBox, stream, batch, pendingBatch, job, b)
      BY DEF BatchInv, BatchesPlaced
    <3>2. /\ Posted(toolBox, "ExecuteToolBatch", b)
               <=> of = b \/ Posted(toolBox', "ExecuteToolBatch", b)
          /\ PostedOnce(toolBox, "ExecuteToolBatch", b)
               => /\ PostedOnce(toolBox', "ExecuteToolBatch", b)
                  /\ ~(of = b /\ Posted(toolBox', "ExecuteToolBatch", b))
      BY <2>1, PostTaken DEF TypeOK, Names
    <3> HIDE DEF of
    <3> QED
      BY <2>1, <3>1, <3>2 DEF BatchAt, Apart
  <2>4. EarlyAlone'
    BY <2>1 DEF EarlyAlone, BatchInv, BatchesPlaced
  <2> QED
    BY <2>2, <2>3, <2>4 DEF BatchInv, BatchesPlaced
<1>2. CASE CancelToolBatch
  <2>1. /\ NextToolMsg("CancelToolBatch") /\ batch' = 0
        /\ UNCHANGED <<job, llmBox, sessionBox, stream, pendingBatch>>
    BY <1>2 DEF CancelToolBatch
  <2>2. BoxesQuiet
    BY <2>1 DEF BoxesQuiet, Quiet, NextToolMsg
  <2> QED
    BY <2>1, <2>2, PlacedQuiet, JobStays
<1>3. CASE CountToolResult /\ batch = 0
  <2>1. /\ NextToolMsg("ToolExecutionCompleted") /\ batch' = 0
        /\ UNCHANGED <<job, llmBox, sessionBox, stream, pendingBatch>>
    BY <1>3 DEF CountToolResult
  <2>2. BoxesQuiet
    BY <2>1 DEF BoxesQuiet, Quiet, NextToolMsg
  <2> QED
    BY <2>1, <2>2, PlacedQuiet, JobStays
<1>4. CASE CountToolResult /\ batch # 0
  <2>1. /\ NextToolMsg("ToolExecutionCompleted") /\ batch' = 0
        /\ sessionBox' = Append(sessionBox, Note("ToolBatchCompleted", batch))
        /\ UNCHANGED <<job, llmBox, stream, pendingBatch>>
    BY <1>4 DEF CountToolResult
  <2>2. SendsFresh'
    BY <2>1, SendsQuiet DEF BatchInv, Quiet
  <2>3. Quiet(toolBox, toolBox', ToolMsg, "ExecuteToolBatch")
    BY <2>1 DEF Quiet, NextToolMsg
  <2>4. ASSUME NEW b \in Nat \ {0}
        PROVE  BatchAt(toolBox', sessionBox', stream', batch', pendingBatch', job', b)
    <3>1. BatchAt(toolBox, sessionBox, stream, batch, pendingBatch, job, b)
      BY DEF BatchInv, BatchesPlaced
    <3>2. /\ Posted(toolBox', "ExecuteToolBatch", b) => Posted(toolBox, "ExecuteToolBatch", b)
          /\ PostedOnce(toolBox, "ExecuteToolBatch", b)
               => PostedOnce(toolBox', "ExecuteToolBatch", b)
      BY <2>3, PostQuiet DEF TypeOK
    <3>3. /\ Note("ToolBatchCompleted", batch) \in SessionMsg
          /\ Names(Note("ToolBatchCompleted", batch), "ToolBatchCompleted", b) <=> batch = b
      BY MessageKinds DEF TypeOK, Names, Note
    <3>4. /\ Posted(sessionBox', "ToolBatchCompleted", b)
               <=> Posted(sessionBox, "ToolBatchCompleted", b) \/ batch = b
          /\ PostedOnce(sessionBox, "ToolBatchCompleted", b)
               /\ ~(Posted(sessionBox, "ToolBatchCompleted", b) /\ batch = b)
               => PostedOnce(sessionBox', "ToolBatchCompleted", b)
      BY <2>1, <3>3, PostAppended DEF TypeOK
    <3> QED
      BY <2>1, <3>1, <3>2, <3>4 DEF BatchAt, Apart
  <2>5. EarlyAlone'
    BY <2>1 DEF EarlyAlone, BatchInv, BatchesPlaced
  <2> QED
    BY <2>2, <2>4, <2>5 DEF BatchInv, BatchesPlaced
<1>5. ASSUME NEW g \in running, ToolFinishes(g)
      PROVE  BatchInv'
  <2>1. /\ sessionBox' = Append(sessionBox, Note("ToolExecutionCompleted", g))
        /\ toolBox' = Append(toolBox, Note("ToolExecutionCompleted", g))
        /\ UNCHANGED <<job, llmBox, stream, batch, pendingBatch>>
    BY <1>5 DEF ToolFinishes
  <2>2. /\ Note("ToolExecutionCompleted", g) \in SessionMsg
        /\ Note("ToolExecutionCompleted", g) \in ToolMsg
        /\ Note("ToolExecutionCompleted", g).type = "ToolExecutionCompleted"
    BY MessageKinds DEF TypeOK, Note
  <2>3. BoxesQuiet
    BY <2>1, <2>2 DEF BoxesQuiet, Quiet
  <2> QED
    BY <2>1, <2>3, PlacedQuiet, JobStays
<1> QED
  BY <1>1, <1>2, <1>3, <1>4, <1>5 DEF Orchestrator

LEMMA PlacedInit == Init => BatchInv
<1> SUFFICES ASSUME Init PROVE BatchInv
  OBVIOUS
<1>1. /\ llmBox = <<>> /\ toolBox = <<>> /\ sessionBox = <<>> /\ stream = <<>>
      /\ job = NoJob /\ batch = 0 /\ pendingBatch = 0
  BY DEF Init
<1>2. \A t, g : ~Posted(<<>>, t, g) /\ PostedOnce(<<>>, t, g)
  BY DEF Posted, PostedOnce
<1>3. \A b : ~Continued(<<>>, b) /\ ContinuedOnce(<<>>, b)
  BY DEF Continued, ContinuedOnce
<1>4. /\ \A b : ~Dispatched(NoJob, b) /\ ~Announcing(NoJob, b)
      /\ ~Dispatching(NoJob)
  BY DEF Dispatched, Dispatching, Announcing, NoJob
<1> QED
  BY <1>1, <1>2, <1>3, <1>4
     DEF BatchInv, SendsFresh, SendAt, BatchesPlaced, EarlyAlone, BatchAt, Apart

LEMMA PlacedStep == TypeOK /\ BatchInv /\ [Next]_vars => BatchInv'
<1> SUFFICES ASSUME TypeOK, BatchInv, [Next]_vars PROVE BatchInv'
  OBVIOUS
<1>1. CASE Frontend \/ Plugins \/ \E m \in bridge : BridgePublish(m)
  BY <1>1, FrontendPlaced
<1>2. CASE SessionActor \/ Queue
  BY <1>2, SessionActorPlaced
<1>3. CASE Llm
  BY <1>3, LlmPlaced
<1>4. CASE Orchestrator \/ \E g \in running : ToolFinishes(g)
  BY <1>4, OrchestratorPlaced
<1>5. ASSUME NEW g \in Gens, StreamTask(g)
      PROVE  BatchInv'
  BY <1>5, StreamTaskPlaced
<1>6. CASE UNCHANGED vars
  <2>1. UNCHANGED <<llmBox, toolBox, sessionBox, job, stream, batch, pendingBatch>>
    BY <1>6 DEF vars, sessionVars, toolVars
  <2> QED
    BY <2>1, PlacedQuiet, JobStays DEF BoxesQuiet, Quiet
<1> QED
  BY <1>1, <1>2, <1>3, <1>4, <1>5, <1>6 DEF Next

\* However batches, buffered batches, retries, resumes and stragglers interleave, and
\* whatever is cancelled or fails in between, no second request carries the results of a
\* batch.
THEOREM BatchContinuedOnce == Spec => []OneContinuationPerBatch
<1>1. BatchInv /\ TypeOK => OneContinuationPerBatch
  <2> SUFFICES ASSUME BatchInv, TypeOK PROVE OneContinuationPerBatch
    OBVIOUS
  <2>1. ASSUME NEW b \in Nat \ {0}
        PROVE  ContinuedOnce(stream, b) /\ ~(Dispatched(job, b) /\ Continued(stream, b))
    BY DEF BatchInv, BatchesPlaced, BatchAt, Apart
  <2>2. \A g \in Gens : stream[g].of \in Nat
    <3>1. stream \in [1..Len(stream) -> [of : Nat, st : StreamStates]]
      BY LenProperties DEF TypeOK
    <3> QED
      BY <3>1 DEF Gens
  <2>3. Dispatching(job) => job.batch \in Nat
    BY JobClosed DEF TypeOK, Dispatching
  <2>4. ASSUME NEW g \in Gens, NEW h \in Gens, stream[g].of # 0, stream[g].of = stream[h].of
        PROVE  g = h
    BY <2>1, <2>2, <2>4 DEF ContinuedOnce, Gens
  <2>5. ASSUME Dispatching(job), job.batch # 0, NEW g \in Gens
        PROVE  stream[g].of # job.batch
    BY <2>1, <2>3, <2>5 DEF Dispatched, Continued, Gens
  <2> QED
    BY <2>4, <2>5 DEF OneContinuationPerBatch, Dispatching
<1> QED
  BY <1>1, PlacedInit, PlacedStep, TypeCorrect, PTL DEF Spec

-----------------------------------------------------------------------------
(* A turn that nobody cancels and no dispatch overtakes is one activity:      *)
(* what moves it on is in one place at a time, and while it is anywhere the   *)
(* session is not idle.                                                       *)

\* What is in a mailbox, and where the messages of a kind are in it.
Mail(box) == {box[i] : i \in DOMAIN box}
At(box, kind) == {i \in DOMAIN box : box[i] \in kind}
Carrying(box, kind) == Mail(box) \cap kind # {}
Once(box, kind) == \A i, j \in At(box, kind) : i = j
Before(box, kind, later) == \A i \in At(box, kind), j \in At(box, later) : i < j

Notes(type) == [type : {type}, gen : Nat]
EndMsg == [type : {"StreamCompleted"}, gen : Nat, reason : Reasons \ {"ToolUse"}]
UseMsg == [type : {"StreamCompleted"}, gen : Nat, reason : {"ToolUse"}]
TokenMsg == Notes("StreamToken")
ResultMsg == Notes("ToolExecutionCompleted")
DoneMsg == Notes("ToolBatchCompleted")
ExecMsg == Notes("ExecuteToolBatch")

\* A stream that has not handed everything over; those of still are not heard of.
Acting(still, states) == \E g \in Gens \ still : stream[g].st \in states

\* Where the turn is.  asked: a plugin asks for a restart or a cancel.
Activity(still, asked) ==
  {n \in {"asked", "retry", "cancel", "job", "hand", "send", "stream", "handoff", "ended",
          "execute", "batch", "done"} :
     \/ n = "asked" /\ asked
     \/ n = "retry" /\ Carrying(sessionBox, RetryMsg)
     \/ n = "cancel" /\ Carrying(llmBox, CancelMsg)
     \/ n = "job" /\ Dispatching(job)
     \/ n = "hand" /\ hand.at = "send"
     \/ n = "send" /\ Carrying(llmBox, SendMsg)
     \/ n = "stream" /\ Acting(still, {"open", "tokens"})
     \/ n = "handoff" /\ Acting(still, {"handoff"})
     \/ n = "ended" /\ Carrying(sessionBox, EndMsg)
     \/ n = "execute" /\ Carrying(toolBox, ExecMsg)
     \/ n = "batch" /\ batch # 0
     \/ n = "done" /\ Carrying(sessionBox, DoneMsg)}

UsingTools == {"handoff", "execute", "batch", "done"}

\* Where the turn is, it is there alone, and the session is not idle.
OneActivity(still, asked) ==
  /\ \A n, k \in Activity(still, asked) : n = k
  /\ Activity(still, asked) # {} => phase # "Idle"

\* The mailboxes hold at most one of what moves the turn on, and the session hears of
\* a stream's end after its tokens and before what its tools report.
SessionMail(box) ==
  /\ Once(box, RetryMsg) /\ Once(box, EndMsg) /\ Once(box, UseMsg) /\ Once(box, DoneMsg)
  /\ Before(box, TokenMsg, UseMsg) /\ Before(box, UseMsg, ResultMsg)
  /\ Before(box, UseMsg, DoneMsg) /\ Before(box, ResultMsg, DoneMsg)
LlmMail(box) == Once(box, CancelMsg) /\ Once(box, SendMsg)
ToolMail(box) ==
  /\ Once(box, ExecMsg) /\ Once(box, ResultMsg)
  /\ Before(box, CancelBatchMsg, ExecMsg)
MailInOrder ==
  /\ SessionMail(sessionBox) /\ LlmMail(llmBox) /\ ToolMail(toolBox)
  /\ bridge \cap CancelMsg = {}

\* A generation on its way to its stream: the last one, and no task has run for it.
Unopened(g) == g = Len(stream) /\ g # 0 /\ g \notin aborted \cup {task}

\* What is on its way for a generation is on its way for the last one.
LastGeneration(still) ==
  /\ \A g \in Gens \ still :
       stream[g].st \in {"open", "tokens", "handoff"} => g = Len(stream) /\ g \notin aborted
  /\ \A m \in Mail(llmBox) \cap SendMsg : Unopened(m.gen)
  /\ \A m \in Mail(sessionBox) \cap SendMsg : m.gen <= Len(stream)
  /\ \A m \in Mail(sessionBox) \cap UseMsg : m.gen = Len(stream)
  /\ job.at = "send" /\ job.early => Unopened(job.gen)
  /\ guard <= Len(stream)
  /\ aborted \cup {task} \subseteq 0..Len(stream)

\* While tools are used, the session waits for them, or will once it has handled the
\* completion that asked for them.
ToolsAwaited(still, asked) ==
  /\ Carrying(sessionBox, UseMsg) => Activity(still, asked) \cap UsingTools # {}
  /\ Activity(still, asked) \cap UsingTools # {} =>
       \/ phase = "Sending" /\ ~Carrying(sessionBox, TokenMsg)
       \/ Carrying(sessionBox, UseMsg)
  /\ Carrying(sessionBox, ResultMsg) => batch # 0 \/ Carrying(sessionBox, DoneMsg)
  /\ pendingBatch = 0

\* The result of b is in the history, or in the mailbox.
Reported(b) == b \in answered \/ Note("ToolExecutionCompleted", b) \in Mail(sessionBox)

\* One batch at a time, and its result is in before it counts as finished.
ToolsAnswer ==
  /\ running \subseteq {batch} \ {0}
  /\ batch # 0 => batch \in running \/ Carrying(toolBox, ResultMsg)
  /\ Carrying(toolBox, ResultMsg) => running = {} /\ batch # 0 /\ Reported(batch)
  /\ \A m \in Mail(toolBox) \cap ExecMsg : m.gen # 0
  /\ Carrying(toolBox, CancelBatchMsg) => batch = 0
  /\ \A m \in Mail(sessionBox) \cap DoneMsg : Reported(m.gen)
  /\ Dispatching(job) /\ job.origin = "ToolContinuation" => job.batch \in answered

Solo(still, asked) ==
  /\ OneActivity(still, asked) /\ MailInOrder /\ LastGeneration(still)
  /\ ToolsAwaited(still, asked) /\ ToolsAnswer

-----------------------------------------------------------------------------
\* The messages of each kind by what a handler looks at.
LEMMA Sorts ==
  /\ \A m \in SessionMsg :
       /\ m \in SendMsg <=> m.type = "SendToLlmProvider"
       /\ m \in RetryMsg <=> m.type = "RetryStalledSession"
       /\ m \in EndMsg <=> m.type = "StreamCompleted" /\ m.reason # "ToolUse"
       /\ m \in UseMsg <=> m.type = "StreamCompleted" /\ m.reason = "ToolUse"
       /\ m \in TokenMsg <=> m.type = "StreamToken"
       /\ m \in ResultMsg <=> m.type = "ToolExecutionCompleted"
       /\ m \in DoneMsg <=> m.type = "ToolBatchCompleted"
       /\ m \in ResultMsg \cup DoneMsg \cup SendMsg \cup UseMsg => m.gen \in Nat
       /\ m \in ResultMsg => m = Note("ToolExecutionCompleted", m.gen)
  /\ \A m \in LlmMsg : /\ m \in SendMsg <=> m.type = "SendToLlmProvider"
                       /\ m \in CancelMsg <=> m.type = "CancelStream"
  /\ \A m \in ToolMsg : /\ m \in ExecMsg <=> m.type = "ExecuteToolBatch"
                        /\ m \in ResultMsg <=> m.type = "ToolExecutionCompleted"
                        /\ m \in CancelBatchMsg <=> m.type = "CancelToolBatch"
<1>1. \A m \in SessionMsg :
       /\ m \in SendMsg <=> m.type = "SendToLlmProvider"
       /\ m \in RetryMsg <=> m.type = "RetryStalledSession"
       /\ m \in EndMsg <=> m.type = "StreamCompleted" /\ m.reason # "ToolUse"
       /\ m \in UseMsg <=> m.type = "StreamCompleted" /\ m.reason = "ToolUse"
  BY DEF SessionMsg, EntryMsg, RetryMsg, ResumeMsg, SendMsg, CompletedMsg, BatchMsg,
         EndMsg, UseMsg, Reasons
<1>2. \A m \in SessionMsg :
       /\ m \in TokenMsg <=> m.type = "StreamToken"
       /\ m \in ResultMsg <=> m.type = "ToolExecutionCompleted"
       /\ m \in DoneMsg <=> m.type = "ToolBatchCompleted"
  BY DEF SessionMsg, EntryMsg, RetryMsg, ResumeMsg, SendMsg, CompletedMsg, BatchMsg,
         TokenMsg, ResultMsg, DoneMsg, Notes
<1>3. \A m \in SessionMsg :
       /\ m \in ResultMsg \cup DoneMsg \cup SendMsg \cup UseMsg => m.gen \in Nat
       /\ m \in ResultMsg => m = Note("ToolExecutionCompleted", m.gen)
  BY DEF ResultMsg, DoneMsg, SendMsg, UseMsg, Notes, Note
<1>4. \A m \in LlmMsg : /\ m \in SendMsg <=> m.type = "SendToLlmProvider"
                        /\ m \in CancelMsg <=> m.type = "CancelStream"
  BY DEF LlmMsg, SendMsg, CompletedMsg, CancelMsg
<1>5. \A m \in ToolMsg : /\ m \in ExecMsg <=> m.type = "ExecuteToolBatch"
                         /\ m \in ResultMsg <=> m.type = "ToolExecutionCompleted"
                         /\ m \in CancelBatchMsg <=> m.type = "CancelToolBatch"
  BY DEF ToolMsg, BatchMsg, CancelBatchMsg, ExecMsg, ResultMsg, Notes
<1> QED
  BY <1>1, <1>2, <1>3, <1>4, <1>5

\* A message joins a mailbox.
LEMMA Gained ==
  ASSUME NEW S, NEW box \in Seq(S), NEW m \in S, NEW new, new = Append(box, m)
  PROVE  /\ Mail(new) = Mail(box) \cup {m}
         /\ \A kind : Once(box, kind) /\ ~(Carrying(box, kind) /\ m \in kind) => Once(new, kind)
         /\ \A kind, later : /\ Before(box, kind, later)
                             /\ m \in kind => m \notin later /\ ~Carrying(box, later)
                             => Before(new, kind, later)
<1>1. /\ Len(box) \in Nat /\ DOMAIN box = 1..Len(box) /\ DOMAIN new = 1..(Len(box) + 1)
      /\ \A i \in 1..Len(box) : new[i] = box[i]
      /\ new[Len(box) + 1] = m
  OBVIOUS
<1>2. \A i : i \in DOMAIN new <=> i \in DOMAIN box \/ i = Len(box) + 1
  BY <1>1
<1>3. Mail(new) = Mail(box) \cup {m}
  BY <1>1, <1>2 DEF Mail
<1>4. \A kind : At(new, kind) = At(box, kind) \cup (IF m \in kind THEN {Len(box) + 1} ELSE {})
  BY <1>1, <1>2 DEF At
<1>5. \A kind : /\ At(box, kind) \subseteq 1..Len(box)
                /\ At(box, kind) # {} => Carrying(box, kind)
  BY <1>1 DEF At, Carrying, Mail
<1>6. ASSUME NEW kind, Once(box, kind), ~(Carrying(box, kind) /\ m \in kind)
      PROVE  Once(new, kind)
  BY <1>4, <1>5, <1>6 DEF Once
<1>7. ASSUME NEW kind, NEW later, Before(box, kind, later),
             m \in kind => m \notin later /\ ~Carrying(box, later)
      PROVE  Before(new, kind, later)
  <2>1. ASSUME NEW i \in At(new, kind), NEW j \in At(new, later)
        PROVE  i < j
    <3>1. CASE m \in kind
      BY <1>4, <1>5, <1>7, <2>1, <3>1
    <3>2. CASE m \notin kind
      <4>1. i \in At(box, kind) /\ i \in 1..Len(box)
        BY <1>4, <1>5, <3>2
      <4>2. CASE j \in At(box, later)
        BY <1>7, <4>1, <4>2 DEF Before
      <4>3. CASE j = Len(box) + 1
        BY <1>1, <4>1, <4>3
      <4> QED
        BY <1>4, <4>2, <4>3
    <3> QED
      BY <3>1, <3>2
  <2> QED
    BY <2>1 DEF Before
<1> QED
  BY <1>3, <1>6, <1>7

\* A message is taken from a mailbox.
LEMMA Lost ==
  ASSUME NEW S, NEW box \in Seq(S), box # <<>>, NEW new, new = Tail(box)
  PROVE  /\ Head(box) \in S /\ new \in Seq(S)
         /\ Mail(box) = Mail(new) \cup {Head(box)}
         /\ \A kind : Once(box, kind) => /\ Once(new, kind)
                                         /\ ~(Head(box) \in kind /\ Carrying(new, kind))
         /\ \A kind, later : Before(box, kind, later) =>
                               /\ Before(new, kind, later)
                               /\ ~(Head(box) \in later /\ Carrying(box, kind))
<1>1. /\ Len(box) \in Nat /\ Len(box) > 0 /\ DOMAIN box = 1..Len(box) /\ Head(box) = box[1]
      /\ DOMAIN new = 1..(Len(box) - 1) /\ Head(box) \in S /\ new \in Seq(S)
      /\ \A i \in 1..(Len(box) - 1) : new[i] = box[i + 1]
  OBVIOUS
<1>2. \A i : i \in DOMAIN new <=> i \in Nat /\ i # 0 /\ i + 1 \in DOMAIN box
  BY <1>1
<1>3. \A i \in DOMAIN box : i = 1 \/ (i - 1 \in DOMAIN new /\ box[i] = new[i - 1])
  <2> SUFFICES ASSUME NEW i \in DOMAIN box, i # 1
               PROVE  i - 1 \in DOMAIN new /\ box[i] = new[i - 1]
    OBVIOUS
  <2>1. i - 1 \in 1..(Len(box) - 1) /\ (i - 1) + 1 = i
    BY <1>1
  <2> QED
    BY <1>1, <2>1
<1>4. Mail(box) = Mail(new) \cup {Head(box)}
  <2>1. \A i \in DOMAIN new : new[i] = box[i + 1] /\ i + 1 \in DOMAIN box
    BY <1>1, <1>2
  <2>2. 1 \in DOMAIN box /\ box[1] = Head(box)
    BY <1>1
  <2>3. ASSUME NEW i \in DOMAIN box
        PROVE  box[i] \in Mail(new) \cup {Head(box)}
    BY <1>3, <2>2 DEF Mail
  <2>4. ASSUME NEW i \in DOMAIN new
        PROVE  new[i] \in Mail(box)
    BY <2>1 DEF Mail
  <2>5. Head(box) \in Mail(box)
    BY <2>2 DEF Mail
  <2>6. Mail(box) \subseteq Mail(new) \cup {Head(box)}
    BY <2>3 DEF Mail
  <2>7. Mail(new) \subseteq Mail(box)
    BY <2>4 DEF Mail
  <2> QED
    BY <2>5, <2>6, <2>7
<1>5. \A kind, i : i \in At(new, kind) => i \in Nat /\ i # 0 /\ i + 1 \in At(box, kind)
  BY <1>1, <1>2 DEF At
<1>6. \A kind : Head(box) \in kind => 1 \in At(box, kind)
  BY <1>1 DEF At
<1>7. \A kind : Carrying(new, kind) => \E i \in At(new, kind) : TRUE
  BY DEF Carrying, Mail, At
<1>8. ASSUME NEW kind, Once(box, kind)
      PROVE  Once(new, kind) /\ ~(Head(box) \in kind /\ Carrying(new, kind))
  <2>1. ASSUME NEW i \in At(new, kind), NEW j \in At(new, kind)
        PROVE  i = j
    <3>1. i \in Nat /\ j \in Nat /\ i + 1 = j + 1
      BY <1>5, <1>8, <2>1 DEF Once
    <3> QED
      BY <3>1
  <2>2. ASSUME Head(box) \in kind, NEW i \in At(new, kind)
        PROVE  FALSE
    <3>1. i \in Nat /\ i # 0 /\ i + 1 = 1
      BY <1>5, <1>6, <1>8, <2>2 DEF Once
    <3> QED
      BY <3>1
  <2> QED
    BY <1>7, <2>1, <2>2 DEF Once
<1>9. ASSUME NEW kind, NEW later, Before(box, kind, later)
      PROVE  Before(new, kind, later) /\ ~(Head(box) \in later /\ Carrying(box, kind))
  <2>1. ASSUME NEW i \in At(new, kind), NEW j \in At(new, later)
        PROVE  i < j
    <3>1. i \in Nat /\ j \in Nat /\ i + 1 < j + 1
      BY <1>5, <1>9, <2>1 DEF Before
    <3> QED
      BY <3>1
  <2>2. ASSUME Head(box) \in later, Carrying(box, kind)
        PROVE  FALSE
    <3>1. PICK i \in At(box, kind) : TRUE
      BY <2>2 DEF Carrying, Mail, At
    <3>2. i < 1 /\ i \in 1..Len(box)
      BY <1>1, <1>6, <1>9, <2>2, <3>1 DEF Before, At
    <3> QED
      BY <1>1, <3>2
  <2> QED
    BY <2>1, <2>2 DEF Before
<1> QED
  BY <1>1, <1>4, <1>8, <1>9

\* A stream moves on; a generation is stamped.
LEMMA StreamMoved ==
  ASSUME TypeOK, NEW g \in Gens, NEW s, stream' = [stream EXCEPT ![g].st = s]
  PROVE  /\ Len(stream') = Len(stream) /\ Gens' = Gens
         /\ \A k \in Gens : stream'[k].st = IF k = g THEN s ELSE stream[k].st
<1>1. stream \in [1..Len(stream) -> [of : Nat, st : StreamStates]] /\ Len(stream) \in Nat
  BY LenProperties DEF TypeOK
<1>2. /\ DOMAIN stream' = 1..Len(stream)
      /\ \A k \in 1..Len(stream) : stream'[k].st = IF k = g THEN s ELSE stream[k].st
  BY <1>1 DEF Gens
<1>3. Len(stream') = Len(stream)
  BY <1>1, <1>2
<1> QED
  BY <1>2, <1>3 DEF Gens

LEMMA StreamAdded ==
  ASSUME TypeOK, NEW o \in Nat, NEW s \in StreamStates, stream' = Append(stream, [of |-> o, st |-> s])
  PROVE  /\ Now = Len(stream) + 1 /\ Len(stream) \in Nat /\ Len(stream') = Len(stream) + 1
         /\ \A g : g \in Gens' <=> g \in Gens \/ g = Len(stream) + 1
         /\ \A g \in Gens : stream'[g].st = stream[g].st
         /\ stream'[Len(stream) + 1].st = s
<1>1. /\ Len(stream) \in Nat /\ Len(stream') = Len(stream) + 1
      /\ \A g \in 1..Len(stream) : stream'[g] = stream[g]
      /\ stream'[Len(stream) + 1].st = s
  BY AppendProperties DEF TypeOK
<1> QED
  BY <1>1 DEF Gens, Now

\* What a handler of the session actor finds out about the rest of its mailbox.
LEMMA SessionTakes ==
  ASSUME TypeOK, MailInOrder, NEW type, NextSessionMsg(type)
  PROVE  /\ Head(sessionBox) \in SessionMsg /\ Head(sessionBox).type = type /\ job = NoJob
         /\ SessionMail(sessionBox') /\ Mail(sessionBox) = Mail(sessionBox') \cup {Head(sessionBox)}
         /\ \A kind \in {RetryMsg, EndMsg, UseMsg, DoneMsg} :
              Head(sessionBox) \in kind => ~Carrying(sessionBox', kind)
         /\ Head(sessionBox) \in UseMsg => ~Carrying(sessionBox, TokenMsg)
         /\ Head(sessionBox) \in ResultMsg => ~Carrying(sessionBox, UseMsg)
         /\ Head(sessionBox) \in DoneMsg => /\ ~Carrying(sessionBox, UseMsg)
                                            /\ ~Carrying(sessionBox, ResultMsg)
<1>1. /\ sessionBox \in Seq(SessionMsg) /\ sessionBox # <<>> /\ sessionBox' = Tail(sessionBox)
      /\ Head(sessionBox).type = type /\ job = NoJob
  BY DEF TypeOK, NextSessionMsg
<1>2. /\ Head(sessionBox) \in SessionMsg
      /\ Mail(sessionBox) = Mail(sessionBox') \cup {Head(sessionBox)}
      /\ \A kind : Once(sessionBox, kind) => /\ Once(sessionBox', kind)
                            /\ ~(Head(sessionBox) \in kind /\ Carrying(sessionBox', kind))
      /\ \A kind, later : Before(sessionBox, kind, later) =>
                            /\ Before(sessionBox', kind, later)
                            /\ ~(Head(sessionBox) \in later /\ Carrying(sessionBox, kind))
  BY <1>1, Lost
<1>3. SessionMail(sessionBox)
  BY DEF MailInOrder
<1> QED
  BY <1>1, <1>2, <1>3 DEF SessionMail

\* A message the session's mailbox has room for.
LEMMA SessionGets ==
  ASSUME TypeOK, MailInOrder, NEW m \in SessionMsg, sessionBox' = Append(sessionBox, m),
         \A kind \in {RetryMsg, EndMsg, UseMsg, DoneMsg} : m \in kind => ~Carrying(sessionBox, kind),
         m \in UseMsg => ~Carrying(sessionBox, ResultMsg) /\ ~Carrying(sessionBox, DoneMsg),
         m \in ResultMsg => ~Carrying(sessionBox, DoneMsg),
         m \in TokenMsg => ~Carrying(sessionBox, UseMsg)
  PROVE  SessionMail(sessionBox') /\ Mail(sessionBox') = Mail(sessionBox) \cup {m}
<1>1. /\ Mail(sessionBox') = Mail(sessionBox) \cup {m}
      /\ \A kind : Once(sessionBox, kind) /\ ~(Carrying(sessionBox, kind) /\ m \in kind)
                     => Once(sessionBox', kind)
      /\ \A kind, later : /\ Before(sessionBox, kind, later)
                          /\ m \in kind => m \notin later /\ ~Carrying(sessionBox, later)
                          => Before(sessionBox', kind, later)
  BY Gained DEF TypeOK
<1>2. SessionMail(sessionBox)
  BY DEF MailInOrder
<1>3. /\ m \in TokenMsg => m \notin UseMsg
      /\ m \in UseMsg => m \notin ResultMsg /\ m \notin DoneMsg
      /\ m \in ResultMsg => m \notin DoneMsg
  BY Sorts
<1> QED
  BY <1>1, <1>2, <1>3 DEF SessionMail

LEMMA TokenSolo ==
  ASSUME TypeOK, TypeOK', NEW still, NEW asked, Solo(still, asked), HandleStreamToken
  PROVE  Solo(still, asked)'
<1> USE DEF sessionVars, llmVars, toolVars, userVars
<1>0. MailInOrder
  BY DEF Solo
<1>1. PICK h \in SessionMsg :
        /\ h.type = "StreamToken" /\ job = NoJob /\ SessionMail(sessionBox')
        /\ Mail(sessionBox) = Mail(sessionBox') \cup {h}
  BY <1>0, SessionTakes DEF HandleStreamToken
<1>2. h \notin RetryMsg \cup EndMsg \cup UseMsg \cup DoneMsg \cup SendMsg \cup ResultMsg
  BY <1>1, Sorts
<1>3. UNCHANGED <<bridge, llmBox, toolBox, job, hand, stream, batch, aborted, task, guard, pendingBatch,
                  running, answered>>
  BY DEF HandleStreamToken
<1>4. Activity(still, asked)' = Activity(still, asked)
  BY <1>1, <1>2, <1>3 DEF Activity, Carrying, Acting, Gens
<1>5. phase' = phase \/ (phase = "Sending" /\ phase' = "Streaming")
  BY DEF HandleStreamToken, OnFirstToken, Transition
<1>6. OneActivity(still, asked)'
  BY <1>4, <1>5 DEF OneActivity, Solo
<1>7. MailInOrder'
  BY <1>0, <1>1, <1>3 DEF MailInOrder
<1>8. LastGeneration(still)'
  BY <1>1, <1>3 DEF Solo, LastGeneration, Unopened, Gens
<1>9. ToolsAwaited(still, asked)'
  BY <1>1, <1>2, <1>3, <1>4, <1>5, Sorts DEF Solo, ToolsAwaited, Carrying
<1>10. ToolsAnswer'
  BY <1>1, <1>2, <1>3, Sorts DEF Solo, ToolsAnswer, Carrying, Reported, Note, ResultMsg, Notes
<1> QED
  BY <1>6, <1>7, <1>8, <1>9, <1>10 DEF Solo

\* A message that only starts a turn where there is none.
LEMMA PlainTaken ==
  ASSUME TypeOK, NEW still, NEW asked, Solo(still, asked),
         NEW type \in {"EnqueueUserMessage", "SubmitSteeringMessage", "EnqueueResumeTurn",
                       "SendToLlmProvider"},
         NextSessionMsg(type),
         UNCHANGED <<bridge, llmBox, toolBox, hand, stream, batch, aborted, task,
                     pendingBatch, running, answered>>,
         guard' = guard \/ (type = "SendToLlmProvider" /\ guard' = Head(sessionBox).gen),
         \/ phase' = phase /\ ~Dispatching(job')
         \/ phase = "Idle" /\ phase' = "Sending" /\ job' = Dispatch("drain", "User", FALSE, 0)
  PROVE  Solo(still, asked)'
<1>0. MailInOrder
  BY DEF Solo
<1>1. PICK h \in SessionMsg :
        /\ h = Head(sessionBox) /\ h.type = type /\ job = NoJob /\ SessionMail(sessionBox')
        /\ Mail(sessionBox) = Mail(sessionBox') \cup {h}
  BY <1>0, SessionTakes
<1>2. h \notin RetryMsg \cup EndMsg \cup UseMsg \cup DoneMsg \cup TokenMsg \cup ResultMsg
  BY <1>1, Sorts
<1>3. ~Dispatching(job)
  BY <1>1 DEF Dispatching, NoJob
<1>4. \/ Activity(still, asked)' = Activity(still, asked) /\ phase' = phase
      \/ /\ Activity(still, asked) = {} /\ Activity(still, asked)' \subseteq {"job"}
         /\ phase' = "Sending" /\ job' = Dispatch("drain", "User", FALSE, 0)
  <2>1. CASE phase' = phase /\ ~Dispatching(job')
    <3>1. Activity(still, asked)' = Activity(still, asked)
      BY <1>1, <1>2, <1>3, <2>1 DEF Activity, Carrying, Acting, Gens
    <3> QED
      BY <2>1, <3>1
  <2>2. CASE phase = "Idle" /\ phase' = "Sending" /\ job' = Dispatch("drain", "User", FALSE, 0)
    <3>1. Activity(still, asked) = {}
      BY <2>2 DEF Solo, OneActivity
    <3>2. Activity(still, asked)' \subseteq {"job"} \cup Activity(still, asked)
      BY <1>1, <1>2, <1>3 DEF Activity, Carrying, Acting, Gens
    <3> QED
      BY <2>2, <3>1, <3>2
  <2> QED
    BY <2>1, <2>2
<1>5. /\ job'.at # "send"
      /\ ~(Dispatching(job') /\ job'.origin = "ToolContinuation")
  BY DEF Dispatching, Dispatch
<1>6. OneActivity(still, asked)'
  BY <1>4 DEF OneActivity, Solo
<1>7. MailInOrder'
  BY <1>0, <1>1 DEF MailInOrder
<1>8. LastGeneration(still)'
  <2>1. guard' <= Len(stream)
    BY <1>1, Sorts DEF Solo, LastGeneration
  <2> QED
    BY <1>1, <1>5, <2>1 DEF Solo, LastGeneration, Unopened, Gens
<1>9. ToolsAwaited(still, asked)'
  <2>1. Carrying(sessionBox', UseMsg) <=> Carrying(sessionBox, UseMsg)
    BY <1>1, <1>2 DEF Carrying
  <2>2. Carrying(sessionBox', TokenMsg) <=> Carrying(sessionBox, TokenMsg)
    BY <1>1, <1>2 DEF Carrying
  <2>3. Carrying(sessionBox', ResultMsg) <=> Carrying(sessionBox, ResultMsg)
    BY <1>1, <1>2 DEF Carrying
  <2>4. Carrying(sessionBox', DoneMsg) <=> Carrying(sessionBox, DoneMsg)
    BY <1>1, <1>2 DEF Carrying
  <2> QED
    BY <1>4, <2>1, <2>2, <2>3, <2>4 DEF Solo, ToolsAwaited, UsingTools
<1>10. ToolsAnswer'
  BY <1>1, <1>2, <1>5, Sorts DEF Solo, ToolsAnswer, Carrying, Reported, Note, ResultMsg, Notes
<1> QED
  BY <1>6, <1>7, <1>8, <1>9, <1>10 DEF Solo

LEMMA UserSolo ==
  ASSUME TypeOK, NEW still, NEW asked, Solo(still, asked),
         \/ HandleEnqueueUserMessage \/ HandleSubmitSteeringMessage \/ HandleEnqueueResumeTurn
         \/ HandleSendToLlmProvider
  PROVE  Solo(still, asked)'
<1> USE DEF sessionVars, llmVars, toolVars, userVars
<1>1. CASE HandleEnqueueUserMessage
  <2>1. job = NoJob
    BY <1>1 DEF HandleEnqueueUserMessage, NextSessionMsg
  <2>2. \/ phase' = phase /\ ~Dispatching(job')
        \/ phase = "Idle" /\ phase' = "Sending" /\ job' = Dispatch("drain", "User", FALSE, 0)
    <3>1. CASE phase = "Idle" /\ phase' = BeginSending(phase)
               /\ job' = Dispatch("drain", "User", FALSE, 0)
      BY <3>1 DEF BeginSending, OnDispatchMessage, Transition
    <3>2. CASE UNCHANGED <<phase, job>>
      <4>1. ~Dispatching(job)
        BY <2>1 DEF Dispatching, NoJob
      <4> QED
        BY <3>2, <4>1
    <3> QED
      BY <1>1, <3>1, <3>2 DEF HandleEnqueueUserMessage
  <2> QED
    BY <1>1, <2>2, PlainTaken DEF HandleEnqueueUserMessage
<1>2. CASE HandleSubmitSteeringMessage
  <2>1. ~Dispatching(job')
    BY <1>2 DEF HandleSubmitSteeringMessage, NextSessionMsg, Dispatching, NoJob
  <2> QED
    BY <1>2, <2>1, PlainTaken DEF HandleSubmitSteeringMessage
<1>3. CASE HandleEnqueueResumeTurn
  <2>1. ~Dispatching(job')
    BY <1>3 DEF HandleEnqueueResumeTurn, Dispatching, NoJob
  <2> QED
    BY <1>3, <2>1, PlainTaken DEF HandleEnqueueResumeTurn
<1>4. CASE HandleSendToLlmProvider
  <2>1. ~Dispatching(job')
    BY <1>4 DEF HandleSendToLlmProvider, NextSessionMsg, Dispatching, NoJob
  <2> QED
    BY <1>4, <2>1, PlainTaken DEF HandleSendToLlmProvider
<1> QED
  BY <1>1, <1>2, <1>3, <1>4

\* A retry is a dispatch of its own, or nothing.
LEMMA RetrySolo ==
  ASSUME TypeOK, NEW still, NEW asked, Solo(still, asked), HandleRetryStalledSession
  PROVE  Solo(still, asked)'
<1> USE DEF sessionVars, llmVars, toolVars, userVars
<1>0. MailInOrder
  BY DEF Solo
<1>1. PICK h \in SessionMsg :
        /\ h.type = "RetryStalledSession" /\ job = NoJob /\ SessionMail(sessionBox')
        /\ Mail(sessionBox) = Mail(sessionBox') \cup {h}
        /\ h \in RetryMsg => ~Carrying(sessionBox', RetryMsg)
  BY <1>0, SessionTakes DEF HandleRetryStalledSession
<1>2. h \in RetryMsg /\ h \notin EndMsg \cup UseMsg \cup DoneMsg \cup TokenMsg \cup ResultMsg \cup SendMsg
  BY <1>1, Sorts
<1>3. /\ UNCHANGED <<bridge, llmBox, toolBox, hand, stream, batch, aborted, task, pendingBatch,
                     running, answered, guard, phase>>
      /\ job'.at # "send" /\ ~(Dispatching(job') /\ job'.origin = "ToolContinuation")
  BY DEF HandleRetryStalledSession, Dispatching, Dispatch, NoJob
<1>4. Activity(still, asked) = {"retry"}
  <2>1. "retry" \in Activity(still, asked)
    BY <1>1, <1>2 DEF Activity, Carrying
  <2> QED
    BY <2>1 DEF Solo, OneActivity
<1>5. Activity(still, asked)' \subseteq {"job"}
  <2>1. Activity(still, asked)' \subseteq {"job"} \cup Activity(still, asked)
    BY <1>1, <1>2, <1>3 DEF Activity, Carrying, Acting, Gens
  <2>2. "retry" \notin Activity(still, asked)'
    BY <1>1, <1>2 DEF Activity
  <2> QED
    BY <1>4, <2>1, <2>2
<1>6. OneActivity(still, asked)'
  BY <1>3, <1>4, <1>5 DEF OneActivity, Solo
<1>7. MailInOrder'
  BY <1>0, <1>1, <1>3 DEF MailInOrder
<1>8. LastGeneration(still)'
  BY <1>1, <1>3 DEF Solo, LastGeneration, Unopened, Gens
<1>9. ToolsAwaited(still, asked)'
  BY <1>1, <1>2, <1>3, <1>4, <1>5 DEF Solo, ToolsAwaited, Carrying, UsingTools
<1>10. ToolsAnswer'
  BY <1>1, <1>2, <1>3, Sorts DEF Solo, ToolsAnswer, Carrying, Reported, Note, ResultMsg, Notes
<1> QED
  BY <1>6, <1>7, <1>8, <1>9, <1>10 DEF Solo

\* What the user does and what the bridge publishes moves no turn by itself.
LEMMA FrontendSolo ==
  ASSUME TypeOK, TypeOK', NEW still, NEW asked, Solo(still, asked),
         (\E new \in SUBSET Msgs, mode \in Modes : Submit(new, mode)) \/ AskCancel \/ RequestResume
  PROVE  Solo(still, asked)'
<1> USE DEF sessionVars, llmVars, toolVars, userVars
<1>1. UNCHANGED <<llmBox, toolBox, sessionBox, hand, job, stream, batch, aborted, task,
                  pendingBatch, running, answered, guard, phase>>
  BY DEF Submit, AskCancel, RequestResume
<1>2. bridge' \cap CancelMsg = {}
  <2>1. bridge \cap CancelMsg = {}
    BY DEF Solo, MailInOrder
  <2>2. \A m : m.type # "CancelStream" => m \notin CancelMsg
    BY DEF CancelMsg
  <2>3. CASE AskCancel
    BY <2>1, <2>3 DEF AskCancel
  <2>4. CASE RequestResume
    BY <2>1, <2>2, <2>4 DEF RequestResume
  <2>5. ASSUME NEW new \in SUBSET Msgs, NEW mode \in Modes, Submit(new, mode)
        PROVE  bridge' \cap CancelMsg = {}
    BY <2>1, <2>2, <2>5 DEF Submit, Enqueue, Steer
  <2> QED
    BY <2>3, <2>4, <2>5
<1>3. Activity(still, asked)' = Activity(still, asked)
  BY <1>1 DEF Activity, Carrying, Mail, Acting, Gens
<1>4. OneActivity(still, asked)'
  BY <1>1, <1>3 DEF OneActivity, Solo
<1>5. MailInOrder'
  BY <1>1, <1>2 DEF Solo, MailInOrder
<1>6. LastGeneration(still)'
  BY <1>1 DEF Solo, LastGeneration, Unopened, Gens
<1>7. ToolsAwaited(still, asked)'
  BY <1>1, <1>3 DEF Solo, ToolsAwaited
<1>8. ToolsAnswer'
  BY <1>1 DEF Solo, ToolsAnswer, Reported
<1> QED
  BY <1>4, <1>5, <1>6, <1>7, <1>8 DEF Solo

LEMMA BridgeSolo ==
  ASSUME TypeOK, TypeOK', NEW still, NEW asked, Solo(still, asked), NEW m \in bridge, BridgePublish(m)
  PROVE  Solo(still, asked)'
<1> USE DEF sessionVars, llmVars, toolVars, userVars
<1>0. MailInOrder
  BY DEF Solo
<1>1. m \in EntryMsg \cup ResumeMsg
  BY <1>0 DEF MailInOrder, TypeOK, BridgeMsg
<1>2. m.type \in {"EnqueueUserMessage", "SubmitSteeringMessage", "EnqueueResumeTurn"} /\ m \in SessionMsg
  BY <1>1 DEF EntryMsg, ResumeMsg, SessionMsg
<1>3. m \notin RetryMsg \cup EndMsg \cup UseMsg \cup DoneMsg \cup TokenMsg \cup ResultMsg \cup SendMsg
  BY <1>2, Sorts
<1>4. /\ sessionBox' = Append(sessionBox, m) /\ bridge' \subseteq bridge
      /\ UNCHANGED <<llmBox, toolBox, hand, job, stream, batch, aborted, task,
                     pendingBatch, running, answered, guard, phase>>
  BY <1>2 DEF BridgePublish
<1>5. SessionMail(sessionBox') /\ Mail(sessionBox') = Mail(sessionBox) \cup {m}
  BY <1>0, <1>2, <1>3, <1>4, SessionGets
<1>6. Activity(still, asked)' = Activity(still, asked)
  BY <1>3, <1>4, <1>5 DEF Activity, Carrying, Acting, Gens
<1>7. OneActivity(still, asked)'
  BY <1>4, <1>6 DEF OneActivity, Solo
<1>8. MailInOrder'
  BY <1>0, <1>4, <1>5 DEF MailInOrder
<1>9. LastGeneration(still)'
  BY <1>3, <1>4, <1>5 DEF Solo, LastGeneration, Unopened, Gens
<1>10. ToolsAwaited(still, asked)'
  BY <1>3, <1>4, <1>5, <1>6 DEF Solo, ToolsAwaited, Carrying
<1>11. ToolsAnswer'
  BY <1>3, <1>4, <1>5 DEF Solo, ToolsAnswer, Reported
<1> QED
  BY <1>7, <1>8, <1>9, <1>10, <1>11 DEF Solo

\* A dispatch on its way: an idle session is resumed, a dispatch drains the steering.
LEMMA DispatchSolo ==
  ASSUME TypeOK, TypeOK', NEW still, NEW asked, Solo(still, asked),
         (ResumeTurn /\ phase = "Idle") \/ DrainSteering
  PROVE  Solo(still, asked)'
<1> USE DEF sessionVars, llmVars, toolVars, userVars
<1>1. UNCHANGED <<llmBox, toolBox, sessionBox, bridge, hand, stream, batch, aborted, task,
                  pendingBatch, running, answered, guard>>
  BY DEF ResumeTurn, DrainSteering
<1>2. Activity(still, asked)' \subseteq Activity(still, asked) \cup {"job"}
  BY <1>1 DEF Activity, Carrying, Mail, Acting, Gens
<1>3. CASE ResumeTurn /\ phase = "Idle"
  <2>1. Activity(still, asked) = {}
    BY <1>3 DEF Solo, OneActivity
  <2>2. phase' = "Sending" /\ job' = Dispatch("drain", "User", TRUE, 0)
    BY <1>3 DEF ResumeTurn, BeginSending, OnDispatchMessage, Transition
  <2>3. job'.at # "send" /\ job'.origin = "User"
    BY <2>2 DEF Dispatch
  <2>4. OneActivity(still, asked)'
    BY <1>2, <2>1, <2>2 DEF OneActivity
  <2>5. MailInOrder'
    BY <1>1 DEF Solo, MailInOrder
  <2>6. LastGeneration(still)'
    BY <1>1, <2>3 DEF Solo, LastGeneration, Unopened, Gens
  <2>7. ToolsAwaited(still, asked)'
    BY <1>1, <1>2, <2>1, <2>2 DEF Solo, ToolsAwaited, UsingTools
  <2>8. ToolsAnswer'
    BY <1>1, <2>3 DEF Solo, ToolsAnswer, Reported
  <2> QED
    BY <2>4, <2>5, <2>6, <2>7, <2>8 DEF Solo
<1>4. CASE DrainSteering
  <2>1. /\ Dispatching(job) /\ Dispatching(job') /\ job'.at = "begin" /\ job'.batch = job.batch
        /\ job'.origin = job.origin /\ phase' = phase
    <3>1. job \in Jobs /\ job.at = "drain" /\ job' = [job EXCEPT !.at = "begin"] /\ phase' = phase
      BY <1>4 DEF DrainSteering, TypeOK
    <3> QED
      BY <3>1 DEF Dispatching, Jobs, NoJob
  <2>2. "job" \in Activity(still, asked)
    BY <2>1 DEF Activity
  <2>3. Activity(still, asked) = {"job"}
    BY <2>2 DEF Solo, OneActivity
  <2>4. OneActivity(still, asked)'
    BY <1>2, <2>1, <2>3 DEF Solo, OneActivity
  <2>5. MailInOrder'
    BY <1>1 DEF Solo, MailInOrder
  <2>6. LastGeneration(still)'
    BY <1>1, <2>1 DEF Solo, LastGeneration, Unopened, Gens
  <2>7. ToolsAwaited(still, asked)'
    BY <1>1, <1>2, <2>1, <2>3 DEF Solo, ToolsAwaited, UsingTools
  <2>8. ToolsAnswer'
    BY <1>1, <2>1 DEF Solo, ToolsAnswer, Reported
  <2> QED
    BY <2>4, <2>5, <2>6, <2>7, <2>8 DEF Solo
<1> QED
  BY <1>3, <1>4

\* A generation is stamped: none of the earlier ones is still at work.
LEMMA StampSolo ==
  ASSUME TypeOK, TypeOK', NEW still, NEW asked, Solo(still, asked),
         Activity(still, asked) \in {{"job"}, {"hand"}}, NEW o \in Nat, stream' = Stamped(o),
         NEW n \in Nat, n = Now,
         UNCHANGED <<aborted, task, guard>>
  PROVE  /\ \A g \in Gens' \ still : stream'[g].st \notin {"open", "tokens", "handoff"}
         /\ n = Len(stream') /\ Unopened(n)'
         /\ Len(stream) <= Len(stream')
         /\ guard' <= Len(stream') /\ (aborted \cup {task})' \subseteq 0..Len(stream')
<1>1. "stamped" \in StreamStates
  BY DEF StreamStates
<1>2. /\ Now = Len(stream) + 1 /\ Len(stream) \in Nat /\ Len(stream') = Len(stream) + 1
      /\ \A g : g \in Gens' <=> g \in Gens \/ g = Len(stream) + 1
      /\ \A g \in Gens : stream'[g].st = stream[g].st
      /\ stream'[Len(stream) + 1].st = "stamped"
  BY <1>1, StreamAdded DEF Stamped
<1>3. "stream" \notin Activity(still, asked) /\ "handoff" \notin Activity(still, asked)
  OBVIOUS
<1>4. \A g \in Gens \ still : stream[g].st \notin {"open", "tokens", "handoff"}
  BY <1>3 DEF Activity, Acting
<1>5. guard <= Len(stream) /\ aborted \cup {task} \subseteq 0..Len(stream)
  BY DEF Solo, LastGeneration
<1>6. \A g \in Gens' \ still : stream'[g].st \notin {"open", "tokens", "handoff"}
  BY <1>2, <1>4
<1>7. Unopened(n)'
  <2>1. n \notin aborted' \cup {task'}
    BY <1>2, <1>5
  <2> QED
    BY <1>2, <2>1 DEF Unopened
<1>8. guard' <= Len(stream')
  BY <1>2, <1>5 DEF TypeOK
<1> QED
  BY <1>2, <1>5, <1>6, <1>7, <1>8

\* Where the dispatch stands, nothing else of the turn is.
LEMMA JobAlone ==
  ASSUME NEW still, NEW asked, Solo(still, asked), Dispatching(job)
  PROVE  Activity(still, asked) = {"job"} /\ phase # "Idle"
<1>1. "job" \in Activity(still, asked)
  BY DEF Activity
<1> QED
  BY <1>1 DEF Solo, OneActivity

LEMMA HandAlone ==
  ASSUME NEW still, NEW asked, Solo(still, asked), hand.at = "send"
  PROVE  Activity(still, asked) = {"hand"} /\ phase # "Idle"
<1>1. "hand" \in Activity(still, asked)
  BY DEF Activity
<1> QED
  BY <1>1 DEF Solo, OneActivity

\* What Activity says of each mailbox and of the streams.
LEMMA Absent ==
  ASSUME NEW still, NEW asked
  PROVE  /\ "retry" \notin Activity(still, asked) <=> ~Carrying(sessionBox, RetryMsg)
         /\ "ended" \notin Activity(still, asked) <=> ~Carrying(sessionBox, EndMsg)
         /\ "done" \notin Activity(still, asked) <=> ~Carrying(sessionBox, DoneMsg)
         /\ "cancel" \notin Activity(still, asked) <=> ~Carrying(llmBox, CancelMsg)
         /\ "send" \notin Activity(still, asked) <=> ~Carrying(llmBox, SendMsg)
         /\ "execute" \notin Activity(still, asked) <=> ~Carrying(toolBox, ExecMsg)
         /\ "batch" \notin Activity(still, asked) <=> batch = 0
         /\ "job" \notin Activity(still, asked) <=> ~Dispatching(job)
         /\ {"stream", "handoff"} \cap Activity(still, asked) = {}
              <=> \A g \in Gens \ still : stream[g].st \notin {"open", "tokens", "handoff"}
BY DEF Activity, Acting

LEMMA BeginSolo ==
  ASSUME TypeOK, TypeOK', NEW still, NEW asked, Solo(still, asked), BeginDispatch
  PROVE  Solo(still, asked)'
<1> USE DEF sessionVars, llmVars, toolVars, userVars
<1>1. UNCHANGED <<llmBox, toolBox, sessionBox, bridge, hand, batch, aborted, task,
                  pendingBatch, running, answered, guard>>
  BY DEF BeginDispatch
<1>2. job \in Jobs /\ job.at = "begin"
  BY DEF BeginDispatch, TypeOK
<1>3. Dispatching(job) /\ job.early \in BOOLEAN /\ job.batch \in Nat /\ job.origin \in Origins
  BY <1>2, JobClosed DEF Dispatching
<1>4. Activity(still, asked) = {"job"} /\ phase # "Idle"
  BY <1>3, JobAlone
<1>5. phase' # "Idle"
  BY <1>4 DEF BeginDispatch, BeginStreaming, OnFirstToken, OnDispatchMessage, Transition
<1>6. /\ job'.at = "send" /\ job'.batch = job.batch /\ job'.origin = job.origin
      /\ job'.early = job.early
      /\ job.early => job'.gen = Now /\ stream' = Stamped(job.batch)
      /\ ~job.early => stream' = stream
  <2>1. job \in [at : {"drain", "begin", "send"}, origin : Origins, early : BOOLEAN,
                 batch : Nat, gen : Nat]
    BY <1>2 DEF Jobs, NoJob
  <2> QED
    BY <2>1 DEF BeginDispatch
<1>7. /\ \A g \in Gens' \ still : stream'[g].st \notin {"open", "tokens", "handoff"}
      /\ Len(stream) \in Nat /\ Len(stream') \in Nat /\ Len(stream) <= Len(stream')
      /\ guard' <= Len(stream') /\ (aborted \cup {task})' \subseteq 0..Len(stream')
      /\ job.early => Unopened(job.gen)'
  <2>1. Len(stream) \in Nat /\ Len(stream') \in Nat
    BY LenProperties DEF TypeOK
  <2>2. CASE job.early
    <3>1. PICK n \in Nat : n = Now /\ job'.gen = n
      BY <1>6, <2>1, <2>2 DEF Now
    <3>2. /\ \A g \in Gens' \ still : stream'[g].st \notin {"open", "tokens", "handoff"}
          /\ n = Len(stream') /\ Unopened(n)'
          /\ Len(stream) <= Len(stream')
          /\ guard' <= Len(stream') /\ (aborted \cup {task})' \subseteq 0..Len(stream')
      BY <1>1, <1>3, <1>4, <1>6, <2>2, <3>1, StampSolo
    <3>3. Unopened(job.gen)'
      BY <3>1, <3>2 DEF Unopened
    <3> QED
      BY <2>1, <3>2, <3>3
  <2>3. CASE ~job.early
    BY <1>1, <1>4, <1>6, <2>1, <2>3, Absent DEF Gens, Solo, LastGeneration
  <2> QED
    BY <1>3, <2>2, <2>3
<1>8. Activity(still, asked)' \subseteq {"job"}
  <2>1. ~Acting(still, {"open", "tokens"})' /\ ~Acting(still, {"handoff"})'
    BY <1>7 DEF Acting
  <2>2. Activity(still, asked)' \subseteq {"job"} \cup Activity(still, asked)
    BY <1>1, <2>1 DEF Activity, Carrying, Mail
  <2> QED
    BY <1>4, <2>2
<1>9. OneActivity(still, asked)'
  BY <1>5, <1>8 DEF OneActivity
<1>10. MailInOrder'
  BY <1>1 DEF Solo, MailInOrder
<1>11. LastGeneration(still)'
  <2>1. Mail(llmBox) \cap SendMsg = {} /\ Mail(sessionBox) \cap UseMsg = {}
    BY <1>4, Absent DEF Solo, ToolsAwaited, UsingTools, Carrying
  <2>2. \A m \in Mail(sessionBox) \cap SendMsg : m.gen \in Nat /\ m.gen <= Len(stream)
    BY DEF Solo, LastGeneration, SendMsg
  <2>3. Mail(sessionBox') = Mail(sessionBox) /\ Mail(llmBox') = Mail(llmBox)
    BY <1>1 DEF Mail
  <2>4. \A m \in Mail(sessionBox') \cap SendMsg : m.gen <= Len(stream')
    BY <1>7, <2>2, <2>3
  <2> QED
    BY <1>6, <1>7, <2>1, <2>3, <2>4 DEF LastGeneration
<1>12. ToolsAwaited(still, asked)'
  BY <1>1, <1>4, <1>8 DEF Solo, ToolsAwaited, UsingTools
<1>13. ToolsAnswer'
  BY <1>1, <1>3, <1>6 DEF Solo, ToolsAnswer, Reported
<1> QED
  BY <1>9, <1>10, <1>11, <1>12, <1>13 DEF Solo

\* What a handler of the LLM actor finds out about the rest of its mailbox, and what
\* the mailbox has room for.
LEMMA LlmTakes ==
  ASSUME TypeOK, MailInOrder, NEW type, NextLlmMsg(type), NEW rest, rest = Tail(llmBox)
  PROVE  /\ Head(llmBox) \in LlmMsg /\ Head(llmBox).type = type /\ rest \in Seq(LlmMsg)
         /\ LlmMail(rest) /\ Mail(llmBox) = Mail(rest) \cup {Head(llmBox)}
         /\ \A kind \in {CancelMsg, SendMsg} : Head(llmBox) \in kind => ~Carrying(rest, kind)
<1>1. llmBox \in Seq(LlmMsg) /\ llmBox # <<>> /\ Head(llmBox).type = type
  BY DEF TypeOK, NextLlmMsg
<1>2. /\ Head(llmBox) \in LlmMsg /\ rest \in Seq(LlmMsg)
      /\ Mail(llmBox) = Mail(rest) \cup {Head(llmBox)}
      /\ \A kind : Once(llmBox, kind) => /\ Once(rest, kind)
                                         /\ ~(Head(llmBox) \in kind /\ Carrying(rest, kind))
  BY <1>1, Lost
<1> QED
  BY <1>1, <1>2 DEF MailInOrder, LlmMail

LEMMA LlmGets ==
  ASSUME NEW box \in Seq(LlmMsg), LlmMail(box), NEW m \in LlmMsg, NEW new, new = Append(box, m),
         \A kind \in {CancelMsg, SendMsg} : m \in kind => ~Carrying(box, kind)
  PROVE  LlmMail(new) /\ Mail(new) = Mail(box) \cup {m}
<1>1. /\ Mail(new) = Mail(box) \cup {m}
      /\ \A kind : Once(box, kind) /\ ~(Carrying(box, kind) /\ m \in kind) => Once(new, kind)
  BY Gained
<1> QED
  BY <1>1 DEF LlmMail

\* The request of a dispatch goes out, with a generation no task has run for.
LEMMA SendSolo ==
  ASSUME TypeOK, TypeOK', NEW still, NEW asked, Solo(still, asked),
         Activity(still, asked) \in {{"job"}, {"hand"}}, phase # "Idle",
         NEW n \in Nat, NEW o \in Origins, PublishSend(n, o),
         NEW b \in Nat,
         \/ UNCHANGED stream /\ Unopened(n)
         \/ n = Now /\ stream' = Stamped(b),
         ~Dispatching(job'), hand'.at # "send",
         UNCHANGED <<phase, bridge, toolBox, batch, running, aborted, task, guard, pendingBatch,
                     answered>>
  PROVE  Solo(still, asked)'
<1>0. MailInOrder
  BY DEF Solo
<1>1. PICK m : m = Send(n, o)
  OBVIOUS
<1>2. /\ m \in SessionMsg /\ m \in LlmMsg /\ m \in SendMsg /\ m.gen = n
      /\ m \notin RetryMsg \cup EndMsg \cup UseMsg \cup DoneMsg \cup TokenMsg \cup ResultMsg \cup CancelMsg
  <2>1. m \in SendMsg /\ m.gen = n /\ m.type = "SendToLlmProvider"
    BY <1>1 DEF Send, SendMsg
  <2>2. m \in SessionMsg /\ m \in LlmMsg
    BY <2>1 DEF SessionMsg, LlmMsg
  <2> QED
    BY <2>1, <2>2, Sorts
<1>3. sessionBox' = Append(sessionBox, m) /\ llmBox' = Append(llmBox, m)
  BY <1>1 DEF PublishSend
<1>4. SessionMail(sessionBox') /\ Mail(sessionBox') = Mail(sessionBox) \cup {m}
  BY <1>0, <1>2, <1>3, SessionGets
<1>5. Mail(llmBox) \cap SendMsg = {} /\ Mail(llmBox) \cap CancelMsg = {}
      /\ Mail(sessionBox) \cap UseMsg = {}
  BY Absent DEF Solo, ToolsAwaited, UsingTools, Carrying
<1>6. LlmMail(llmBox') /\ Mail(llmBox') = Mail(llmBox) \cup {m}
  BY <1>0, <1>2, <1>3, <1>5, LlmGets DEF MailInOrder, TypeOK, Carrying
<1>7. /\ \A g \in Gens' \ still : stream'[g].st \notin {"open", "tokens", "handoff"}
      /\ Len(stream) \in Nat /\ Len(stream') \in Nat /\ Len(stream) <= Len(stream')
      /\ guard' <= Len(stream') /\ (aborted \cup {task})' \subseteq 0..Len(stream')
      /\ Unopened(n)'
  <2>1. Len(stream) \in Nat /\ Len(stream') \in Nat
    BY LenProperties DEF TypeOK
  <2>2. CASE n = Now /\ stream' = Stamped(b)
    BY <2>1, <2>2, StampSolo
  <2>3. CASE UNCHANGED stream /\ Unopened(n)
    <3>1. \A g \in Gens \ still : stream[g].st \notin {"open", "tokens", "handoff"}
      BY Absent
    <3>2. guard <= Len(stream) /\ (aborted \cup {task}) \subseteq 0..Len(stream)
      BY DEF Solo, LastGeneration
    <3> QED
      BY <2>1, <2>3, <3>1, <3>2 DEF Gens, Unopened
  <2> QED
    BY <2>2, <2>3
<1>8. Activity(still, asked)' = {"send"}
  <2>1. ~Acting(still, {"open", "tokens"})' /\ ~Acting(still, {"handoff"})'
    BY <1>7 DEF Acting
  <2>2. Activity(still, asked)' \subseteq {"send"} \cup Activity(still, asked)
    BY <1>2, <1>4, <1>6, <2>1 DEF Activity, Carrying
  <2>3. "job" \notin Activity(still, asked)' /\ "hand" \notin Activity(still, asked)'
    BY DEF Activity
  <2>4. "send" \in Activity(still, asked)'
    BY <1>2, <1>6 DEF Activity, Carrying
  <2> QED
    BY <2>2, <2>3, <2>4
<1>9. OneActivity(still, asked)'
  BY <1>8 DEF OneActivity
<1>10. MailInOrder'
  BY <1>0, <1>4, <1>6 DEF MailInOrder
<1>11. LastGeneration(still)'
  <2>1. \A x \in Mail(llmBox') \cap SendMsg : Unopened(x.gen)'
    BY <1>2, <1>5, <1>6, <1>7 DEF Unopened
  <2>2. \A x \in Mail(sessionBox) \cap SendMsg : x.gen \in Nat /\ x.gen <= Len(stream)
    BY DEF Solo, LastGeneration, SendMsg
  <2>3. n <= Len(stream')
    BY <1>7 DEF Unopened
  <2>4. \A x \in Mail(sessionBox') \cap SendMsg : x.gen <= Len(stream')
    BY <1>2, <1>4, <1>7, <2>2, <2>3
  <2>5. Mail(sessionBox') \cap UseMsg = {}
    BY <1>2, <1>4, <1>5
  <2>6. job'.at # "send"
    BY DEF Dispatching
  <2> QED
    BY <1>7, <2>1, <2>4, <2>5, <2>6 DEF LastGeneration
<1>12. ToolsAwaited(still, asked)'
  <2>1. Activity(still, asked) \cap UsingTools = {} /\ Activity(still, asked)' \cap UsingTools = {}
    BY <1>8 DEF UsingTools
  <2> QED
    BY <1>2, <1>4, <2>1 DEF Solo, ToolsAwaited, Carrying
<1>13. ToolsAnswer'
  BY <1>2, <1>4 DEF Solo, ToolsAnswer, Reported
<1> QED
  BY <1>9, <1>10, <1>11, <1>12, <1>13 DEF Solo

LEMMA SendsSolo ==
  ASSUME TypeOK, TypeOK', NEW still, NEW asked, Solo(still, asked), SendDispatch \/ SendPopped
  PROVE  Solo(still, asked)'
<1> USE DEF sessionVars, llmVars, toolVars, userVars
<1>1. Now \in Nat
  BY LenProperties DEF TypeOK, Now
<1>2. "User" \in Origins
  BY DEF Origins
<1>3. CASE SendDispatch
  <2>1. job \in Jobs /\ job.at = "send" /\ job' = NoJob
    BY <1>3 DEF SendDispatch, TypeOK
  <2>2. Dispatching(job) /\ job.gen \in Nat /\ job.batch \in Nat /\ job.origin \in Origins
    BY <2>1, JobClosed DEF Dispatching
  <2>3. Activity(still, asked) = {"job"} /\ phase # "Idle"
    BY <2>2, JobAlone
  <2>4. hand.at # "send"
    BY <2>3, HandAlone
  <2>5. ~Dispatching(job')
    BY <2>1 DEF Dispatching, NoJob
  <2>6. UNCHANGED <<phase, bridge, toolBox, hand, batch, running, aborted, task, guard, pendingBatch,
                    answered>>
    BY <1>3 DEF SendDispatch
  <2>7. CASE job.early
    <3>1. Unopened(job.gen)
      BY <2>1, <2>7 DEF Solo, LastGeneration
    <3>2. PublishSend(job.gen, job.origin) /\ UNCHANGED stream
      BY <1>3, <2>7 DEF SendDispatch
    <3>3. PICK n \in Nat, o \in Origins : n = job.gen /\ o = job.origin
      BY <2>2
    <3> QED
      BY <2>2, <2>3, <2>4, <2>5, <2>6, <3>1, <3>2, <3>3, SendSolo
  <2>8. CASE ~job.early
    <3>1. PublishSend(Now, job.origin) /\ stream' = Stamped(job.batch)
      BY <1>3, <2>8 DEF SendDispatch
    <3>2. PICK n \in Nat, o \in Origins, b \in Nat : n = Now /\ o = job.origin /\ b = job.batch
      BY <1>1, <2>2
    <3> QED
      BY <2>2, <2>3, <2>4, <2>5, <2>6, <3>1, <3>2, SendSolo
  <2> QED
    BY <2>7, <2>8
<1>4. CASE SendPopped
  <2>1. hand.at = "send" /\ hand' = NoHand /\ PublishSend(Now, "User") /\ stream' = Stamped(0)
    BY <1>4 DEF SendPopped
  <2>2. Activity(still, asked) = {"hand"} /\ phase # "Idle"
    BY <2>1, HandAlone
  <2>3. ~Dispatching(job)
    BY <2>2, JobAlone
  <2>4. hand'.at # "send"
    BY <2>1 DEF NoHand
  <2>5. UNCHANGED <<phase, bridge, toolBox, job, batch, running, aborted, task, guard, pendingBatch,
                    answered>>
    BY <1>4 DEF SendPopped
  <2>6. PICK n \in Nat : n = Now
    BY <1>1
  <2> QED
    BY <1>2, <2>1, <2>2, <2>3, <2>4, <2>5, <2>6, SendSolo
<1> QED
  BY <1>3, <1>4

\* The queue actor takes an entry, and dispatches it to a session at rest.
LEMMA QueueSolo ==
  ASSUME TypeOK, TypeOK', NEW still, NEW asked, Solo(still, asked),
         PopOnIdle \/ (PushPopped /\ phase = "Idle")
  PROVE  Solo(still, asked)'
<1> USE DEF sessionVars, llmVars, toolVars, userVars
<1>1. UNCHANGED <<llmBox, toolBox, sessionBox, bridge, job, stream, batch, aborted, task,
                  pendingBatch, running, answered, guard>>
  BY DEF PopOnIdle, PushPopped
<1>2. \/ Activity(still, asked)' = Activity(still, asked) /\ phase' = phase
      \/ /\ Activity(still, asked) = {} /\ Activity(still, asked)' \subseteq {"hand"}
         /\ phase' = "Sending"
  <2>1. CASE PopOnIdle
    <3>1. hand.at # "send" /\ hand'.at # "send" /\ phase' = phase
      BY <2>1 DEF PopOnIdle, NoHand
    <3>2. Activity(still, asked)' = Activity(still, asked)
      BY <1>1, <3>1 DEF Activity, Carrying, Mail, Acting, Gens
    <3> QED
      BY <3>1, <3>2
  <2>2. CASE PushPopped /\ phase = "Idle"
    <3>1. Activity(still, asked) = {}
      BY <2>2 DEF Solo, OneActivity
    <3>2. Activity(still, asked)' \subseteq {"hand"} \cup Activity(still, asked)
      BY <1>1 DEF Activity, Carrying, Mail, Acting, Gens
    <3>3. phase' = "Sending"
      BY <2>2 DEF PushPopped, BeginSending, OnDispatchMessage, Transition
    <3> QED
      BY <3>1, <3>2, <3>3
  <2> QED
    BY <2>1, <2>2
<1>3. OneActivity(still, asked)'
  BY <1>2 DEF OneActivity, Solo
<1>4. MailInOrder'
  BY <1>1 DEF Solo, MailInOrder
<1>5. LastGeneration(still)'
  BY <1>1 DEF Solo, LastGeneration, Unopened, Gens
<1>6. ToolsAwaited(still, asked)'
  BY <1>1, <1>2 DEF Solo, ToolsAwaited, UsingTools
<1>7. ToolsAnswer'
  BY <1>1 DEF Solo, ToolsAnswer, Reported
<1> QED
  BY <1>3, <1>4, <1>5, <1>6, <1>7 DEF Solo

\* The completion that asks for tools reaches the session while they are used: it is not
\* stale, and leaves it waiting for them.
LEMMA ToolUseSolo ==
  ASSUME TypeOK, TypeOK', NEW still, NEW asked, Solo(still, asked), HandleStreamCompleted,
         Head(sessionBox) \in UseMsg
  PROVE  Solo(still, asked)'
<1> USE DEF sessionVars, llmVars, toolVars, userVars
<1>0. MailInOrder
  BY DEF Solo
<1>1. PICK h \in SessionMsg :
        /\ h = Head(sessionBox) /\ h \in UseMsg /\ job = NoJob
        /\ SessionMail(sessionBox')
        /\ Mail(sessionBox) = Mail(sessionBox') \cup {h}
        /\ ~Carrying(sessionBox', UseMsg) /\ ~Carrying(sessionBox, TokenMsg)
  BY <1>0, SessionTakes DEF HandleStreamCompleted
<1>2. /\ h \notin RetryMsg \cup EndMsg \cup DoneMsg \cup SendMsg \cup TokenMsg \cup ResultMsg
      /\ h.reason = "ToolUse"
  BY <1>1, Sorts
<1>3. Carrying(sessionBox, UseMsg) /\ h.gen = Len(stream)
  BY <1>1 DEF Carrying, Solo, LastGeneration
<1>4. Activity(still, asked) \cap UsingTools # {} /\ phase # "Idle"
  BY <1>3 DEF Solo, ToolsAwaited, OneActivity
<1>5. ~Stale(h.gen)
  <2>1. guard <= h.gen /\ guard \in Nat /\ h.gen \in Nat
    BY <1>3, LenProperties DEF Solo, LastGeneration, TypeOK
  <2> QED
    BY <2>1 DEF Stale
<1>6. pendingBatch = 0
  BY DEF Solo, ToolsAwaited
<1>7. phase \in {"Sending", "Streaming"}
  BY <1>4 DEF TypeOK, Phases
<1>8. guard' = 0 /\ phase' = "Sending" /\ pendingBatch' = pendingBatch /\ job' = job
  BY <1>1, <1>2, <1>5, <1>6, <1>7
  DEF HandleStreamCompleted, BeginSending, OnStreamCompletedFinished, OnDispatchMessage, Transition
<1>9. UNCHANGED <<bridge, llmBox, toolBox, hand, stream, batch, aborted, task, running, answered>>
  BY DEF HandleStreamCompleted
<1>10. Activity(still, asked)' = Activity(still, asked)
  BY <1>1, <1>2, <1>8, <1>9 DEF Activity, Carrying, Acting, Gens
<1>11. OneActivity(still, asked)'
  BY <1>8, <1>10 DEF OneActivity, Solo
<1>12. MailInOrder'
  BY <1>0, <1>1, <1>9 DEF MailInOrder
<1>13. LastGeneration(still)'
  <2>1. guard' <= Len(stream)
    BY <1>8, LenProperties DEF TypeOK
  <2> QED
    BY <1>1, <1>8, <1>9, <2>1 DEF Solo, LastGeneration, Unopened, Gens
<1>14. ToolsAwaited(still, asked)'
  BY <1>1, <1>2, <1>4, <1>8, <1>9, <1>10 DEF Solo, ToolsAwaited, Carrying
<1>15. ToolsAnswer'
  <2>1. \A b : Reported(b) => Reported(b)'
    <3>1. \A b : h # Note("ToolExecutionCompleted", b)
      BY <1>1, <1>2 DEF Note, UseMsg
    <3> QED
      BY <1>1, <1>9, <3>1 DEF Reported
  <2>2. Mail(sessionBox') \cap DoneMsg \subseteq Mail(sessionBox) \cap DoneMsg
    BY <1>1
  <2> QED
    BY <1>8, <1>9, <2>1, <2>2 DEF Solo, ToolsAnswer
<1> QED
  BY <1>11, <1>12, <1>13, <1>14, <1>15 DEF Solo

\* Any other completion ends what there is.
LEMMA EndSolo ==
  ASSUME TypeOK, TypeOK', NEW still, NEW asked, Solo(still, asked), HandleStreamCompleted,
         Head(sessionBox) \notin UseMsg
  PROVE  Solo(still, asked)' /\ Activity(still, asked) = {"ended"} /\ Activity(still, asked)' = {}
<1> USE DEF sessionVars, llmVars, toolVars, userVars
<1>0. MailInOrder
  BY DEF Solo
<1>1. PICK h \in SessionMsg :
        /\ h = Head(sessionBox) /\ h.type = "StreamCompleted" /\ job = NoJob
        /\ SessionMail(sessionBox')
        /\ Mail(sessionBox) = Mail(sessionBox') \cup {h}
        /\ h \in EndMsg => ~Carrying(sessionBox', EndMsg)
  BY <1>0, SessionTakes DEF HandleStreamCompleted
<1>2. /\ h \notin RetryMsg \cup UseMsg \cup DoneMsg \cup SendMsg \cup TokenMsg \cup ResultMsg
      /\ h \in EndMsg /\ h.reason # "ToolUse"
  BY <1>1, Sorts
<1>3. Activity(still, asked) = {"ended"}
  <2>1. "ended" \in Activity(still, asked)
    BY <1>1, <1>2 DEF Activity, Carrying
  <2> QED
    BY <2>1 DEF Solo, OneActivity
<1>4. UNCHANGED <<bridge, llmBox, toolBox, hand, stream, batch, aborted, task, running, answered,
                  pendingBatch, job>> /\ guard' \in {guard, 0}
  BY <1>1, <1>2 DEF HandleStreamCompleted
<1>5. Activity(still, asked)' = {}
  <2>1. Activity(still, asked)' \subseteq Activity(still, asked)
    BY <1>1, <1>4 DEF Activity, Carrying, Acting, Gens
  <2>2. "ended" \notin Activity(still, asked)'
    BY <1>1, <1>2 DEF Activity
  <2> QED
    BY <1>3, <2>1, <2>2
<1>6. OneActivity(still, asked)'
  BY <1>5 DEF OneActivity
<1>7. MailInOrder'
  BY <1>0, <1>1, <1>4 DEF MailInOrder
<1>8. LastGeneration(still)'
  <2>1. guard' <= Len(stream)
    BY <1>4, LenProperties DEF TypeOK, Solo, LastGeneration
  <2> QED
    BY <1>1, <1>4, <2>1 DEF Solo, LastGeneration, Unopened, Gens
<1>9. ToolsAwaited(still, asked)'
  BY <1>1, <1>2, <1>3, <1>4, <1>5 DEF Solo, ToolsAwaited, Carrying, UsingTools
<1>10. ToolsAnswer'
  BY <1>1, <1>2, <1>4 DEF Solo, ToolsAnswer, Reported, Note, ResultMsg, Notes
<1>11. Solo(still, asked)'
  BY <1>6, <1>7, <1>8, <1>9, <1>10 DEF Solo
<1> QED
  BY <1>3, <1>5, <1>11

\* The result of a tool reaches a session that waits for it.
LEMMA ResultSolo ==
  ASSUME TypeOK, TypeOK', NEW still, NEW asked, Solo(still, asked), HandleToolExecutionCompleted
  PROVE  Solo(still, asked)'
<1> USE DEF sessionVars, llmVars, toolVars, userVars
<1>0. MailInOrder
  BY DEF Solo
<1>1. PICK h \in SessionMsg :
        /\ h = Head(sessionBox) /\ h.type = "ToolExecutionCompleted" /\ job = NoJob
        /\ SessionMail(sessionBox')
        /\ Mail(sessionBox) = Mail(sessionBox') \cup {h}
        /\ h \in ResultMsg => ~Carrying(sessionBox, UseMsg)
  BY <1>0, SessionTakes DEF HandleToolExecutionCompleted
<1>2. /\ h \notin RetryMsg \cup UseMsg \cup DoneMsg \cup SendMsg \cup TokenMsg \cup EndMsg
      /\ h \in ResultMsg /\ h = Note("ToolExecutionCompleted", h.gen)
  BY <1>1, Sorts
<1>3. Carrying(sessionBox, ResultMsg) /\ ~Carrying(sessionBox, UseMsg)
  BY <1>1, <1>2 DEF Carrying
<1>4. Activity(still, asked) \cap UsingTools # {}
  <2>1. batch # 0 \/ Carrying(sessionBox, DoneMsg)
    BY <1>3 DEF Solo, ToolsAwaited
  <2> QED
    BY <2>1, Absent DEF UsingTools
<1>5. phase = "Sending"
  BY <1>3, <1>4 DEF Solo, ToolsAwaited
<1>6. answered' = answered \cup {h.gen}
  BY <1>1, <1>5 DEF HandleToolExecutionCompleted, AcceptsResult
<1>7. UNCHANGED <<bridge, llmBox, toolBox, hand, stream, batch, aborted, task, running,
                  pendingBatch, job, guard, phase>>
  BY DEF HandleToolExecutionCompleted
<1>8. Activity(still, asked)' = Activity(still, asked)
  BY <1>1, <1>2, <1>7 DEF Activity, Carrying, Acting, Gens
<1>9. OneActivity(still, asked)'
  BY <1>7, <1>8 DEF OneActivity, Solo
<1>10. MailInOrder'
  BY <1>0, <1>1, <1>7 DEF MailInOrder
<1>11. LastGeneration(still)'
  BY <1>1, <1>7 DEF Solo, LastGeneration, Unopened, Gens
<1>12. ToolsAwaited(still, asked)'
  BY <1>1, <1>2, <1>7, <1>8 DEF Solo, ToolsAwaited, Carrying
<1>13. ToolsAnswer'
  <2>1. \A b : Reported(b) => Reported(b)'
    BY <1>1, <1>2, <1>6 DEF Reported, Note
  <2>2. Mail(sessionBox') \cap DoneMsg \subseteq Mail(sessionBox) \cap DoneMsg
    BY <1>1
  <2> QED
    BY <1>6, <1>7, <2>1, <2>2 DEF Solo, ToolsAnswer
<1> QED
  BY <1>9, <1>10, <1>11, <1>12, <1>13 DEF Solo

\* A finished batch is continued: its result is in the history.
LEMMA DoneSolo ==
  ASSUME TypeOK, TypeOK', NEW still, NEW asked, Solo(still, asked), HandleToolBatchCompleted
  PROVE  Solo(still, asked)'
<1> USE DEF sessionVars, llmVars, toolVars, userVars
<1>0. MailInOrder
  BY DEF Solo
<1>1. PICK h \in SessionMsg :
        /\ h = Head(sessionBox) /\ h.type = "ToolBatchCompleted" /\ job = NoJob
        /\ SessionMail(sessionBox')
        /\ Mail(sessionBox) = Mail(sessionBox') \cup {h}
        /\ h \in DoneMsg => /\ ~Carrying(sessionBox', DoneMsg)
                            /\ ~Carrying(sessionBox, UseMsg)
                            /\ ~Carrying(sessionBox, ResultMsg)
  BY <1>0, SessionTakes DEF HandleToolBatchCompleted
<1>2. /\ h \notin RetryMsg \cup UseMsg \cup ResultMsg \cup SendMsg \cup TokenMsg \cup EndMsg
      /\ h \in DoneMsg /\ h.gen \in Nat
  BY <1>1, Sorts
<1>3. Activity(still, asked) = {"done"}
  <2>1. "done" \in Activity(still, asked)
    BY <1>1, <1>2 DEF Activity, Carrying
  <2> QED
    BY <2>1 DEF Solo, OneActivity
<1>4. phase = "Sending"
  BY <1>1, <1>2, <1>3 DEF Solo, ToolsAwaited, UsingTools
<1>5. /\ job' = Dispatch("drain", "ToolContinuation", FALSE, h.gen) /\ pendingBatch' = pendingBatch
      /\ UNCHANGED <<bridge, llmBox, toolBox, hand, stream, batch, aborted, task, running, answered,
                     guard, phase>>
  BY <1>1, <1>4 DEF HandleToolBatchCompleted, ContinuesNow
<1>6. job'.at = "drain" /\ job'.batch = h.gen
  BY <1>5 DEF Dispatch
<1>7. h.gen \in answered
  <2>1. Note("ToolExecutionCompleted", h.gen) \in ResultMsg
    BY <1>2 DEF Note, ResultMsg, Notes
  <2> QED
    BY <1>1, <1>2, <2>1 DEF Solo, ToolsAnswer, Reported, Carrying
<1>8. Activity(still, asked)' \subseteq {"job"}
  <2>0. UNCHANGED <<llmBox, toolBox, hand, stream, batch>>
    BY <1>5
  <2>1. Activity(still, asked)' \subseteq {"job"} \cup Activity(still, asked)
    BY <1>1, <1>2, <2>0 DEF Activity, Carrying, Acting, Gens
  <2>2. "done" \notin Activity(still, asked)'
    BY <1>1, <1>2 DEF Activity
  <2> QED
    BY <1>3, <2>1, <2>2
<1>9. OneActivity(still, asked)'
  BY <1>4, <1>5, <1>8 DEF OneActivity
<1>10. MailInOrder'
  BY <1>0, <1>1, <1>5 DEF MailInOrder
<1>11. LastGeneration(still)'
  BY <1>1, <1>5, <1>6 DEF Solo, LastGeneration, Unopened, Gens
<1>12. ToolsAwaited(still, asked)'
  BY <1>1, <1>2, <1>5, <1>8 DEF Solo, ToolsAwaited, Carrying, UsingTools
<1>13. ToolsAnswer'
  <2>1. Mail(sessionBox') \cap DoneMsg = {}
    BY <1>1, <1>2 DEF Carrying
  <2> QED
    BY <1>1, <1>5, <1>6, <1>7, <2>1, <1>3, Absent DEF Solo, ToolsAnswer, Carrying
<1> QED
  BY <1>9, <1>10, <1>11, <1>12, <1>13 DEF Solo

\* A completion goes to the session and to the LLM actor itself, whom it moves nothing.
LEMMA CompletionOut ==
  ASSUME TypeOK, MailInOrder, NEW box \in Seq(LlmMsg), LlmMail(box), NEW n \in Nat, NEW r \in Reasons,
         PublishCompleted(box, n, r), NEW c, c = Completed(n, r),
         r # "ToolUse" => ~Carrying(sessionBox, EndMsg),
         r = "ToolUse" => /\ ~Carrying(sessionBox, UseMsg) /\ ~Carrying(sessionBox, ResultMsg)
                          /\ ~Carrying(sessionBox, DoneMsg)
  PROVE  /\ SessionMail(sessionBox') /\ LlmMail(llmBox')
         /\ Mail(sessionBox') = Mail(sessionBox) \cup {c}
         /\ c \in UseMsg <=> r = "ToolUse"
         /\ c \in EndMsg <=> r # "ToolUse"
         /\ c \notin RetryMsg \cup DoneMsg \cup TokenMsg \cup ResultMsg \cup SendMsg \cup CancelMsg
         /\ c.gen = n /\ \A b : c # Note("ToolExecutionCompleted", b)
         /\ \A kind \in {CancelMsg, SendMsg} : Mail(llmBox') \cap kind = Mail(box) \cap kind
<1>1. /\ c \in CompletedMsg /\ c.type = "StreamCompleted" /\ c.reason = r /\ c.gen = n
  BY DEF Completed, CompletedMsg
<1>2. c \in SessionMsg /\ c \in LlmMsg
  BY <1>1 DEF SessionMsg, LlmMsg
<1>3. /\ c \in UseMsg <=> r = "ToolUse"
      /\ c \in EndMsg <=> r # "ToolUse"
      /\ c \notin RetryMsg \cup DoneMsg \cup TokenMsg \cup ResultMsg \cup SendMsg \cup CancelMsg
  BY <1>1, <1>2, Sorts
<1>4. sessionBox' = Append(sessionBox, c) /\ llmBox' = Append(box, c)
  BY DEF PublishCompleted
<1>5. SessionMail(sessionBox') /\ Mail(sessionBox') = Mail(sessionBox) \cup {c}
  BY <1>2, <1>3, <1>4, SessionGets
<1>6. LlmMail(llmBox') /\ Mail(llmBox') = Mail(box) \cup {c}
  BY <1>2, <1>3, <1>4, LlmGets
<1>7. \A b : c # Note("ToolExecutionCompleted", b)
  BY <1>1 DEF Note
<1> QED
  BY <1>1, <1>3, <1>5, <1>6, <1>7

\* A completion of its own that the LLM actor reads.
LEMMA UntrackSolo ==
  ASSUME TypeOK, TypeOK', NEW still, NEW asked, Solo(still, asked), UntrackCompleted
  PROVE  Solo(still, asked)'
<1> USE DEF sessionVars, llmVars, toolVars, userVars
<1>0. MailInOrder
  BY DEF Solo
<1>1. PICK h \in LlmMsg :
        /\ h = Head(llmBox) /\ h.type = "StreamCompleted" /\ LlmMail(llmBox')
        /\ Mail(llmBox) = Mail(llmBox') \cup {h}
  BY <1>0, LlmTakes DEF UntrackCompleted
<1>2. h \notin SendMsg \cup CancelMsg
  BY <1>1, Sorts
<1>3. UNCHANGED <<bridge, sessionBox, toolBox, job, hand, stream, batch, aborted, task, running,
                  pendingBatch, answered, guard, phase>>
  BY DEF UntrackCompleted
<1>4. Activity(still, asked)' = Activity(still, asked)
  <2>1. /\ Carrying(llmBox', SendMsg) <=> Carrying(llmBox, SendMsg)
        /\ Carrying(llmBox', CancelMsg) <=> Carrying(llmBox, CancelMsg)
    BY <1>1, <1>2 DEF Carrying
  <2> QED
    BY <1>3, <2>1 DEF Activity, Acting, Gens
<1>5. OneActivity(still, asked)'
  BY <1>3, <1>4 DEF OneActivity, Solo
<1>6. MailInOrder'
  BY <1>0, <1>1, <1>3 DEF MailInOrder
<1>7. LastGeneration(still)'
  BY <1>1, <1>2, <1>3 DEF Solo, LastGeneration, Unopened, Gens, Mail
<1>8. ToolsAwaited(still, asked)'
  BY <1>3, <1>4 DEF Solo, ToolsAwaited
<1>9. ToolsAnswer'
  BY <1>3 DEF Solo, ToolsAnswer, Reported
<1> QED
  BY <1>5, <1>6, <1>7, <1>8, <1>9 DEF Solo

\* The LLM actor gets a request: nothing else of the turn is anywhere.
LEMMA SendAlone ==
  ASSUME TypeOK, NEW still, NEW asked, Solo(still, asked), NextLlmMsg("SendToLlmProvider"),
         NEW rest, rest = Tail(llmBox)
  PROVE  /\ Head(llmBox) \in SendMsg /\ Unopened(Head(llmBox).gen) /\ Head(llmBox).gen \in Gens
         /\ rest \in Seq(LlmMsg) /\ LlmMail(rest)
         /\ Mail(rest) \cap SendMsg = {} /\ Mail(rest) \cap CancelMsg = {}
         /\ Activity(still, asked) = {"send"} /\ phase # "Idle"
<1>0. MailInOrder
  BY DEF Solo
<1>1. PICK h \in LlmMsg :
        /\ h = Head(llmBox) /\ h.type = "SendToLlmProvider" /\ LlmMail(rest)
        /\ rest \in Seq(LlmMsg) /\ Mail(llmBox) = Mail(rest) \cup {h}
        /\ h \in SendMsg => ~Carrying(rest, SendMsg)
  BY <1>0, LlmTakes
<1>2. h \in SendMsg /\ h \in Mail(llmBox)
  BY <1>1, Sorts
<1>3. "send" \in Activity(still, asked)
  BY <1>2 DEF Activity, Carrying
<1>4. Activity(still, asked) = {"send"} /\ phase # "Idle"
  BY <1>3 DEF Solo, OneActivity
<1>5. ~Carrying(llmBox, CancelMsg)
  BY <1>4, Absent
<1>6. Unopened(h.gen)
  BY <1>2 DEF Solo, LastGeneration
<1>7. h.gen \in Gens
  BY <1>6, LenProperties DEF Unopened, Gens, TypeOK
<1> QED
  BY <1>1, <1>2, <1>4, <1>5, <1>6, <1>7 DEF Carrying

\* A continuation is dropped, a stream is opened or fails to: the request is gone.
LEMMA StartSolo ==
  ASSUME TypeOK, TypeOK', NEW still, NEW asked, Solo(still, asked),
         DropContinuation \/ StartStream
  PROVE  /\ Solo(still, asked)' /\ Activity(still, asked) = {"send"}
         /\ ~Carrying(llmBox', SendMsg)
<1> USE DEF sessionVars, llmVars, toolVars, userVars
<1>0. MailInOrder
  BY DEF Solo
<1>1. NextLlmMsg("SendToLlmProvider")
  BY DEF DropContinuation, StartStream
<1>2. PICK n \in Gens, rest \in Seq(LlmMsg) :
        /\ n = Head(llmBox).gen /\ Unopened(n) /\ rest = Tail(llmBox) /\ LlmMail(rest)
        /\ Mail(rest) \cap SendMsg = {} /\ Mail(rest) \cap CancelMsg = {}
        /\ Activity(still, asked) = {"send"} /\ phase # "Idle"
  BY <1>1, SendAlone
<1>3. /\ UNCHANGED <<bridge, toolBox, job, hand, batch, running, pendingBatch, answered, guard,
                     phase>>
  BY DEF DropContinuation, StartStream
<1>4. /\ Len(stream) \in Nat /\ n \in Nat /\ n = Len(stream) /\ n # 0 /\ n \notin aborted /\ n # task
  BY <1>2, LenProperties DEF Unopened, TypeOK
<1>5. aborted' \subseteq aborted \cup {task} /\ task' \in {task, 0, n}
  BY <1>2 DEF DropContinuation, StartStream, AbortTask
<1>6. \A g \in Gens \ still : stream[g].st \notin {"open", "tokens", "handoff"}
  BY <1>2, Absent
<1>7. PICK s \in {"dropped", "open", "ended"} : stream' = [stream EXCEPT ![n].st = s]
  BY <1>2 DEF DropContinuation, StartStream
<1>8. /\ Len(stream') = Len(stream) /\ Gens' = Gens
      /\ \A k \in Gens : stream'[k].st = IF k = n THEN s ELSE stream[k].st
  BY <1>7, StreamMoved
<1>9. /\ \A g \in Gens' \ still :
           stream'[g].st \in {"open", "tokens", "handoff"} => g = n /\ s = "open" /\ g \notin aborted'
      /\ ~Acting(still, {"handoff"})'
  BY <1>4, <1>5, <1>6, <1>8 DEF Acting
<1>10. ~Dispatching(job) /\ hand.at # "send"
  BY <1>2, JobAlone, HandAlone
<1>11. /\ ~Carrying(sessionBox, UseMsg) /\ ~Carrying(sessionBox, EndMsg)
       /\ ~Carrying(sessionBox, DoneMsg) /\ ~Carrying(sessionBox, ResultMsg)
  <2>1. /\ ~Carrying(sessionBox, EndMsg) /\ ~Carrying(sessionBox, DoneMsg) /\ batch = 0
    BY <1>2, Absent
  <2> QED
    BY <1>2, <2>1 DEF Solo, ToolsAwaited, UsingTools
<1>12. /\ SessionMail(sessionBox') /\ LlmMail(llmBox')
       /\ Mail(llmBox') \cap SendMsg = {} /\ Mail(llmBox') \cap CancelMsg = {}
       /\ \/ UNCHANGED sessionBox
          \/ \E c : /\ c \in EndMsg /\ c \notin RetryMsg \cup DoneMsg \cup TokenMsg \cup ResultMsg
                    /\ c \notin SendMsg \cup UseMsg /\ s = "ended"
                    /\ Mail(sessionBox') = Mail(sessionBox) \cup {c}
                    /\ \A b : c # Note("ToolExecutionCompleted", b)
  <2>1. CASE llmBox' = rest /\ UNCHANGED sessionBox
    BY <1>0, <1>2, <2>1 DEF MailInOrder
  <2>2. CASE PublishCompleted(rest, n, "Error") /\ stream' = [stream EXCEPT ![n].st = "ended"]
    <3>1. "Error" \in Reasons /\ "Error" # "ToolUse"
      BY DEF Reasons
    <3>0. PICK r \in Reasons : r = "Error"
      BY <3>1
    <3>2. PICK c : c = Completed(n, r)
      OBVIOUS
    <3>3. /\ SessionMail(sessionBox') /\ LlmMail(llmBox')
          /\ Mail(sessionBox') = Mail(sessionBox) \cup {c}
          /\ c \notin UseMsg /\ c \in EndMsg
          /\ c \notin RetryMsg \cup DoneMsg \cup TokenMsg \cup ResultMsg \cup SendMsg \cup CancelMsg
          /\ \A b : c # Note("ToolExecutionCompleted", b)
          /\ \A kind \in {CancelMsg, SendMsg} : Mail(llmBox') \cap kind = Mail(rest) \cap kind
      <4>1. PublishCompleted(rest, n, r) /\ r # "ToolUse"
        BY <2>2, <3>0
      <4>2. LlmMail(rest) /\ n \in Nat /\ ~Carrying(sessionBox, EndMsg)
        BY <1>2, <1>4, <1>11
      <4> QED
        BY <1>0, <3>2, <4>1, <4>2, CompletionOut
    <3>4. s = "ended"
      <4>1. PICK e : e = "ended" /\ stream' = [stream EXCEPT ![n].st = e]
        BY <2>2
      <4>2. stream'[n].st = e
        <5>1. n \in Gens /\ stream' = [stream EXCEPT ![n].st = e]
          BY <4>1
        <5>2. \A k \in Gens : stream'[k].st = IF k = n THEN e ELSE stream[k].st
          BY <5>1, StreamMoved
        <5> QED
          BY <5>2
      <4> QED
        BY <1>2, <1>8, <4>1, <4>2
    <3> QED
      BY <1>2, <3>3, <3>4
  <2> QED
    BY <1>2, <2>1, <2>2 DEF DropContinuation, StartStream
<1>13. Activity(still, asked)' \subseteq IF s = "open" THEN {"stream"} ELSE {"ended"}
  <2>1. s # "open" => ~Acting(still, {"open", "tokens"})'
    BY <1>9 DEF Acting
  <2>2. "asked" \in Activity(still, asked)' => "asked" \in Activity(still, asked)
    BY DEF Activity
  <2>3. /\ ~Carrying(toolBox, ExecMsg) /\ batch = 0 /\ ~Carrying(sessionBox, RetryMsg)
    BY <1>2, Absent
  <2>4. /\ ~Carrying(toolBox', ExecMsg) /\ batch' = 0 /\ ~Carrying(sessionBox', RetryMsg)
        /\ ~Carrying(sessionBox', DoneMsg)
        /\ s = "open" => ~Carrying(sessionBox', EndMsg)
    BY <1>3, <1>11, <1>12, <2>3 DEF Carrying
  <2>5. ~Carrying(llmBox', SendMsg) /\ ~Carrying(llmBox', CancelMsg)
    BY <1>12 DEF Carrying
  <2>6. "asked" \notin Activity(still, asked)'
    BY <1>2, <2>2
  <2>7. Activity(still, asked)' \subseteq {"asked", "stream", "ended"}
    BY <1>3, <1>9, <1>10, <2>4, <2>5 DEF Activity
  <2>8. s = "open" => "ended" \notin Activity(still, asked)'
    BY <2>4 DEF Activity
  <2>9. s # "open" => "stream" \notin Activity(still, asked)'
    BY <2>1 DEF Activity
  <2> QED
    BY <2>6, <2>7, <2>8, <2>9
<1>14. OneActivity(still, asked)'
  BY <1>2, <1>3, <1>13 DEF OneActivity
<1>15. MailInOrder'
  BY <1>0, <1>3, <1>12 DEF MailInOrder
<1>16. LastGeneration(still)'
  <2>1. \A m \in Mail(sessionBox') \cap (SendMsg \cup UseMsg) : m \in Mail(sessionBox)
    BY <1>12
  <2>2. (aborted \cup {task})' \subseteq 0..Len(stream')
    BY <1>4, <1>5, <1>8 DEF Solo, LastGeneration
  <2>3. job'.at # "send"
    BY <1>3, <1>10 DEF Dispatching
  <2> QED
    BY <1>3, <1>4, <1>8, <1>9, <1>12, <2>1, <2>2, <2>3 DEF Solo, LastGeneration
<1>17. ToolsAwaited(still, asked)'
  <2>1. ~Carrying(sessionBox', UseMsg) /\ ~Carrying(sessionBox', ResultMsg)
    BY <1>11, <1>12 DEF Carrying
  <2>2. Activity(still, asked)' \cap UsingTools = {}
    BY <1>13 DEF UsingTools
  <2> QED
    BY <1>3, <2>1, <2>2 DEF Solo, ToolsAwaited
<1>18. ToolsAnswer'
  <2>1. Mail(sessionBox) \subseteq Mail(sessionBox')
    BY <1>12
  <2>2. Mail(sessionBox') \cap DoneMsg = {}
    BY <1>11, <1>12 DEF Carrying
  <2> QED
    BY <1>3, <2>1, <2>2 DEF Solo, ToolsAnswer, Reported
<1> QED
  BY <1>2, <1>12, <1>14, <1>15, <1>16, <1>17, <1>18 DEF Solo, Carrying

\* The orchestrator's mailbox, as the session's.
LEMMA ToolTakes ==
  ASSUME TypeOK, MailInOrder, NEW type, NextToolMsg(type)
  PROVE  /\ Head(toolBox) \in ToolMsg /\ Head(toolBox).type = type
         /\ ToolMail(toolBox') /\ Mail(toolBox) = Mail(toolBox') \cup {Head(toolBox)}
         /\ \A kind \in {ExecMsg, ResultMsg} : Head(toolBox) \in kind => ~Carrying(toolBox', kind)
         /\ Head(toolBox) \in ExecMsg => ~Carrying(toolBox, CancelBatchMsg)
<1>1. /\ toolBox \in Seq(ToolMsg) /\ toolBox # <<>> /\ Head(toolBox).type = type
      /\ toolBox' = Tail(toolBox)
  BY DEF TypeOK, NextToolMsg
<1>2. /\ Head(toolBox) \in ToolMsg
      /\ Mail(toolBox) = Mail(toolBox') \cup {Head(toolBox)}
      /\ \A kind : Once(toolBox, kind) => /\ Once(toolBox', kind)
                            /\ ~(Head(toolBox) \in kind /\ Carrying(toolBox', kind))
      /\ \A kind, later : Before(toolBox, kind, later) =>
                            /\ Before(toolBox', kind, later)
                            /\ ~(Head(toolBox) \in later /\ Carrying(toolBox, kind))
  BY <1>1, Lost
<1>3. ToolMail(toolBox)
  BY DEF MailInOrder
<1> QED
  BY <1>1, <1>2, <1>3 DEF ToolMail

LEMMA ToolGets ==
  ASSUME TypeOK, MailInOrder, NEW m \in ToolMsg, toolBox' = Append(toolBox, m),
         \A kind \in {ExecMsg, ResultMsg} : m \in kind => ~Carrying(toolBox, kind),
         m \in CancelBatchMsg => ~Carrying(toolBox, ExecMsg)
  PROVE  ToolMail(toolBox') /\ Mail(toolBox') = Mail(toolBox) \cup {m}
<1>1. /\ Mail(toolBox') = Mail(toolBox) \cup {m}
      /\ \A kind : Once(toolBox, kind) /\ ~(Carrying(toolBox, kind) /\ m \in kind)
                     => Once(toolBox', kind)
      /\ \A kind, later : /\ Before(toolBox, kind, later)
                          /\ m \in kind => m \notin later /\ ~Carrying(toolBox, later)
                          => Before(toolBox', kind, later)
  BY Gained DEF TypeOK
<1>2. ToolMail(toolBox)
  BY DEF MailInOrder
<1>3. m \in CancelBatchMsg => m \notin ExecMsg
  BY Sorts
<1> QED
  BY <1>1, <1>2, <1>3 DEF ToolMail

\* The cancel of a plugin ends the stream that hangs; there is nothing else to end.
LEMMA CancelSolo ==
  ASSUME TypeOK, TypeOK', NEW still, NEW asked, Solo(still, asked), CancelStream
  PROVE  /\ Solo(still, asked)' /\ Activity(still, asked) = {"cancel"}
         /\ ~Carrying(llmBox', SendMsg)
<1> USE DEF sessionVars, llmVars, toolVars, userVars
<1>0. MailInOrder
  BY DEF Solo
<1>1. PICK h \in LlmMsg, rest \in Seq(LlmMsg) :
        /\ h = Head(llmBox) /\ h.type = "CancelStream" /\ LlmMail(rest) /\ rest = Tail(llmBox)
        /\ Mail(llmBox) = Mail(rest) \cup {h}
        /\ h \in CancelMsg => ~Carrying(rest, CancelMsg)
  BY <1>0, LlmTakes DEF CancelStream
<1>2. h \in CancelMsg /\ Mail(rest) \cap CancelMsg = {} /\ Carrying(llmBox, CancelMsg)
  BY <1>1, Sorts DEF Carrying
<1>3. Activity(still, asked) = {"cancel"} /\ phase # "Idle"
  <2>1. "cancel" \in Activity(still, asked)
    BY <1>2 DEF Activity
  <2> QED
    BY <2>1 DEF Solo, OneActivity
<1>4. UNCHANGED <<bridge, job, hand, batch, running, pendingBatch, answered, guard, phase>>
  BY DEF CancelStream
<1>5. /\ ~Carrying(sessionBox, RetryMsg) /\ ~Carrying(sessionBox, EndMsg)
      /\ ~Carrying(sessionBox, DoneMsg) /\ ~Carrying(llmBox, SendMsg)
      /\ ~Carrying(toolBox, ExecMsg) /\ batch = 0
      /\ \A g \in Gens \ still : stream[g].st \notin {"open", "tokens", "handoff"}
  BY <1>3, Absent
<1>6. ~Carrying(sessionBox, UseMsg) /\ ~Carrying(sessionBox, ResultMsg)
  BY <1>3, <1>5 DEF Solo, ToolsAwaited, UsingTools
<1>7. ~Dispatching(job) /\ hand.at # "send"
  BY <1>3, JobAlone, HandAlone
<1>8. Mail(rest) \cap SendMsg = {}
  BY <1>1, <1>5 DEF Carrying
<1>9. /\ Len(stream) \in Nat /\ Len(stream') \in Nat /\ Len(stream) <= Len(stream')
      /\ \A g \in Gens' \ still : stream'[g].st \notin {"open", "tokens", "handoff"}
  <2>1. Len(stream) \in Nat
    BY LenProperties DEF TypeOK
  <2>2. CASE UNCHANGED stream
    BY <1>5, <2>1, <2>2 DEF Gens
  <2>3. CASE stream' = Append(stream, [of |-> 0, st |-> "ended"])
    <3>1. PICK s \in StreamStates, o \in Nat : s = "ended" /\ o = 0
      BY DEF StreamStates
    <3>2. /\ Len(stream') = Len(stream) + 1
          /\ \A g : g \in Gens' <=> g \in Gens \/ g = Len(stream) + 1
          /\ \A g \in Gens : stream'[g].st = stream[g].st
          /\ stream'[Len(stream) + 1].st = s
      BY <2>3, <3>1, StreamAdded
    <3> QED
      BY <1>5, <2>1, <3>1, <3>2
  <2> QED
    BY <2>2, <2>3 DEF CancelStream
<1>10. /\ SessionMail(sessionBox') /\ LlmMail(llmBox')
       /\ Mail(llmBox') \cap SendMsg = {} /\ Mail(llmBox') \cap CancelMsg = {}
       /\ \/ UNCHANGED sessionBox
          \/ \E c : /\ c \in EndMsg /\ c \notin RetryMsg \cup DoneMsg \cup TokenMsg \cup ResultMsg
                    /\ c \notin SendMsg \cup UseMsg
                    /\ Mail(sessionBox') = Mail(sessionBox) \cup {c}
  <2>1. CASE llmBox' = rest /\ UNCHANGED sessionBox
    BY <1>0, <1>1, <1>2, <1>8, <2>1 DEF MailInOrder
  <2>2. CASE PublishCompleted(rest, CancelledGen, "Canceled")
    <3>1. PICK r \in Reasons : r = "Canceled"
      BY DEF Reasons
    <3>2. PICK n \in Nat : n = CancelledGen
      <4>1. Len(stream) \in Nat
        BY LenProperties DEF TypeOK
      <4>2. tracked \in Nat \cup {NoStamp}
        BY DEF TypeOK
      <4>3. CancelledGen \in Nat
        BY <4>1, <4>2 DEF CancelledGen, Now
      <4> QED
        BY <4>3
    <3>3. PICK c : c = Completed(n, r)
      OBVIOUS
    <3>4. PublishCompleted(rest, n, r) /\ r # "ToolUse"
      BY <2>2, <3>1, <3>2
    <3>5. LlmMail(rest) /\ ~Carrying(sessionBox, EndMsg)
      BY <1>1, <1>5
    <3>6. /\ SessionMail(sessionBox') /\ LlmMail(llmBox')
          /\ Mail(sessionBox') = Mail(sessionBox) \cup {c}
          /\ c \notin UseMsg /\ c \in EndMsg
          /\ c \notin RetryMsg \cup DoneMsg \cup TokenMsg \cup ResultMsg \cup SendMsg \cup CancelMsg
          /\ \A kind \in {CancelMsg, SendMsg} : Mail(llmBox') \cap kind = Mail(rest) \cap kind
      BY <1>0, <3>3, <3>4, <3>5, CompletionOut
    <3> QED
      BY <1>2, <1>8, <3>6
  <2> QED
    BY <1>1, <2>1, <2>2 DEF CancelStream
<1>11. /\ ToolMail(toolBox')
       /\ ~Carrying(toolBox', ExecMsg) /\ ~Carrying(toolBox', ResultMsg)
  <2>0. ~Carrying(toolBox, ResultMsg)
    BY <1>5 DEF Solo, ToolsAnswer
  <2>1. CASE UNCHANGED toolBox
    BY <1>0, <1>5, <2>0, <2>1 DEF MailInOrder
  <2>2. CASE toolBox' = Append(toolBox, [type |-> "CancelToolBatch"])
    <3>1. PICK m \in ToolMsg : m = [type |-> "CancelToolBatch"]
      BY DEF ToolMsg, CancelBatchMsg
    <3>2. m \notin ExecMsg \cup ResultMsg
      BY <3>1, Sorts
    <3>3. ToolMail(toolBox') /\ Mail(toolBox') = Mail(toolBox) \cup {m}
      BY <1>0, <1>5, <2>2, <3>1, <3>2, ToolGets
    <3> QED
      BY <1>5, <2>0, <3>2, <3>3 DEF Carrying
  <2> QED
    BY <2>1, <2>2 DEF CancelStream
<1>12. aborted' \subseteq aborted \cup {task} /\ task' = 0
  BY DEF CancelStream, AbortTask
<1>13. Activity(still, asked)' \subseteq {"ended"}
  <2>1. ~Acting(still, {"open", "tokens"})' /\ ~Acting(still, {"handoff"})'
    BY <1>9 DEF Acting
  <2>2. "asked" \in Activity(still, asked)' => "asked" \in Activity(still, asked)
    BY DEF Activity
  <2>3. "asked" \notin Activity(still, asked)'
    BY <1>3, <2>2
  <2>4. /\ ~Carrying(sessionBox', RetryMsg) /\ ~Carrying(sessionBox', DoneMsg)
        /\ ~Carrying(llmBox', SendMsg) /\ ~Carrying(llmBox', CancelMsg)
    BY <1>5, <1>10 DEF Carrying
  <2>5. Activity(still, asked)' \subseteq {"asked", "ended"}
    BY <1>4, <1>5, <1>7, <1>11, <2>1, <2>4 DEF Activity
  <2> QED
    BY <2>3, <2>5
<1>14. OneActivity(still, asked)'
  BY <1>3, <1>4, <1>13 DEF OneActivity
<1>15. MailInOrder'
  BY <1>0, <1>4, <1>10, <1>11 DEF MailInOrder
<1>16. LastGeneration(still)'
  <2>1. \A m \in Mail(sessionBox) \cap SendMsg : m.gen \in Nat /\ m.gen <= Len(stream)
    BY DEF Solo, LastGeneration, SendMsg
  <2>2. Mail(sessionBox') \cap SendMsg \subseteq Mail(sessionBox) \cap SendMsg
    BY <1>10
  <2>3. \A m \in Mail(sessionBox') \cap SendMsg : m.gen <= Len(stream')
    BY <1>9, <2>1, <2>2
  <2>4. (aborted \cup {task})' \subseteq 0..Len(stream')
    BY <1>9, <1>12 DEF Solo, LastGeneration
  <2>5. job'.at # "send"
    BY <1>4, <1>7 DEF Dispatching
  <2>6. guard' <= Len(stream')
    BY <1>4, <1>9 DEF Solo, LastGeneration, TypeOK
  <2>7. Mail(sessionBox') \cap UseMsg = {}
    BY <1>6, <1>10 DEF Carrying
  <2> QED
    BY <1>9, <1>10, <2>3, <2>4, <2>5, <2>6, <2>7 DEF LastGeneration
<1>17. ToolsAwaited(still, asked)'
  <2>1. ~Carrying(sessionBox', UseMsg) /\ ~Carrying(sessionBox', ResultMsg)
    BY <1>6, <1>10 DEF Carrying
  <2>2. Activity(still, asked)' \cap UsingTools = {}
    BY <1>13 DEF UsingTools
  <2> QED
    BY <1>4, <2>1, <2>2 DEF Solo, ToolsAwaited
<1>18. ToolsAnswer'
  <2>1. Mail(sessionBox') \cap DoneMsg = {}
    BY <1>5, <1>10 DEF Carrying
  <2>2. Mail(toolBox') \cap ExecMsg = {}
    BY <1>11 DEF Carrying
  <2> QED
    BY <1>4, <1>5, <1>7, <1>11, <2>1, <2>2 DEF Solo, ToolsAnswer
<1> QED
  BY <1>3, <1>10, <1>14, <1>15, <1>16, <1>17, <1>18 DEF Solo, Carrying

\* A stream that is heard of and not done is the last one, alone and not aborted.
LEMMA StreamAlone ==
  ASSUME TypeOK, NEW still, NEW asked, Solo(still, asked), NEW g \in Gens \ still,
         stream[g].st \in {"open", "tokens", "handoff"}
  PROVE  /\ g = Len(stream) /\ g # 0 /\ g \in Nat /\ g \in Gens /\ g \notin aborted /\ phase # "Idle"
         /\ Activity(still, asked) = IF stream[g].st = "handoff" THEN {"handoff"} ELSE {"stream"}
         /\ \A k \in Gens \ still : stream[k].st \in {"open", "tokens", "handoff"} => k = g
         /\ Mail(llmBox) \cap SendMsg = {} /\ ~Dispatching(job) /\ hand.at # "send"
<1>1. \A k \in Gens \ still : stream[k].st \in {"open", "tokens", "handoff"}
                                => k = Len(stream) /\ k \notin aborted
  BY DEF Solo, LastGeneration
<1>2. g \in Nat /\ g # 0
  BY LenProperties DEF Gens, TypeOK
<1>3. CASE stream[g].st = "handoff"
  <2>1. "handoff" \in Activity(still, asked)
    BY <1>3 DEF Activity, Acting
  <2> QED
    BY <1>1, <1>2, <1>3, <2>1, Absent, JobAlone, HandAlone DEF Solo, OneActivity, Carrying
<1>4. CASE stream[g].st # "handoff"
  <2>1. "stream" \in Activity(still, asked)
    BY <1>4 DEF Activity, Acting
  <2> QED
    BY <1>1, <1>2, <1>4, <2>1, Absent, JobAlone, HandAlone DEF Solo, OneActivity, Carrying
<1> QED
  BY <1>3, <1>4

\* A stream moves on: what the streams say of the turn.
LEMMA StreamGoesOn ==
  ASSUME TypeOK, NEW still, NEW asked, Solo(still, asked), NEW g \in Gens \ still,
         stream[g].st \in {"open", "tokens", "handoff"}, UNCHANGED <<aborted, task>>,
         NEW s, stream' = [stream EXCEPT ![g].st = s]
  PROVE  /\ Len(stream') = Len(stream) /\ Gens' = Gens
         /\ \A k \in Gens' \ still : stream'[k].st \in {"open", "tokens", "handoff"}
              => k = Len(stream') /\ k \notin aborted' /\ s \in {"open", "tokens", "handoff"}
         /\ s \notin {"open", "tokens"} => ~Acting(still, {"open", "tokens"})'
         /\ s # "handoff" => ~Acting(still, {"handoff"})'
         /\ s = "tokens" => Acting(still, {"open", "tokens"})'
         /\ s = "handoff" => Acting(still, {"handoff"})'
<1>1. /\ Len(stream') = Len(stream) /\ Gens' = Gens
      /\ \A k \in Gens : stream'[k].st = IF k = g THEN s ELSE stream[k].st
  <2>1. PICK n \in Gens : n = g
    OBVIOUS
  <2>2. stream' = [stream EXCEPT ![n].st = s]
    BY <2>1
  <2>3. /\ Len(stream') = Len(stream) /\ Gens' = Gens
        /\ \A k \in Gens : stream'[k].st = IF k = n THEN s ELSE stream[k].st
    BY <2>2, StreamMoved
  <2> QED
    BY <2>1, <2>3
<1>2. /\ g = Len(stream) /\ g \notin aborted
      /\ \A k \in Gens \ still : stream[k].st \in {"open", "tokens", "handoff"} => k = g
  BY StreamAlone
<1> QED
  BY <1>1, <1>2 DEF Acting

LEMMA FirstTokenSolo ==
  ASSUME TypeOK, TypeOK', NEW still, NEW asked, Solo(still, asked), NEW g \in Gens \ still, FirstToken(g)
  PROVE  Solo(still, asked)'
<1> USE DEF sessionVars, llmVars, toolVars, userVars
<1>0. MailInOrder
  BY DEF Solo
<1>1. /\ stream[g].st = "open" /\ stream' = [stream EXCEPT ![g].st = "tokens"]
      /\ UNCHANGED <<llmBox, toolBox, bridge, job, hand, batch, running, pendingBatch, answered, guard,
                     phase, aborted, task>>
      /\ sessionBox' = Append(sessionBox, Note("StreamToken", g))
  BY DEF FirstToken, StreamStep
<1>2. /\ g = Len(stream) /\ g \in Nat /\ phase # "Idle" /\ Activity(still, asked) = {"stream"}
      /\ Mail(llmBox) \cap SendMsg = {} /\ ~Dispatching(job)
  BY <1>1, StreamAlone
<1>3. /\ Len(stream') = Len(stream) /\ Gens' = Gens
      /\ \A k \in Gens' \ still : stream'[k].st \in {"open", "tokens", "handoff"}
              => k = Len(stream') /\ k \notin aborted'
      /\ ~Acting(still, {"handoff"})' /\ Acting(still, {"open", "tokens"})'
  <2>1. PICK s : s = "tokens"
    OBVIOUS
  <2>2. stream' = [stream EXCEPT ![g].st = s] /\ UNCHANGED <<aborted, task>>
    BY <1>1, <2>1
  <2>3. s = "tokens" /\ s # "handoff"
    BY <2>1
  <2> QED
    BY <1>1, <2>2, <2>3, StreamGoesOn
<1>4. PICK m \in SessionMsg : m = Note("StreamToken", g) /\ m.type = "StreamToken"
  <2>1. Note("StreamToken", g) \in SessionMsg
    BY <1>2 DEF Note, SessionMsg, BatchMsg
  <2> QED
    BY <2>1 DEF Note
<1>5. /\ m \in TokenMsg
      /\ m \notin RetryMsg \cup EndMsg \cup UseMsg \cup DoneMsg \cup ResultMsg \cup SendMsg
  BY <1>4, Sorts
<1>6. ~Carrying(sessionBox, UseMsg)
  BY <1>2 DEF Solo, ToolsAwaited, UsingTools
<1>7. SessionMail(sessionBox') /\ Mail(sessionBox') = Mail(sessionBox) \cup {m}
  BY <1>0, <1>1, <1>4, <1>5, <1>6, SessionGets
<1>8. Activity(still, asked)' \subseteq {"stream"}
  <2>1. UNCHANGED <<llmBox, toolBox, job, hand, batch>>
    BY <1>1
  <2>2. Activity(still, asked)' \subseteq {"stream"} \cup Activity(still, asked)
    BY <1>3, <1>5, <1>7, <2>1 DEF Activity, Carrying
  <2> QED
    BY <1>2, <2>2
<1>9. OneActivity(still, asked)'
  BY <1>1, <1>2, <1>8 DEF OneActivity
<1>10. MailInOrder'
  BY <1>0, <1>1, <1>7 DEF MailInOrder
<1>11. LastGeneration(still)'
  BY <1>1, <1>2, <1>3, <1>5, <1>7 DEF Solo, LastGeneration, Dispatching
<1>12. ToolsAwaited(still, asked)'
  BY <1>1, <1>2, <1>5, <1>6, <1>7, <1>8 DEF Solo, ToolsAwaited, Carrying, UsingTools
<1>13. ToolsAnswer'
  BY <1>1, <1>5, <1>7 DEF Solo, ToolsAnswer, Reported
<1> QED
  BY <1>9, <1>10, <1>11, <1>12, <1>13 DEF Solo

\* A stream ends, with tools to use or without.
LEMMA StreamEndSolo ==
  ASSUME TypeOK, TypeOK', NEW still, NEW asked, Solo(still, asked), NEW g \in Gens \ still,
         StreamFinishes(g) \/ StreamFails(g) \/ StreamUsesTools(g)
  PROVE  /\ Solo(still, asked)'
         /\ Activity(still, asked) = {"stream"}
<1> USE DEF sessionVars, llmVars, toolVars, userVars
<1>0. MailInOrder
  BY DEF Solo
<1>1. /\ stream[g].st \in {"open", "tokens"}
      /\ UNCHANGED <<toolBox, bridge, job, hand, batch, running, pendingBatch, answered, guard,
                     phase, aborted, task>>
  BY DEF StreamFinishes, StreamFails, StreamUsesTools, StreamStep
<1>2. PICK r \in Reasons, s \in {"ended", "handoff"} :
        /\ stream' = [stream EXCEPT ![g].st = s] /\ PublishCompleted(llmBox, g, r)
        /\ r = "ToolUse" <=> s = "handoff"
  BY DEF StreamFinishes, StreamFails, StreamUsesTools, StreamStep, Reasons
<1>3. /\ g = Len(stream) /\ g \in Nat /\ phase # "Idle" /\ Activity(still, asked) = {"stream"}
      /\ Mail(llmBox) \cap SendMsg = {} /\ ~Dispatching(job) /\ hand.at # "send"
  BY <1>1, StreamAlone
<1>4. /\ Len(stream') = Len(stream) /\ Gens' = Gens
      /\ \A k \in Gens' \ still : stream'[k].st \in {"open", "tokens", "handoff"}
              => k = Len(stream') /\ k \notin aborted'
      /\ ~Acting(still, {"open", "tokens"})'
      /\ s = "handoff" <=> Acting(still, {"handoff"})'
  <2>1. stream' = [stream EXCEPT ![g].st = s] /\ UNCHANGED <<aborted, task>>
    BY <1>1, <1>2
  <2>2. s \notin {"open", "tokens"}
    OBVIOUS
  <2> QED
    BY <1>1, <2>1, <2>2, StreamGoesOn
<1>5. /\ ~Carrying(sessionBox, EndMsg) /\ ~Carrying(sessionBox, DoneMsg) /\ batch = 0
      /\ ~Carrying(llmBox, CancelMsg) /\ ~Carrying(sessionBox, RetryMsg) /\ ~Carrying(toolBox, ExecMsg)
  BY <1>3, Absent
<1>6. ~Carrying(sessionBox, UseMsg) /\ ~Carrying(sessionBox, ResultMsg)
  BY <1>3, <1>5 DEF Solo, ToolsAwaited, UsingTools
<1>7. PICK c : c = Completed(g, r)
  OBVIOUS
<1>8. /\ SessionMail(sessionBox') /\ LlmMail(llmBox')
      /\ Mail(sessionBox') = Mail(sessionBox) \cup {c}
      /\ c \in UseMsg <=> r = "ToolUse"
      /\ c \in EndMsg <=> r # "ToolUse"
      /\ c \notin RetryMsg \cup DoneMsg \cup TokenMsg \cup ResultMsg \cup SendMsg \cup CancelMsg
      /\ c.gen = g
      /\ \A kind \in {CancelMsg, SendMsg} : Mail(llmBox') \cap kind = Mail(llmBox) \cap kind
  <2>1. LlmMail(llmBox) /\ llmBox \in Seq(LlmMsg) /\ g \in Nat
    BY <1>0, <1>3 DEF MailInOrder, TypeOK
  <2> QED
    BY <1>0, <1>2, <1>5, <1>6, <1>7, <2>1, CompletionOut
<1>9. Activity(still, asked)' \subseteq IF s = "handoff" THEN {"handoff"} ELSE {"ended"}
  <2>1. "asked" \in Activity(still, asked)' => "asked" \in Activity(still, asked)
    BY DEF Activity
  <2>2. "asked" \notin Activity(still, asked)'
    BY <1>3, <2>1
  <2>3. /\ ~Carrying(sessionBox', RetryMsg) /\ ~Carrying(sessionBox', DoneMsg)
        /\ ~Carrying(llmBox', SendMsg) /\ ~Carrying(llmBox', CancelMsg)
    BY <1>3, <1>5, <1>8 DEF Carrying
  <2>4. Activity(still, asked)' \subseteq {"asked", "ended", "handoff"}
    BY <1>1, <1>3, <1>4, <1>5, <2>3 DEF Activity
  <2>5. s = "handoff" => "ended" \notin Activity(still, asked)'
    <3>1. s = "handoff" => ~Carrying(sessionBox', EndMsg)
      BY <1>2, <1>5, <1>8 DEF Carrying
    <3> QED
      BY <3>1 DEF Activity
  <2>6. s # "handoff" => "handoff" \notin Activity(still, asked)'
    BY <1>4 DEF Activity
  <2> QED
    BY <2>2, <2>4, <2>5, <2>6
<1>10. OneActivity(still, asked)'
  BY <1>1, <1>3, <1>9 DEF OneActivity
<1>11. MailInOrder'
  BY <1>0, <1>1, <1>8 DEF MailInOrder
<1>12. LastGeneration(still)'
  <2>1. \A m \in Mail(sessionBox') \cap UseMsg : m.gen = Len(stream')
    BY <1>3, <1>4, <1>6, <1>8 DEF Carrying
  <2>2. Mail(llmBox') \cap SendMsg = {} /\ job'.at # "send"
    BY <1>1, <1>3, <1>8 DEF Dispatching
  <2> QED
    BY <1>1, <1>4, <1>8, <2>1, <2>2 DEF Solo, LastGeneration
<1>13. ToolsAwaited(still, asked)'
  <2>1. ~Carrying(sessionBox', ResultMsg)
    BY <1>6, <1>8 DEF Carrying
  <2>2. s = "handoff" => /\ Carrying(sessionBox', UseMsg)
                         /\ "handoff" \in Activity(still, asked)'
    BY <1>2, <1>4, <1>8 DEF Carrying, Activity
  <2>3. s # "handoff" => /\ ~Carrying(sessionBox', UseMsg)
                         /\ Activity(still, asked)' \cap UsingTools = {}
    BY <1>2, <1>6, <1>8, <1>9 DEF Carrying, UsingTools
  <2>4. pendingBatch' = 0
    BY <1>1 DEF Solo, ToolsAwaited
  <2>5. "handoff" \in UsingTools
    BY DEF UsingTools
  <2> QED
    BY <2>1, <2>2, <2>3, <2>4, <2>5 DEF ToolsAwaited
<1>14. ToolsAnswer'
  BY <1>1, <1>8 DEF Solo, ToolsAnswer, Reported
<1> QED
  BY <1>3, <1>10, <1>11, <1>12, <1>13, <1>14 DEF Solo

\* The batch is handed over.
LEMMA HandOffSolo ==
  ASSUME TypeOK, TypeOK', NEW still, NEW asked, Solo(still, asked), NEW g \in Gens \ still, HandOffBatch(g)
  PROVE  Solo(still, asked)'
<1> USE DEF sessionVars, llmVars, toolVars, userVars
<1>0. MailInOrder
  BY DEF Solo
<1>1. /\ stream[g].st = "handoff" /\ stream' = [stream EXCEPT ![g].st = "toolUse"]
      /\ UNCHANGED <<llmBox, sessionBox, bridge, job, hand, batch, running, pendingBatch, answered, guard,
                     phase, aborted, task>>
      /\ toolBox' = Append(toolBox, Note("ExecuteToolBatch", g))
  BY DEF HandOffBatch, StreamStep
<1>2. /\ g = Len(stream) /\ g \in Nat /\ g # 0 /\ phase # "Idle" /\ Activity(still, asked) = {"handoff"}
      /\ Mail(llmBox) \cap SendMsg = {} /\ ~Dispatching(job)
  BY <1>1, StreamAlone
<1>3. /\ Len(stream') = Len(stream) /\ Gens' = Gens
      /\ \A k \in Gens' \ still : stream'[k].st \notin {"open", "tokens", "handoff"}
      /\ ~Acting(still, {"handoff"})' /\ ~Acting(still, {"open", "tokens"})'
  <2>1. PICK s : s = "toolUse"
    OBVIOUS
  <2>2. stream' = [stream EXCEPT ![g].st = s] /\ UNCHANGED <<aborted, task>>
    BY <1>1, <2>1
  <2>3. s \notin {"open", "tokens", "handoff"}
    BY <2>1
  <2> QED
    BY <1>1, <2>2, <2>3, StreamGoesOn
<1>4. PICK m \in ToolMsg : m = Note("ExecuteToolBatch", g) /\ m.type = "ExecuteToolBatch" /\ m.gen = g
  <2>1. Note("ExecuteToolBatch", g) \in ToolMsg
    BY <1>2 DEF Note, ToolMsg, BatchMsg
  <2> QED
    BY <2>1 DEF Note
<1>5. m \in ExecMsg /\ m \notin ResultMsg \cup CancelBatchMsg
  BY <1>4, Sorts
<1>6. ~Carrying(toolBox, ExecMsg) /\ batch = 0
  BY <1>2, Absent
<1>7. ToolMail(toolBox') /\ Mail(toolBox') = Mail(toolBox) \cup {m}
  BY <1>0, <1>1, <1>4, <1>5, <1>6, ToolGets
<1>8. Activity(still, asked)' = {"execute"}
  <2>1. UNCHANGED <<sessionBox, llmBox, job, hand, batch>>
    BY <1>1
  <2>2. Activity(still, asked)' \subseteq {"execute"} \cup Activity(still, asked)
    BY <1>3, <1>5, <1>7, <2>1 DEF Activity, Carrying
  <2>3. "handoff" \notin Activity(still, asked)'
    BY <1>3 DEF Activity
  <2>4. "execute" \in Activity(still, asked)'
    BY <1>5, <1>7 DEF Activity, Carrying
  <2> QED
    BY <1>2, <2>2, <2>3, <2>4
<1>9. OneActivity(still, asked)'
  BY <1>1, <1>2, <1>8 DEF OneActivity
<1>10. MailInOrder'
  BY <1>0, <1>1, <1>7 DEF MailInOrder
<1>11. LastGeneration(still)'
  BY <1>1, <1>2, <1>3 DEF Solo, LastGeneration, Dispatching
<1>12. ToolsAwaited(still, asked)'
  <2>1. Activity(still, asked) \cap UsingTools # {} /\ Activity(still, asked)' \cap UsingTools # {}
    BY <1>2, <1>8 DEF UsingTools
  <2> QED
    BY <1>1, <2>1 DEF Solo, ToolsAwaited
<1>13. ToolsAnswer'
  BY <1>1, <1>2, <1>4, <1>5, <1>6, <1>7 DEF Solo, ToolsAnswer, Reported, Carrying
<1> QED
  BY <1>9, <1>10, <1>11, <1>12, <1>13 DEF Solo

\* A stream that stops is one that was aborted, and nobody hears of it.
LEMMA StopSolo ==
  ASSUME TypeOK, TypeOK', NEW still, NEW asked, Solo(still, asked), NEW g \in Gens, StreamStops(g)
  PROVE  Solo(still, asked)'
<1> USE DEF sessionVars, llmVars, toolVars, userVars
<1>1. /\ g \in aborted /\ stream[g].st \in {"open", "tokens", "handoff"}
      /\ stream' = [stream EXCEPT ![g].st = "stopped"]
      /\ UNCHANGED <<llmBox, toolBox, sessionBox, bridge, job, hand, batch, running, pendingBatch,
                     answered, guard, phase, aborted, task>>
  BY DEF StreamStops, StreamStep
<1>2. g \in still
  BY <1>1 DEF Solo, LastGeneration
<1>3. /\ Len(stream') = Len(stream) /\ Gens' = Gens
      /\ \A k \in Gens \ still : stream'[k].st = stream[k].st
  <2>1. PICK s : s = "stopped"
    OBVIOUS
  <2>2. stream' = [stream EXCEPT ![g].st = s]
    BY <1>1, <2>1
  <2>3. /\ Len(stream') = Len(stream) /\ Gens' = Gens
        /\ \A k \in Gens : stream'[k].st = IF k = g THEN s ELSE stream[k].st
    BY <2>2, StreamMoved
  <2> QED
    BY <1>2, <2>3
<1>4. Activity(still, asked)' = Activity(still, asked)
  <2>1. UNCHANGED <<sessionBox, llmBox, toolBox, job, hand, batch>>
    BY <1>1
  <2>2. /\ Acting(still, {"open", "tokens"})' <=> Acting(still, {"open", "tokens"})
        /\ Acting(still, {"handoff"})' <=> Acting(still, {"handoff"})
    BY <1>3 DEF Acting
  <2> QED
    BY <2>1, <2>2 DEF Activity
<1>5. OneActivity(still, asked)'
  BY <1>1, <1>4 DEF Solo, OneActivity
<1>6. MailInOrder'
  BY <1>1 DEF Solo, MailInOrder
<1>7. LastGeneration(still)'
  BY <1>1, <1>3 DEF Solo, LastGeneration, Unopened
<1>8. ToolsAwaited(still, asked)'
  BY <1>1, <1>4 DEF Solo, ToolsAwaited
<1>9. ToolsAnswer'
  BY <1>1 DEF Solo, ToolsAnswer, Reported
<1> QED
  BY <1>5, <1>6, <1>7, <1>8, <1>9 DEF Solo

\* The orchestrator starts the batch, there being none.
LEMMA ExecuteSolo ==
  ASSUME TypeOK, TypeOK', NEW still, NEW asked, Solo(still, asked), ExecuteToolBatch
  PROVE  Solo(still, asked)'
<1> USE DEF sessionVars, llmVars, toolVars, userVars
<1>0. MailInOrder
  BY DEF Solo
<1>1. PICK h \in ToolMsg :
        /\ h = Head(toolBox) /\ h.type = "ExecuteToolBatch"
        /\ ToolMail(toolBox') /\ Mail(toolBox) = Mail(toolBox') \cup {h}
        /\ h \in ExecMsg => ~Carrying(toolBox', ExecMsg)
        /\ h \in ExecMsg => ~Carrying(toolBox, CancelBatchMsg)
  BY <1>0, ToolTakes DEF ExecuteToolBatch
<1>2. h \in ExecMsg /\ h \notin ResultMsg \cup CancelBatchMsg
  BY <1>1, Sorts
<1>3. Activity(still, asked) = {"execute"} /\ phase # "Idle"
  <2>1. "execute" \in Activity(still, asked)
    BY <1>1, <1>2 DEF Activity, Carrying
  <2> QED
    BY <2>1 DEF Solo, OneActivity
<1>4. h.gen # 0 /\ batch = 0 /\ running = {} /\ ~Carrying(toolBox, ResultMsg)
  <2>1. batch = 0
    BY <1>3, Absent
  <2> QED
    BY <1>1, <1>2, <2>1 DEF Solo, ToolsAnswer
<1>5. /\ batch' = h.gen /\ running' = {h.gen}
      /\ UNCHANGED <<llmBox, sessionBox, bridge, job, hand, stream, pendingBatch, answered, guard,
                     phase, aborted, task>>
  BY <1>1, <1>4 DEF ExecuteToolBatch
<1>6. Activity(still, asked)' = {"batch"}
  <2>1. UNCHANGED <<sessionBox, llmBox, job, hand, stream>>
    BY <1>5
  <2>2. Activity(still, asked)' \subseteq {"batch"} \cup Activity(still, asked)
    BY <1>1, <2>1 DEF Activity, Carrying, Acting, Gens
  <2>3. "execute" \notin Activity(still, asked)'
    BY <1>1, <1>2 DEF Activity
  <2>4. "batch" \in Activity(still, asked)'
    BY <1>4, <1>5 DEF Activity
  <2> QED
    BY <1>3, <2>2, <2>3, <2>4
<1>7. OneActivity(still, asked)'
  BY <1>3, <1>5, <1>6 DEF OneActivity
<1>8. MailInOrder'
  BY <1>0, <1>1, <1>5 DEF MailInOrder
<1>9. LastGeneration(still)'
  BY <1>5 DEF Solo, LastGeneration, Unopened, Gens
<1>10. ToolsAwaited(still, asked)'
  <2>1. Activity(still, asked) \cap UsingTools # {} /\ Activity(still, asked)' \cap UsingTools # {}
    BY <1>3, <1>6 DEF UsingTools
  <2> QED
    BY <1>4, <1>5, <2>1 DEF Solo, ToolsAwaited
<1>11. ToolsAnswer'
  <2>1. ~Carrying(toolBox', ResultMsg) /\ ~Carrying(toolBox', CancelBatchMsg) /\ Mail(toolBox') \cap ExecMsg = {}
    BY <1>1, <1>2, <1>4 DEF Carrying
  <2> QED
    BY <1>4, <1>5, <2>1 DEF Solo, ToolsAnswer, Reported
<1> QED
  BY <1>7, <1>8, <1>9, <1>10, <1>11 DEF Solo

\* A cancel meets no batch.
LEMMA CancelBatchSolo ==
  ASSUME TypeOK, TypeOK', NEW still, NEW asked, Solo(still, asked), CancelToolBatch
  PROVE  Solo(still, asked)' /\ running' = running
<1> USE DEF sessionVars, llmVars, toolVars, userVars
<1>0. MailInOrder
  BY DEF Solo
<1>1. PICK h \in ToolMsg :
        /\ h = Head(toolBox) /\ h.type = "CancelToolBatch"
        /\ ToolMail(toolBox') /\ Mail(toolBox) = Mail(toolBox') \cup {h}
  BY <1>0, ToolTakes DEF CancelToolBatch
<1>2. h \in CancelBatchMsg /\ h \notin ExecMsg \cup ResultMsg
  BY <1>1, Sorts
<1>3. batch = 0 /\ running = {} /\ ~Carrying(toolBox, ResultMsg)
  <2>1. batch = 0
    BY <1>1, <1>2 DEF Solo, ToolsAnswer, Carrying
  <2> QED
    BY <2>1 DEF Solo, ToolsAnswer
<1>4. UNCHANGED <<llmBox, sessionBox, bridge, job, hand, stream, pendingBatch, answered, guard,
                     phase, aborted, task, batch, running>>
  BY <1>3 DEF CancelToolBatch
<1>5. Activity(still, asked)' = Activity(still, asked)
  BY <1>1, <1>2, <1>4 DEF Activity, Carrying, Acting, Gens
<1>6. OneActivity(still, asked)'
  BY <1>4, <1>5 DEF Solo, OneActivity
<1>7. MailInOrder'
  BY <1>0, <1>1, <1>4 DEF MailInOrder
<1>8. LastGeneration(still)'
  BY <1>4 DEF Solo, LastGeneration, Unopened, Gens
<1>9. ToolsAwaited(still, asked)'
  BY <1>4, <1>5 DEF Solo, ToolsAwaited
<1>10. ToolsAnswer'
  BY <1>1, <1>3, <1>4 DEF Solo, ToolsAnswer, Reported, Carrying
<1> QED
  BY <1>4, <1>6, <1>7, <1>8, <1>9, <1>10 DEF Solo

\* The batch's last result is counted: the session, which has it, is told.
LEMMA CountSolo ==
  ASSUME TypeOK, TypeOK', NEW still, NEW asked, Solo(still, asked), CountToolResult
  PROVE  Solo(still, asked)'
<1> USE DEF sessionVars, llmVars, toolVars, userVars
<1>0. MailInOrder
  BY DEF Solo
<1>1. PICK h \in ToolMsg :
        /\ h = Head(toolBox) /\ h.type = "ToolExecutionCompleted"
        /\ ToolMail(toolBox') /\ Mail(toolBox) = Mail(toolBox') \cup {h}
        /\ h \in ResultMsg => ~Carrying(toolBox', ResultMsg)
  BY <1>0, ToolTakes DEF CountToolResult
<1>2. h \in ResultMsg /\ h \notin ExecMsg \cup CancelBatchMsg
  BY <1>1, Sorts
<1>3. batch # 0 /\ batch \in Nat /\ running = {} /\ Reported(batch)
  BY <1>1, <1>2 DEF Solo, ToolsAnswer, Carrying, TypeOK
<1>4. Activity(still, asked) = {"batch"} /\ phase # "Idle"
  <2>1. "batch" \in Activity(still, asked)
    BY <1>3 DEF Activity
  <2> QED
    BY <2>1 DEF Solo, OneActivity
<1>5. /\ batch' = 0 /\ sessionBox' = Append(sessionBox, Note("ToolBatchCompleted", batch))
      /\ UNCHANGED <<llmBox, bridge, job, hand, stream, pendingBatch, answered, guard,
                     phase, aborted, task, running>>
  BY <1>3 DEF CountToolResult
<1>6. PICK m \in SessionMsg : /\ m = Note("ToolBatchCompleted", batch) /\ m.type = "ToolBatchCompleted"
                              /\ m.gen = batch
  <2>1. Note("ToolBatchCompleted", batch) \in SessionMsg
    BY <1>3 DEF Note, SessionMsg, BatchMsg
  <2> QED
    BY <2>1 DEF Note
<1>7. /\ m \in DoneMsg
      /\ m \notin RetryMsg \cup EndMsg \cup UseMsg \cup TokenMsg \cup ResultMsg \cup SendMsg
  BY <1>6, Sorts
<1>8. ~Carrying(sessionBox, DoneMsg)
  BY <1>4, Absent
<1>9. SessionMail(sessionBox') /\ Mail(sessionBox') = Mail(sessionBox) \cup {m}
  BY <1>0, <1>5, <1>6, <1>7, <1>8, SessionGets
<1>10. Activity(still, asked)' = {"done"}
  <2>1. UNCHANGED <<llmBox, job, hand, stream>> /\ batch' = 0
    BY <1>5
  <2>2. Mail(toolBox') \subseteq Mail(toolBox)
    BY <1>1
  <2>3. Activity(still, asked)' \subseteq {"done"} \cup Activity(still, asked)
    BY <1>7, <1>9, <2>1, <2>2 DEF Activity, Carrying, Acting, Gens
  <2>4. "batch" \notin Activity(still, asked)'
    BY <2>1 DEF Activity
  <2>5. "done" \in Activity(still, asked)'
    BY <1>7, <1>9 DEF Activity, Carrying
  <2> QED
    BY <1>4, <2>3, <2>4, <2>5
<1>11. OneActivity(still, asked)'
  BY <1>4, <1>5, <1>10 DEF OneActivity
<1>12. MailInOrder'
  BY <1>0, <1>1, <1>5, <1>9 DEF MailInOrder
<1>13. LastGeneration(still)'
  BY <1>5, <1>7, <1>9 DEF Solo, LastGeneration, Unopened, Gens
<1>14. ToolsAwaited(still, asked)'
  <2>1. Activity(still, asked) \cap UsingTools # {} /\ Activity(still, asked)' \cap UsingTools # {}
    BY <1>4, <1>10 DEF UsingTools
  <2> QED
    BY <1>5, <1>7, <1>9, <2>1 DEF Solo, ToolsAwaited, Carrying
<1>15. ToolsAnswer'
  <2>1. \A b : Reported(b) => Reported(b)'
    BY <1>5, <1>9 DEF Reported
  <2>2. \A x \in Mail(sessionBox') \cap DoneMsg : x = m
    BY <1>8, <1>9 DEF Carrying
  <2>3. ~Carrying(toolBox', ResultMsg) /\ running' = {} /\ batch' = 0
    BY <1>1, <1>2, <1>3, <1>5
  <2>4. \A x \in Mail(toolBox') \cap ExecMsg : x.gen # 0
    BY <1>1 DEF Solo, ToolsAnswer
  <2>5. Reported(m.gen)'
    BY <1>3, <1>6, <2>1
  <2>6. Dispatching(job') /\ job'.origin = "ToolContinuation" => job'.batch \in answered'
    BY <1>5 DEF Solo, ToolsAnswer
  <2> QED
    BY <2>2, <2>3, <2>4, <2>5, <2>6 DEF ToolsAnswer
<1> QED
  BY <1>11, <1>12, <1>13, <1>14, <1>15 DEF Solo

\* A tool returns.
LEMMA ToolSolo ==
  ASSUME TypeOK, TypeOK', NEW still, NEW asked, Solo(still, asked), NEW g \in running, ToolFinishes(g)
  PROVE  Solo(still, asked)'
<1> USE DEF sessionVars, llmVars, toolVars, userVars
<1>0. MailInOrder
  BY DEF Solo
<1>1. g = batch /\ batch # 0 /\ batch \in Nat /\ running = {batch} /\ ~Carrying(toolBox, ResultMsg)
  BY DEF Solo, ToolsAnswer, TypeOK
<1>2. Activity(still, asked) = {"batch"} /\ phase # "Idle"
  <2>1. "batch" \in Activity(still, asked)
    BY <1>1 DEF Activity
  <2> QED
    BY <2>1 DEF Solo, OneActivity
<1>3. /\ running' = {}
      /\ sessionBox' = Append(sessionBox, Note("ToolExecutionCompleted", batch))
      /\ toolBox' = Append(toolBox, Note("ToolExecutionCompleted", batch))
      /\ UNCHANGED <<llmBox, bridge, job, hand, stream, pendingBatch, answered, guard,
                     phase, aborted, task, batch>>
  BY <1>1 DEF ToolFinishes
<1>4. PICK m \in SessionMsg : /\ m = Note("ToolExecutionCompleted", batch) /\ m \in ToolMsg
                              /\ m.type = "ToolExecutionCompleted"
  <2>1. Note("ToolExecutionCompleted", batch) \in SessionMsg
        /\ Note("ToolExecutionCompleted", batch) \in ToolMsg
    BY <1>1 DEF Note, SessionMsg, ToolMsg, BatchMsg
  <2> QED
    BY <2>1 DEF Note
<1>5. /\ m \in ResultMsg
      /\ m \notin RetryMsg \cup EndMsg \cup UseMsg \cup TokenMsg \cup DoneMsg \cup SendMsg
      /\ m \notin ExecMsg \cup CancelBatchMsg
  BY <1>4, Sorts
<1>6. ~Carrying(sessionBox, DoneMsg)
  BY <1>2, Absent
<1>7. SessionMail(sessionBox') /\ Mail(sessionBox') = Mail(sessionBox) \cup {m}
  BY <1>0, <1>3, <1>4, <1>5, <1>6, SessionGets
<1>8. ToolMail(toolBox') /\ Mail(toolBox') = Mail(toolBox) \cup {m}
  BY <1>0, <1>1, <1>3, <1>4, <1>5, ToolGets
<1>9. Activity(still, asked)' = Activity(still, asked)
  <2>1. UNCHANGED <<llmBox, job, hand, stream, batch>>
    BY <1>3
  <2> QED
    BY <1>5, <1>7, <1>8, <2>1 DEF Activity, Carrying, Acting, Gens
<1>10. OneActivity(still, asked)'
  BY <1>2, <1>3, <1>9 DEF OneActivity
<1>11. MailInOrder'
  BY <1>0, <1>3, <1>7, <1>8 DEF MailInOrder
<1>12. LastGeneration(still)'
  BY <1>3, <1>5, <1>7 DEF Solo, LastGeneration, Unopened, Gens
<1>13. ToolsAwaited(still, asked)'
  BY <1>1, <1>3, <1>5, <1>7, <1>9 DEF Solo, ToolsAwaited, Carrying
<1>14. ToolsAnswer'
  <2>1. (\A b : Reported(b) => Reported(b)') /\ Reported(batch)'
    BY <1>3, <1>4, <1>7 DEF Reported
  <2>2. Mail(sessionBox') \cap DoneMsg \subseteq Mail(sessionBox) \cap DoneMsg
    BY <1>5, <1>7
  <2>3. Mail(toolBox') \cap ExecMsg \subseteq Mail(toolBox) /\ Carrying(toolBox', ResultMsg)
    BY <1>5, <1>8 DEF Carrying
  <2>4. ~Carrying(toolBox', CancelBatchMsg)
    BY <1>1, <1>5, <1>8 DEF Solo, ToolsAnswer, Carrying
  <2> QED
    BY <1>1, <1>3, <2>1, <2>2, <2>3, <2>4 DEF Solo, ToolsAnswer
<1> QED
  BY <1>10, <1>11, <1>12, <1>13, <1>14 DEF Solo

\* The steps of a turn that nobody cancels and no dispatch overtakes; the streams of
\* still are not heard of.
SoloNext(still) ==
  \/ Frontend /\ ~(EscConfirm \/ Interrupt)
  \/ \E m \in bridge : BridgePublish(m)
  \/ (SessionActor \/ Queue) /\ (PushPopped \/ ResumeTurn => phase = "Idle")
  \/ Llm \/ Orchestrator
  \/ \E g \in Gens \ still : StreamTask(g)
  \/ \E g \in Gens : StreamStops(g)
  \/ \E g \in running : ToolFinishes(g)

LEMMA SoloInit ==
  ASSUME Init, NEW still
  PROVE  Solo(still, FALSE)
<1>1. /\ Mail(sessionBox) = {} /\ Mail(llmBox) = {} /\ Mail(toolBox) = {}
      /\ \A kind : At(sessionBox, kind) = {} /\ At(llmBox, kind) = {} /\ At(toolBox, kind) = {}
      /\ Gens = {} /\ Len(stream) = 0
  BY DEF Init, Mail, At, Gens
<1>2. Activity(still, FALSE) = {}
  BY <1>1 DEF Init, Activity, Carrying, Acting, Dispatching, NoJob, NoHand
<1>3. OneActivity(still, FALSE)
  BY <1>2 DEF OneActivity
<1>4. MailInOrder
  BY <1>1 DEF Init, MailInOrder, SessionMail, LlmMail, ToolMail, Once, Before
<1>5. LastGeneration(still)
  BY <1>1 DEF Init, LastGeneration, NoJob
<1>6. ToolsAwaited(still, FALSE)
  BY <1>1, <1>2 DEF Init, ToolsAwaited, Carrying
<1>7. ToolsAnswer
  BY <1>1 DEF Init, ToolsAnswer, Carrying, Dispatching, NoJob
<1> QED
  BY <1>3, <1>4, <1>5, <1>6, <1>7 DEF Solo

LEMMA SoloStep ==
  ASSUME TypeOK, TypeOK', NEW still, NEW asked, Solo(still, asked), SoloNext(still)
  PROVE  Solo(still, asked)'
<1>1. CASE Frontend /\ ~(EscConfirm \/ Interrupt)
  <2>1. (\E new \in SUBSET Msgs, mode \in Modes : Submit(new, mode)) \/ AskCancel \/ RequestResume
    BY <1>1 DEF Frontend
  <2> QED
    BY <2>1, FrontendSolo
<1>2. CASE SessionActor /\ (PushPopped \/ ResumeTurn => phase = "Idle")
  <2>1. CASE HandleStreamCompleted
    BY <2>1, ToolUseSolo, EndSolo
  <2>2. CASE ~HandleStreamCompleted
    BY <1>2, <2>2, UserSolo, RetrySolo, DispatchSolo, BeginSolo, SendsSolo, TokenSolo, ResultSolo,
       DoneSolo DEF SessionActor
  <2> QED
    BY <2>1, <2>2
<1>3. CASE Queue /\ (PushPopped \/ ResumeTurn => phase = "Idle")
  BY <1>3, QueueSolo, SendsSolo DEF Queue
<1>4. CASE Llm
  BY <1>4, StartSolo, UntrackSolo, CancelSolo DEF Llm
<1>5. CASE Orchestrator
  BY <1>5, ExecuteSolo, CancelBatchSolo, CountSolo DEF Orchestrator
<1>6. ASSUME NEW g \in Gens \ still, StreamTask(g)
      PROVE  Solo(still, asked)'
  BY <1>6, FirstTokenSolo, StreamEndSolo, HandOffSolo, StopSolo DEF StreamTask
<1>7. ASSUME NEW g \in Gens, StreamStops(g)
      PROVE  Solo(still, asked)'
  BY <1>7, StopSolo
<1>8. ASSUME NEW g \in running, ToolFinishes(g)
      PROVE  Solo(still, asked)'
  BY <1>8, ToolSolo
<1>9. ASSUME NEW m \in bridge, BridgePublish(m)
      PROVE  Solo(still, asked)'
  BY <1>9, BridgeSolo
<1> QED
  BY <1>1, <1>2, <1>3, <1>4, <1>5, <1>6, <1>7, <1>8, <1>9 DEF SoloNext

\* A turn that stands still.
LEMMA SoloStands ==
  ASSUME NEW still, NEW asked, Solo(still, asked), UNCHANGED vars
  PROVE  Solo(still, asked)'
<1>1. UNCHANGED <<llmBox, toolBox, sessionBox, bridge, hand, job, stream, batch, aborted, task,
                  pendingBatch, running, answered, guard, phase>>
  BY DEF vars, sessionVars, llmVars, toolVars, userVars
<1>2. Activity(still, asked)' = Activity(still, asked)
  BY <1>1 DEF Activity, Acting, Gens
<1>3. OneActivity(still, asked)'
  BY <1>1, <1>2 DEF OneActivity, Solo
<1>4. MailInOrder'
  BY <1>1 DEF Solo, MailInOrder
<1>5. LastGeneration(still)'
  BY <1>1 DEF Solo, LastGeneration, Unopened, Gens
<1>6. ToolsAwaited(still, asked)'
  BY <1>1, <1>2 DEF Solo, ToolsAwaited
<1>7. ToolsAnswer'
  BY <1>1 DEF Solo, ToolsAnswer, Reported
<1> QED
  BY <1>3, <1>4, <1>5, <1>6, <1>7 DEF Solo

-----------------------------------------------------------------------------
\* Nobody cancels the turn, and no dispatch overtakes another: the popped entry and the
\* resume find the session at rest, as it was when they were chosen.
Undisturbed == /\ ~(EscConfirm \/ Interrupt)
               /\ PushPopped \/ ResumeTurn => phase = "Idle"

LEMMA SoloInvariant ==
  Spec /\ [][Undisturbed /\ ~Plugins]_vars => [](TypeOK /\ Solo({}, FALSE))
<1>1. Init => Solo({}, FALSE)
  BY SoloInit
<1>2. ASSUME TypeOK, TypeOK', Solo({}, FALSE), [Next]_vars, [Undisturbed /\ ~Plugins]_vars
      PROVE  Solo({}, FALSE)'
  <2>1. PICK still, asked : still = {} /\ asked = FALSE
    OBVIOUS
  <2>2. Solo(still, asked)
    BY <1>2, <2>1
  <2>3. SoloNext(still) \/ UNCHANGED vars
    BY <1>2, <2>1 DEF SoloNext, Undisturbed, Next
  <2>4. Solo(still, asked)'
    BY <1>2, <2>2, <2>3, SoloStep, SoloStands
  <2> QED
    BY <2>1, <2>4
<1>3. TypeOK /\ TypeOK' /\ Solo({}, FALSE) /\ [Next]_vars /\ [Undisturbed /\ ~Plugins]_vars
        => Solo({}, FALSE)'
  BY <1>2
<1> QED
  BY <1>1, <1>3, TypeCorrect, PTL DEF Spec

\* In a turn that nobody cancels, that no plugin acts on and in which no dispatch overtakes
\* another, a continuation is assembled from a history that holds the result of the batch
\* it continues: the result is handled before the end of its batch, and while it is, the
\* session waits for it.
THEOREM ContinuationsAnswered ==
  Spec /\ [][Undisturbed /\ ~Plugins]_vars => []ContinuedWithResult
<1>1. TypeOK /\ Solo({}, FALSE) => ContinuedWithResult
  BY DEF Solo, ToolsAnswer, ContinuedWithResult, Dispatching
<1> QED
  BY <1>1, SoloInvariant, PTL

================================================================================
