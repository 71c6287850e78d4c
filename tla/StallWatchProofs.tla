------------------------- MODULE StallWatchProofs -------------------------
(* The turn under the stall watchdog keeps the invariants TurnEngineProofs   *)
(* proves of the turn alone: what the plugin reads changes nothing, and what *)
(* it asks for arrives as a message like any other.  Of a turn that nobody   *)
(* else disturbs, the timer says the truth.                                  *)
EXTENDS StallWatch, TurnEngineProofs

-----------------------------------------------------------------------------
(* What the watchdog adds to the turn. *)

WatchStateOK ==
  /\ feed \in Seq(Events) /\ asks \in Seq({"restart", "cancel"})
  /\ watch \in [armed : BOOLEAN, restarts : 0..MaxRestarts]
  /\ hung \subseteq Gens

WatchInv == TypeOK /\ Streams /\ WatchStateOK

\* Everything the coordinator passes on is an event the guest knows.
LEMMA EventsHeard == Heard \in Seq(Events)
<1>1. \A m : Event(m) \in Events
  BY DEF Event, Events
<1> QED
  BY <1>1 DEF Heard

\* The steps of the frontend, the actors and the tasks are steps of the turn.
LEMMA WorkIsTurn ==
  ASSUME WatchInv, Frontend \/ Work
  PROVE  Next
BY DEF Work, Next, StreamTask, WatchInv, WatchStateOK

\* A turn never forgets a generation.
LEMMA GenerationsStay ==
  ASSUME TypeOK, [Next]_vars
  PROVE  Gens \subseteq Gens'
<1> USE DEF sessionVars, llmVars, toolVars, userVars
<1> SUFFICES \/ UNCHANGED stream
             \/ \E o \in Nat, s \in StreamStates :
                  stream' = Append(stream, [of |-> o, st |-> s])
             \/ \E g \in Nat, s \in StreamStates : stream' = [stream EXCEPT ![g].st = s]
  <2>1. CASE UNCHANGED stream
    BY <2>1 DEF Gens
  <2>2. ASSUME NEW o \in Nat, NEW s \in StreamStates,
               stream' = Append(stream, [of |-> o, st |-> s])
        PROVE  Gens \subseteq Gens'
    BY <2>2, AppendProperties DEF TypeOK, Gens
  <2>3. ASSUME NEW g \in Nat, NEW s \in StreamStates, stream' = [stream EXCEPT ![g].st = s]
        PROVE  Gens \subseteq Gens'
    BY <2>3 DEF TypeOK, Gens
  <2> QED
    BY <2>1, <2>2, <2>3
<1>2. \A s \in {"stamped", "dropped", "open", "ended"} : s \in StreamStates
  BY DEF StreamStates
<1>3. CASE Frontend \/ Plugins \/ \E m \in bridge : BridgePublish(m)
  BY <1>3 DEF Frontend, Plugins, Submit, AskCancel, EscConfirm, Interrupt, RequestResume,
              OutsideCancel, StallTrip, BridgePublish
<1>4. CASE BeginDispatch \/ SendDispatch
  <2>1. job.batch \in Nat
    BY <1>4, JobClosed DEF BeginDispatch, SendDispatch, TypeOK
  <2>2. UNCHANGED stream \/ stream' = Append(stream, [of |-> job.batch, st |-> "stamped"])
    BY <1>4 DEF BeginDispatch, SendDispatch, Stamped
  <2> QED
    BY <1>2, <2>1, <2>2
<1>5. CASE SessionActor /\ ~(BeginDispatch \/ SendDispatch)
  BY <1>5 DEF SessionActor, HandleEnqueueUserMessage, HandleSubmitSteeringMessage,
              HandleEnqueueResumeTurn, ResumeTurn, HandleRetryStalledSession,
              DrainSteering, HandleSendToLlmProvider, HandleStreamToken,
              HandleStreamCompleted, HandleToolExecutionCompleted, HandleToolBatchCompleted
<1>6. CASE Queue
  BY <1>2, <1>6 DEF Queue, PopOnIdle, PushPopped, SendPopped, Stamped
<1>7. CASE DropContinuation \/ StartStream
  <2>1. Head(llmBox).gen \in Nat
    BY <1>7, LlmHead, MessageFields DEF TypeOK, DropContinuation, StartStream
  <2>2. \E s \in {"dropped", "open", "ended"} :
          stream' = [stream EXCEPT ![Head(llmBox).gen].st = s]
    BY <1>7 DEF DropContinuation, StartStream
  <2> QED
    BY <1>2, <2>1, <2>2
<1>8. CASE UntrackCompleted \/ CancelStream
  <2>1. UNCHANGED stream \/ stream' = Append(stream, [of |-> 0, st |-> "ended"])
    BY <1>8 DEF UntrackCompleted, CancelStream
  <2> QED
    BY <1>2, <2>1
<1>9. ASSUME NEW g \in Gens, StreamTask(g)
      PROVE  \E h \in Nat, s \in StreamStates : stream' = [stream EXCEPT ![h].st = s]
  <2>1. \E s \in StreamStates : stream' = [stream EXCEPT ![g].st = s]
    BY <1>9 DEF StreamTask, FirstToken, StreamFinishes, StreamFails, StreamUsesTools,
                HandOffBatch, StreamStops, StreamStep, StreamStates
  <2>2. g \in Nat
    BY LenProperties DEF TypeOK, Gens
  <2> QED
    BY <2>1, <2>2
<1>10. CASE Orchestrator \/ \E g \in running : ToolFinishes(g)
  BY <1>10 DEF Orchestrator, ExecuteToolBatch, CancelToolBatch, CountToolResult, ToolFinishes
<1>11. CASE UNCHANGED vars
  BY <1>11 DEF vars
<1> QED
  BY <1>3, <1>4, <1>5, <1>6, <1>7, <1>8, <1>9, <1>10, <1>11 DEF Next, Llm

\* A step of the turn that the coordinator overhears.
LEMMA TurnOverheard ==
  ASSUME WatchInv, Watched(Frontend) \/ Watched(Work)
  PROVE  WatchInv'
<1>1. Next
  BY WorkIsTurn DEF Watched
<1>2. TypeOK' /\ Streams' /\ Gens \subseteq Gens'
  BY <1>1, TypesStep, StreamsStep, GenerationsStay DEF WatchInv
<1>3. feed' = feed \o Heard /\ UNCHANGED <<watch, asks, hung>>
  BY DEF Watched
<1>4. feed' \in Seq(Events)
  <2>1. feed \in Seq(Events)
    BY DEF WatchInv, WatchStateOK
  <2> QED
    BY <1>3, <2>1, EventsHeard, ConcatProperties
<1> QED
  BY <1>2, <1>3, <1>4 DEF WatchInv, WatchStateOK

\* The turn stands still while the guest reads, while a window ends and while a
\* provider falls silent.
LEMMA TurnStands ==
  ASSUME WatchInv, UNCHANGED vars
  PROVE  TypeOK' /\ Streams' /\ Gens' = Gens
<1>1. TypeOK' /\ Streams'
  BY TypesStep, StreamsStep DEF WatchInv
<1>2. Gens' = Gens
  BY DEF vars, Gens
<1> QED
  BY <1>1, <1>2

LEMMA GuestReads ==
  ASSUME WatchInv, ReadEvent
  PROVE  WatchInv'
<1>1. feed \in Seq(Events) /\ feed # <<>>
  BY DEF WatchInv, WatchStateOK, ReadEvent
<1>2. Head(feed) \in Events /\ Tail(feed) \in Seq(Events)
  BY <1>1
<1>3. watch \in [armed : BOOLEAN, restarts : 0..MaxRestarts] /\ 0 \in 0..MaxRestarts
  BY RestartsAssumption DEF WatchInv, WatchStateOK
<1>4. \A event \in Events : Seen(event) \in [armed : BOOLEAN, restarts : 0..MaxRestarts]
  BY <1>3 DEF Seen, Unwatched, Events
<1> QED
  BY <1>2, <1>4, TurnStands DEF ReadEvent, WatchInv, WatchStateOK

LEMMA TimerTrips ==
  ASSUME WatchInv, Trip
  PROVE  WatchInv'
<1>1. watch \in [armed : BOOLEAN, restarts : 0..MaxRestarts]
  BY DEF WatchInv, WatchStateOK
<1>2. MayRestart => watch.restarts + 1 \in 0..MaxRestarts
  BY <1>1, RestartsAssumption DEF MayRestart
<1>3. watch' \in [armed : BOOLEAN, restarts : 0..MaxRestarts]
  BY <1>1, <1>2 DEF Trip
<1>4. asks \in Seq({"restart", "cancel"})
  BY DEF WatchInv, WatchStateOK
<1>5. asks' \in Seq({"restart", "cancel"})
  BY <1>4 DEF Trip
<1> QED
  BY <1>3, <1>5, TurnStands DEF Trip, WatchInv, WatchStateOK

LEMMA AskApplied ==
  ASSUME WatchInv, ApplyAsk
  PROVE  WatchInv'
<1>1. asks' \in Seq({"restart", "cancel"})
  BY DEF WatchInv, WatchStateOK, ApplyAsk
<1>2. /\ [type |-> "RetryStalledSession"] \in SessionMsg
      /\ [type |-> "CancelStream", nth |-> 0] \in LlmMsg
  BY DEF SessionMsg, RetryMsg, LlmMsg, CancelMsg
<1>3. /\ sessionBox \in Seq(SessionMsg) /\ llmBox \in Seq(LlmMsg)
  BY DEF WatchInv, TypeOK
<1>4. /\ sessionBox' \in Seq(SessionMsg) /\ llmBox' \in Seq(LlmMsg)
  <2>1. CASE Head(asks) = "restart"
    <3>1. /\ sessionBox' = Append(sessionBox, [type |-> "RetryStalledSession"])
          /\ llmBox' = llmBox
      BY <2>1 DEF ApplyAsk
    <3> QED
      BY <1>2, <1>3, <3>1, AppendProperties
  <2>2. CASE Head(asks) # "restart"
    <3>1. /\ llmBox' = Append(llmBox, [type |-> "CancelStream", nth |-> 0])
          /\ sessionBox' = sessionBox
      BY <2>2 DEF ApplyAsk
    <3> QED
      BY <1>2, <1>3, <3>1, AppendProperties
  <2> QED
    BY <2>1, <2>2
<1>5. TypeOK'
  BY <1>4 DEF ApplyAsk, WatchInv, TypeOK, sessionVars, llmVars, toolVars, userVars
<1>6. Streams' /\ Gens' = Gens
  BY StreamsUntouched DEF ApplyAsk, WatchInv, LiveVars, llmVars, Gens
<1> QED
  BY <1>1, <1>5, <1>6 DEF ApplyAsk, WatchInv, WatchStateOK

LEMMA WatchStep == WatchInv /\ [WatchNext]_allVars => WatchInv'
<1> SUFFICES ASSUME WatchInv, [WatchNext]_allVars
             PROVE  WatchInv'
  OBVIOUS
<1>1. ASSUME NEW g \in Gens, Hang(g)
      PROVE  WatchInv'
  BY <1>1, TurnStands DEF Hang, WatchInv, WatchStateOK
<1>2. CASE UNCHANGED allVars
  BY <1>2, TurnStands DEF allVars, watchVars, WatchInv, WatchStateOK
<1> QED
  BY <1>1, <1>2, TurnOverheard, GuestReads, TimerTrips, AskApplied DEF WatchNext, Guest

LEMMA WatchInvariant == WatchSpec => []WatchInv
<1>1. WatchInit => WatchInv
  <2>1. WatchInit => TypeOK /\ Streams
    BY TypesInit, StreamsInit DEF WatchInit
  <2>2. 0 \in 0..MaxRestarts
    BY RestartsAssumption
  <2> QED
    BY <2>1, <2>2 DEF WatchInit, WatchInv, WatchStateOK, Unwatched
<1> QED
  BY <1>1, WatchStep, PTL DEF WatchSpec

-----------------------------------------------------------------------------
\* Every variable of the turn and of the watchdog holds a value of its kind: the guest
\* reads only events it knows, and it never spends a restart it does not have.
THEOREM WatchTypeCorrect == WatchSpec => []WatchTypeOK
<1>1. WatchInv => WatchTypeOK
  BY DEF WatchInv, WatchStateOK, WatchTypeOK
<1> QED
  BY <1>1, WatchInvariant, PTL

\* However many streams hang and whatever the watchdog asks for meanwhile, at most one
\* stream of the session is live: a restart never leaves the stalled one behind it.
THEOREM OneStreamUnderWatch == WatchSpec => []OneLiveStream
<1>1. WatchInv => OneLiveStream
  BY DEF WatchInv, Streams
<1> QED
  BY <1>1, WatchInvariant, PTL

\* A session the watchdog has given up on is silent until a send that continues nothing: no
\* tool loop its cancel met comes back to life.
THEOREM SilentAfterGivingUp == WatchSpec => []CancelledSessionIsSilent
<1>1. WatchInv => CancelledSessionIsSilent
  BY DEF WatchInv, Streams
<1> QED
  BY <1>1, WatchInvariant, PTL

-----------------------------------------------------------------------------
(* The watchdog on a turn that is one activity. *)

\* What the guest will know of the stream when it has read everything: its timer runs.
Verdict ==
  \/ \E i \in DOMAIN feed : feed[i] = "start" /\ \A j \in DOMAIN feed : j > i => feed[j] = "ping"
  \/ watch.armed /\ \A j \in DOMAIN feed : feed[j] = "ping"

Talking == \E g \in Gens : Open(g)
Requested == Carrying(llmBox, SendMsg)
Cancelling == Carrying(llmBox, CancelMsg) \/ \E i \in DOMAIN asks : asks[i] = "cancel"

\* A stream that is open, or about to be, is watched unless it is given up; what is
\* watched is a turn that has not ended, and one request at a time is made of it.
Heeds ==
  /\ Requested \/ Talking => Cancelling \/ Verdict
  /\ Verdict => phase # "Idle"
  /\ Carrying(sessionBox, EndMsg) => ~Verdict
  /\ Len(asks) <= 1

-----------------------------------------------------------------------------
\* One event more at the end of the feed decides the verdict, or leaves it.
LEMMA FeedGrows ==
  ASSUME feed \in Seq(Events), NEW e \in Events, feed' = Append(feed, e), watch' = watch
  PROVE  /\ e = "start" => Verdict'
         /\ e = "ping" => (Verdict' <=> Verdict)
         /\ e \in {"finished", "stopped"} => ~Verdict'
<1>1. /\ Len(feed) \in Nat /\ DOMAIN feed = 1..Len(feed) /\ DOMAIN feed' = 1..(Len(feed) + 1)
      /\ \A i \in 1..Len(feed) : feed'[i] = feed[i]
      /\ feed'[Len(feed) + 1] = e
  OBVIOUS
<1>2. PICK n \in Nat : n = Len(feed) + 1
  BY <1>1
<1>3. /\ n \in DOMAIN feed' /\ feed'[n] = e
      /\ \A i : i \in DOMAIN feed' <=> i \in DOMAIN feed \/ i = n
      /\ \A i \in DOMAIN feed : i \in Nat /\ i < n /\ feed'[i] = feed[i]
  BY <1>1, <1>2
<1>4. ASSUME e = "start"
      PROVE  Verdict'
  <2>1. \A j \in DOMAIN feed' : ~(j > n)
    BY <1>3
  <2> QED
    BY <1>3, <1>4, <2>1 DEF Verdict
<1>5. ASSUME e = "ping"
      PROVE  Verdict' <=> Verdict
  <2>1. (\A j \in DOMAIN feed' : feed'[j] = "ping") <=> (\A j \in DOMAIN feed : feed[j] = "ping")
    BY <1>3, <1>5
  <2>2. ASSUME NEW i \in DOMAIN feed
        PROVE  (\A j \in DOMAIN feed' : j > i => feed'[j] = "ping")
                 <=> (\A j \in DOMAIN feed : j > i => feed[j] = "ping")
    BY <1>3, <1>5, <2>2
  <2>3. (\E i \in DOMAIN feed' : feed'[i] = "start" /\ \A j \in DOMAIN feed' : j > i => feed'[j] = "ping")
        <=> (\E i \in DOMAIN feed : feed[i] = "start" /\ \A j \in DOMAIN feed : j > i => feed[j] = "ping")
    BY <1>3, <1>5, <2>2
  <2> QED
    BY <2>1, <2>3 DEF Verdict
<1>6. ASSUME e \in {"finished", "stopped"}
      PROVE  ~Verdict'
  <2>1. ASSUME NEW i \in DOMAIN feed', feed'[i] = "start"
        PROVE  ~\A j \in DOMAIN feed' : j > i => feed'[j] = "ping"
    <3>1. i \in DOMAIN feed
      BY <1>3, <1>6, <2>1
    <3>2. n > i
      BY <1>3, <3>1
    <3> QED
      BY <1>3, <1>6, <3>2
  <2>2. ~\A j \in DOMAIN feed' : feed'[j] = "ping"
    BY <1>3, <1>6
  <2> QED
    BY <2>1, <2>2 DEF Verdict
<1> QED
  BY <1>4, <1>5, <1>6

\* Reading an event changes nothing about the verdict.
LEMMA VerdictStands ==
  ASSUME WatchInv, ReadEvent
  PROVE  Verdict' <=> Verdict
<1>1. /\ feed \in Seq(Events) /\ feed # <<>> /\ feed' = Tail(feed) /\ watch' = Seen(Head(feed))
      /\ watch \in [armed : BOOLEAN, restarts : 0..MaxRestarts]
  BY DEF WatchInv, WatchStateOK, ReadEvent
<1>2. /\ Len(feed) \in Nat /\ Len(feed) > 0 /\ DOMAIN feed = 1..Len(feed) /\ Head(feed) = feed[1]
      /\ DOMAIN feed' = 1..(Len(feed) - 1) /\ Head(feed) \in Events
      /\ \A i \in 1..(Len(feed) - 1) : feed'[i] = feed[i + 1]
  BY <1>1
<1>3. /\ 1 \in DOMAIN feed
      /\ \A i \in DOMAIN feed' : i \in Nat /\ i + 1 \in DOMAIN feed /\ feed'[i] = feed[i + 1] /\ i + 1 > 1
      /\ \A i \in DOMAIN feed : i \in Nat /\ (i = 1 \/ (i - 1 \in DOMAIN feed' /\ feed[i] = feed'[i - 1] /\ i > 1))
  <2>1. \A i \in DOMAIN feed : i \in Nat /\ (i = 1 \/ (i - 1 \in 1..(Len(feed) - 1) /\ (i - 1) + 1 = i /\ i > 1))
    BY <1>2
  <2>2. \A i \in DOMAIN feed' : i \in Nat /\ i + 1 \in DOMAIN feed /\ i + 1 > 1
    BY <1>2
  <2>3. 1 \in DOMAIN feed
    BY <1>2
  <2> QED
    BY <1>2, <2>1, <2>2, <2>3
<1> DEFINE Rest == \A j \in DOMAIN feed' : feed'[j] = "ping"
           Last(f) == \E i \in DOMAIN f : f[i] = "start" /\ \A j \in DOMAIN f : j > i => f[j] = "ping"
<1>4. Rest <=> \A j \in DOMAIN feed : j > 1 => feed[j] = "ping"
  BY <1>3
<1>5. Last(feed) <=> Last(feed') \/ (Head(feed) = "start" /\ Rest)
  <2>1. ASSUME NEW i \in DOMAIN feed', feed'[i] = "start", \A j \in DOMAIN feed' : j > i => feed'[j] = "ping"
        PROVE  Last(feed)
    <3>1. ASSUME NEW j \in DOMAIN feed, j > i + 1
          PROVE  feed[j] = "ping"
      <4>1. j # 1 /\ j - 1 > i
        BY <1>3, <2>1, <3>1
      <4> QED
        BY <1>3, <2>1, <4>1
    <3> QED
      BY <1>3, <2>1, <3>1
  <2>2. ASSUME Head(feed) = "start", Rest
        PROVE  Last(feed)
    BY <1>2, <1>3, <1>4, <2>2
  <2>3. ASSUME NEW i \in DOMAIN feed, feed[i] = "start", \A j \in DOMAIN feed : j > i => feed[j] = "ping"
        PROVE  Last(feed') \/ (Head(feed) = "start" /\ Rest)
    <3>1. CASE i = 1
      BY <1>2, <1>4, <2>3, <3>1
    <3>2. CASE i # 1
      <4>1. PICK k \in DOMAIN feed' : k = i - 1 /\ feed'[k] = "start"
        BY <1>3, <2>3, <3>2
      <4>2. ASSUME NEW j \in DOMAIN feed', j > k
            PROVE  feed'[j] = "ping"
        BY <1>3, <2>3, <4>1, <4>2
      <4> QED
        BY <4>1, <4>2
    <3> QED
      BY <3>1, <3>2
  <2> QED
    BY <2>1, <2>2, <2>3
<1>6. (\A j \in DOMAIN feed : feed[j] = "ping") <=> Head(feed) = "ping" /\ Rest
  BY <1>2, <1>3, <1>4
<1>7. Verdict <=> Last(feed) \/ (watch.armed /\ \A j \in DOMAIN feed : feed[j] = "ping")
  BY DEF Verdict
<1>8. Verdict' <=> Last(feed') \/ (watch'.armed /\ Rest)
  BY DEF Verdict
<1>9. watch'.armed <=> (Head(feed) = "start" \/ (Head(feed) = "ping" /\ watch.armed))
  BY <1>1, <1>2 DEF Seen, Unwatched, Events
<1> HIDE DEF Rest, Last
<1> QED
  BY <1>2, <1>5, <1>6, <1>7, <1>8, <1>9

\* What the guest is told of a step, by what the step puts into the session's mailbox.
LEMMA HeardOf ==
  ASSUME WatchInv
  PROVE  /\ sessionBox' = sessionBox => Heard = <<>>
         /\ sessionBox # <<>> /\ sessionBox' = Tail(sessionBox) => Heard = <<>>
         /\ \A m \in SessionMsg : sessionBox' = Append(sessionBox, m) =>
              Heard = IF m.type \in Forwarded THEN <<Event(m)>> ELSE <<>>
<1>1. sessionBox \in Seq(SessionMsg) /\ Len(sessionBox) \in Nat
  BY DEF WatchInv, TypeOK
<1>2. ASSUME sessionBox # <<>>, sessionBox' = Tail(sessionBox)
      PROVE  Heard = <<>>
  <2>1. Len(sessionBox') = Len(sessionBox) - 1
    BY <1>1, <1>2
  <2> QED
    BY <1>1, <2>1 DEF Heard
<1>3. ASSUME NEW m \in SessionMsg, sessionBox' = Append(sessionBox, m)
      PROVE  Heard = IF m.type \in Forwarded THEN <<Event(m)>> ELSE <<>>
  <2>1. Len(sessionBox') = Len(sessionBox) + 1 /\ sessionBox'[Len(sessionBox) + 1] = m
    BY <1>1, <1>3
  <2>2. Len(sessionBox') > Len(sessionBox) /\ sessionBox'[Len(sessionBox')] = m
    BY <1>1, <2>1
  <2> QED
    BY <2>2 DEF Heard
<1>4. ASSUME sessionBox' = sessionBox
      PROVE  Heard = <<>>
  BY <1>1, <1>4 DEF Heard
<1> QED
  BY <1>2, <1>3, <1>4

\* A step that starts no stream and ends none.
Calm ==
  \/ sessionBox' = sessionBox
  \/ sessionBox # <<>> /\ sessionBox' = Tail(sessionBox)
  \/ \E m \in SessionMsg : /\ sessionBox' = Append(sessionBox, m)
                           /\ m.type \notin {"SendToLlmProvider", "StreamCompleted"}

Starts == \E m \in SessionMsg : sessionBox' = Append(sessionBox, m) /\ m.type = "SendToLlmProvider"
Ends == \E m \in SessionMsg : sessionBox' = Append(sessionBox, m) /\ m.type = "StreamCompleted"

LEMMA VerdictAfter ==
  ASSUME WatchInv, feed' = feed \o Heard, UNCHANGED watch
  PROVE  /\ Calm => (Verdict' <=> Verdict)
         /\ Starts => Verdict'
         /\ Ends => ~Verdict'
<1>1. feed \in Seq(Events)
  BY DEF WatchInv, WatchStateOK
<1>2. ASSUME Heard = <<>>
      PROVE  Verdict' <=> Verdict
  <2>1. feed' = feed
    BY <1>1, <1>2
  <2> QED
    BY <2>1 DEF Verdict
<1>3. \A e \in Events : Heard = <<e>> => feed' = Append(feed, e)
  BY <1>1
<1>4. ASSUME Calm
      PROVE  Verdict' <=> Verdict
  <2>1. CASE \E m \in SessionMsg : /\ sessionBox' = Append(sessionBox, m)
                                   /\ m.type \notin {"SendToLlmProvider", "StreamCompleted"}
    <3>1. PICK m \in SessionMsg : /\ sessionBox' = Append(sessionBox, m)
                                  /\ m.type \notin {"SendToLlmProvider", "StreamCompleted"}
      BY <2>1
    <3>2. Heard = IF m.type \in Forwarded THEN <<Event(m)>> ELSE <<>>
      BY <3>1, HeardOf
    <3>3. CASE m.type \in Forwarded
      <4>1. PICK e \in Events : e = "ping" /\ e = Event(m)
        BY <3>1, <3>3 DEF Forwarded, Event, Events
      <4>2. feed' = Append(feed, e)
        BY <1>3, <3>2, <3>3, <4>1
      <4> QED
        BY <1>1, <4>1, <4>2, FeedGrows
    <3>4. CASE m.type \notin Forwarded
      BY <1>2, <3>2, <3>4
    <3> QED
      BY <3>3, <3>4
  <2>2. CASE sessionBox' = sessionBox \/ (sessionBox # <<>> /\ sessionBox' = Tail(sessionBox))
    BY <1>2, <2>2, HeardOf
  <2> QED
    BY <1>4, <2>1, <2>2 DEF Calm
<1>5. ASSUME Starts
      PROVE  Verdict'
  <2>1. PICK m \in SessionMsg : sessionBox' = Append(sessionBox, m) /\ m.type = "SendToLlmProvider"
    BY <1>5 DEF Starts
  <2>2. PICK e \in Events : e = "start" /\ e = Event(m)
    BY <2>1 DEF Event, Events
  <2>3. Heard = <<e>>
    BY <2>1, <2>2, HeardOf DEF Forwarded
  <2> QED
    BY <1>1, <1>3, <2>2, <2>3, FeedGrows
<1>6. ASSUME Ends
      PROVE  ~Verdict'
  <2>1. PICK m \in SessionMsg : sessionBox' = Append(sessionBox, m) /\ m.type = "StreamCompleted"
    BY <1>6 DEF Ends
  <2>2. PICK e \in Events : e \in {"finished", "stopped"} /\ e = Event(m)
    BY <2>1 DEF Event, Events
  <2>3. Heard = <<e>>
    BY <2>1, <2>2, HeardOf DEF Forwarded
  <2> QED
    BY <1>1, <1>3, <2>2, <2>3, FeedGrows
<1> QED
  BY <1>4, <1>5, <1>6

\* A calm step puts no end into the session's mailbox.
LEMMA CalmEnd ==
  ASSUME TypeOK, Calm
  PROVE  Carrying(sessionBox', EndMsg) => Carrying(sessionBox, EndMsg)
<1>1. sessionBox \in Seq(SessionMsg)
  BY DEF TypeOK
<1>2. CASE sessionBox # <<>> /\ sessionBox' = Tail(sessionBox)
  <2>1. Mail(sessionBox) = Mail(sessionBox') \cup {Head(sessionBox)}
    BY <1>1, <1>2, Lost
  <2> QED
    BY <2>1 DEF Carrying
<1>3. ASSUME NEW m \in SessionMsg, sessionBox' = Append(sessionBox, m), m.type # "StreamCompleted"
      PROVE  Carrying(sessionBox', EndMsg) => Carrying(sessionBox, EndMsg)
  <2>1. Mail(sessionBox') = Mail(sessionBox) \cup {m}
    BY <1>1, <1>3, Gained
  <2>2. m \notin EndMsg
    BY <1>3, Sorts
  <2> QED
    BY <2>1, <2>2 DEF Carrying
<1> QED
  BY <1>2, <1>3 DEF Calm

\* A step that is heard of leaves what is heeded: it is calm, or starts or ends a stream.
LEMMA CalmHeeds ==
  ASSUME WatchInv, Heeds, feed' = feed \o Heard, UNCHANGED <<watch, asks>>, Calm,
         (Requested' \/ Talking') /\ ~Carrying(llmBox', CancelMsg)
           => (Requested \/ Talking) /\ ~Carrying(llmBox, CancelMsg),
         Verdict /\ phase # "Idle" => phase' # "Idle"
  PROVE  Heeds'
<1>1. Verdict' <=> Verdict
  BY VerdictAfter
<1>2. Carrying(sessionBox', EndMsg) => Carrying(sessionBox, EndMsg)
  BY CalmEnd DEF WatchInv
<1> QED
  BY <1>1, <1>2 DEF Heeds, Cancelling

LEMMA StartHeeds ==
  ASSUME WatchInv, Heeds, feed' = feed \o Heard, UNCHANGED <<watch, asks>>, Starts, phase' # "Idle",
         ~Carrying(sessionBox, EndMsg)
  PROVE  Heeds'
<1>1. Verdict'
  BY VerdictAfter
<1>2. PICK m \in SessionMsg : sessionBox' = Append(sessionBox, m) /\ m.type = "SendToLlmProvider"
  BY DEF Starts
<1>3. Mail(sessionBox') = Mail(sessionBox) \cup {m}
  BY <1>2, Gained DEF WatchInv, TypeOK
<1>4. m \notin EndMsg
  BY <1>2, Sorts
<1>5. ~Carrying(sessionBox', EndMsg)
  BY <1>3, <1>4 DEF Carrying
<1> QED
  BY <1>1, <1>5 DEF Heeds

LEMMA EndHeeds ==
  ASSUME WatchInv, Heeds, feed' = feed \o Heard, UNCHANGED <<watch, asks>>, Ends,
         ~Requested' /\ ~Talking'
  PROVE  Heeds'
<1>1. ~Verdict'
  BY VerdictAfter
<1> QED
  BY <1>1 DEF Heeds

\* A step that leaves the streams and the LLM actor's mailbox alone.
LEMMA ApartHeeds ==
  ASSUME WatchInv, Heeds, feed' = feed \o Heard, UNCHANGED <<watch, asks>>, Calm,
         UNCHANGED <<llmBox, stream, aborted>>, Verdict /\ phase # "Idle" => phase' # "Idle"
  PROVE  Heeds'
<1>1. Talking' <=> Talking
  BY DEF Talking, Open, Live, Gens
<1>2. Requested' <=> Requested
  BY DEF Requested
<1> QED
  BY <1>1, <1>2, CalmHeeds

LEMMA FrontendHeeds ==
  ASSUME WatchInv, Heeds, MailInOrder, feed' = feed \o Heard, UNCHANGED <<watch, asks>>,
         \/ Frontend /\ ~(EscConfirm \/ Interrupt)
         \/ \E m \in bridge : BridgePublish(m)
  PROVE  Heeds'
<1> USE DEF sessionVars, llmVars, toolVars, userVars
<1>1. CASE Frontend /\ ~(EscConfirm \/ Interrupt)
  <2>1. UNCHANGED <<sessionBox, llmBox, stream, aborted, phase>>
    BY <1>1 DEF Frontend, Submit, AskCancel, RequestResume
  <2>2. Calm
    BY <2>1 DEF Calm
  <2> QED
    BY <2>1, <2>2, ApartHeeds
<1>2. ASSUME NEW m \in bridge, BridgePublish(m)
      PROVE  Heeds'
  <2>1. m \in EntryMsg \cup ResumeMsg
    BY DEF MailInOrder, WatchInv, TypeOK, BridgeMsg
  <2>2. m.type \in {"EnqueueUserMessage", "SubmitSteeringMessage", "EnqueueResumeTurn"} /\ m \in SessionMsg
    BY <2>1 DEF EntryMsg, ResumeMsg, SessionMsg
  <2>3. sessionBox' = Append(sessionBox, m) /\ UNCHANGED <<llmBox, stream, aborted, phase>>
    BY <1>2, <2>2 DEF BridgePublish
  <2>4. Calm
    BY <2>2, <2>3 DEF Calm
  <2> QED
    BY <2>3, <2>4, ApartHeeds
<1> QED
  BY <1>1, <1>2

\* The session actor and the queue actor, up to their requests.
LEMMA SessionHeeds ==
  ASSUME WatchInv, Heeds, feed' = feed \o Heard, UNCHANGED <<watch, asks>>,
         \/ HandleEnqueueUserMessage \/ HandleSubmitSteeringMessage
         \/ HandleEnqueueResumeTurn \/ ResumeTurn \/ HandleRetryStalledSession \/ DrainSteering
         \/ HandleSendToLlmProvider \/ HandleStreamToken
         \/ HandleToolExecutionCompleted \/ HandleToolBatchCompleted
         \/ PopOnIdle \/ PushPopped
  PROVE  Heeds'
<1> USE DEF sessionVars, llmVars, toolVars, userVars
<1>1. UNCHANGED <<llmBox, stream, aborted>>
  BY DEF HandleEnqueueUserMessage, HandleSubmitSteeringMessage, HandleEnqueueResumeTurn, ResumeTurn,
         HandleRetryStalledSession, DrainSteering, HandleSendToLlmProvider, HandleStreamToken,
         HandleToolExecutionCompleted, HandleToolBatchCompleted, PopOnIdle, PushPopped
<1>2. sessionBox' = sessionBox \/ (sessionBox # <<>> /\ sessionBox' = Tail(sessionBox))
  BY DEF HandleEnqueueUserMessage, HandleSubmitSteeringMessage, HandleEnqueueResumeTurn, ResumeTurn,
         HandleRetryStalledSession, DrainSteering, HandleSendToLlmProvider, HandleStreamToken,
         HandleToolExecutionCompleted, HandleToolBatchCompleted, PopOnIdle, PushPopped, NextSessionMsg
<1>3. Calm
  BY <1>2 DEF Calm
<1>4. phase' \in {phase, BeginSending(phase), OnFirstToken(phase)}
  BY DEF HandleEnqueueUserMessage, HandleSubmitSteeringMessage, HandleEnqueueResumeTurn, ResumeTurn,
         HandleRetryStalledSession, DrainSteering, HandleSendToLlmProvider, HandleStreamToken,
         HandleToolExecutionCompleted, HandleToolBatchCompleted, PopOnIdle, PushPopped
<1>5. phase # "Idle" => phase' # "Idle"
  BY <1>4 DEF BeginSending, OnDispatchMessage, OnFirstToken, Transition
<1> QED
  BY <1>1, <1>3, <1>5, ApartHeeds

\* A completion ends a turn that is no longer watched, or leaves it waiting for its tools.
LEMMA CompletedHeeds ==
  ASSUME WatchInv, Heeds, NEW still, NEW asked, Solo(still, asked), feed' = feed \o Heard,
         UNCHANGED <<watch, asks>>, HandleStreamCompleted
  PROVE  Heeds'
<1> USE DEF sessionVars, llmVars, toolVars, userVars
<1>0. MailInOrder /\ TypeOK
  BY DEF Solo, WatchInv
<1>1. PICK h \in SessionMsg :
        /\ h = Head(sessionBox) /\ h.type = "StreamCompleted" /\ Mail(sessionBox) = Mail(sessionBox') \cup {h}
  BY <1>0, SessionTakes DEF HandleStreamCompleted
<1>2. Calm
  BY DEF Calm, HandleStreamCompleted, NextSessionMsg
<1>3. UNCHANGED <<llmBox, stream, aborted>>
  BY DEF HandleStreamCompleted
<1>4. CASE h \in EndMsg
  <2>1. ~Verdict
    BY <1>1, <1>4 DEF Heeds, Carrying
  <2> QED
    BY <1>2, <1>3, <2>1, ApartHeeds
<1>5. CASE h \notin EndMsg
  <2>1. h.reason = "ToolUse"
    BY <1>1, <1>5, Sorts
  <2>2. phase # "Idle" => phase' # "Idle"
    BY <1>1, <2>1 DEF HandleStreamCompleted, BeginSending, OnStreamCompletedFinished,
                      OnDispatchMessage, Transition
  <2> QED
    BY <1>2, <1>3, <2>2, ApartHeeds
<1> QED
  BY <1>4, <1>5

LEMMA BeginHeeds ==
  ASSUME WatchInv, Heeds, feed' = feed \o Heard, UNCHANGED <<watch, asks>>, BeginDispatch
  PROVE  Heeds'
<1> USE DEF sessionVars, llmVars, toolVars, userVars
<1>1. UNCHANGED <<sessionBox, llmBox, aborted>>
  BY DEF BeginDispatch
<1>2. Calm
  BY <1>1 DEF Calm
<1>3. phase # "Idle" => phase' # "Idle"
  BY DEF BeginDispatch, BeginStreaming, OnFirstToken, OnDispatchMessage, Transition
<1>4. Talking' => Talking
  <2>1. CASE UNCHANGED stream
    BY <1>1, <2>1 DEF Talking, Open, Live, Gens
  <2>2. CASE stream' = Stamped(job.batch)
    <3>1. PICK o \in Nat, s \in StreamStates : o = job.batch /\ s = "stamped"
      <4>1. job \in Jobs /\ job.at = "begin"
        BY DEF BeginDispatch, WatchInv, TypeOK
      <4>2. job.batch \in Nat
        BY <4>1, JobClosed
      <4> QED
        BY <4>2 DEF StreamStates
    <3>2. stream' = Append(stream, [of |-> o, st |-> s])
      BY <2>2, <3>1 DEF Stamped
    <3>3. /\ \A g : g \in Gens' <=> g \in Gens \/ g = Len(stream) + 1
          /\ \A g \in Gens : stream'[g].st = stream[g].st
          /\ stream'[Len(stream) + 1].st = s
      BY <3>2, StreamAdded DEF WatchInv
    <3> QED
      BY <1>1, <3>1, <3>3 DEF Talking, Open, Live
  <2> QED
    BY <2>1, <2>2 DEF BeginDispatch
<1>5. Requested' <=> Requested
  BY <1>1 DEF Requested
<1> QED
  BY <1>1, <1>2, <1>3, <1>4, <1>5, CalmHeeds

LEMMA SendHeeds ==
  ASSUME WatchInv, WatchInv', Heeds, NEW still, NEW asked, Solo(still, asked), feed' = feed \o Heard,
         UNCHANGED <<watch, asks>>, SendDispatch \/ SendPopped
  PROVE  Heeds'
<1> USE DEF sessionVars, llmVars, toolVars, userVars
<1>1. /\ phase' = phase
      /\ \E n, o : sessionBox' = Append(sessionBox, Send(n, o))
  BY DEF SendDispatch, SendPopped, PublishSend
<1>2. phase # "Idle" /\ ~Carrying(sessionBox, EndMsg)
  <2>1. Activity(still, asked) \in {{"job"}, {"hand"}} /\ phase # "Idle"
    BY JobAlone, HandAlone DEF SendDispatch, SendPopped, Dispatching
  <2> QED
    BY <2>1, Absent
<1>3. Starts
  <2>1. PICK n, o : sessionBox' = Append(sessionBox, Send(n, o))
    BY <1>1
  <2>2. sessionBox \in Seq(SessionMsg) /\ sessionBox' \in Seq(SessionMsg)
    BY DEF WatchInv, TypeOK
  <2>3. Send(n, o) \in SessionMsg
    <3>1. sessionBox'[Len(sessionBox) + 1] = Send(n, o) /\ Len(sessionBox') = Len(sessionBox) + 1
          /\ Len(sessionBox) \in Nat
      BY <2>1, <2>2
    <3>2. Len(sessionBox) + 1 \in DOMAIN sessionBox'
      BY <2>2, <3>1
    <3> QED
      BY <2>2, <3>1, <3>2
  <2> QED
    BY <2>1, <2>3 DEF Starts, Send
<1> QED
  BY <1>1, <1>2, <1>3, StartHeeds

\* A session without a task has no open stream, nor has one that is cancelled.
LEMMA Hushed ==
  ASSUME WatchInv', task' = 0 \/ tombstone'
  PROVE  ~Talking'
<1>1. \A g \in Gens' : Live(g)' => g = task' /\ ~tombstone'
  BY DEF WatchInv, Streams, OneLiveStream, CancelledSessionIsSilent
<1>2. 0 \notin Gens'
  BY DEF Gens
<1> QED
  BY <1>1, <1>2 DEF Talking, Open

LEMMA CompletionEnds ==
  ASSUME NEW box, NEW n \in Nat, NEW r \in Reasons, PublishCompleted(box, n, r)
  PROVE  Ends
<1>1. Completed(n, r) \in SessionMsg /\ Completed(n, r).type = "StreamCompleted"
  BY DEF Completed, CompletedMsg, SessionMsg
<1> QED
  BY <1>1 DEF PublishCompleted, Ends

\* The LLM actor: what it opens was asked for, what it ends is over.
LEMMA UntrackHeeds ==
  ASSUME WatchInv, Heeds, MailInOrder, feed' = feed \o Heard, UNCHANGED <<watch, asks>>, UntrackCompleted
  PROVE  Heeds'
<1> USE DEF sessionVars, llmVars, toolVars, userVars
<1>1. PICK h \in LlmMsg :
        /\ h = Head(llmBox) /\ h.type = "StreamCompleted" /\ Mail(llmBox) = Mail(llmBox') \cup {h}
  <2>1. TypeOK /\ NextLlmMsg("StreamCompleted") /\ llmBox' = Tail(llmBox)
    BY DEF UntrackCompleted, WatchInv
  <2> QED
    BY <2>1, LlmTakes
<1>2. h \notin SendMsg \cup CancelMsg
  BY <1>1, Sorts
<1>3. UNCHANGED <<sessionBox, stream, aborted, phase>>
  BY DEF UntrackCompleted
<1>4. (Requested' <=> Requested) /\ (Carrying(llmBox', CancelMsg) <=> Carrying(llmBox, CancelMsg))
  BY <1>1, <1>2 DEF Requested, Carrying
<1>5. Talking' <=> Talking
  BY <1>3 DEF Talking, Open, Live, Gens
<1>6. Calm
  BY <1>3 DEF Calm
<1> QED
  BY <1>3, <1>4, <1>5, <1>6, CalmHeeds

LEMMA OpenHeeds ==
  ASSUME WatchInv, WatchInv', Heeds, NEW still, NEW asked, Solo(still, asked), feed' = feed \o Heard,
         UNCHANGED <<watch, asks>>, DropContinuation \/ StartStream
  PROVE  Heeds'
<1> USE DEF sessionVars, llmVars, toolVars, userVars
<1>1. Activity(still, asked) = {"send"} /\ ~Carrying(llmBox', SendMsg)
  BY StartSolo DEF WatchInv
<1>2. Requested /\ ~Carrying(llmBox, CancelMsg)
  <2>1. "send" \in Activity(still, asked) /\ "cancel" \notin Activity(still, asked)
    BY <1>1
  <2> QED
    BY <2>1 DEF Activity, Requested
<1>3. phase' = phase
  BY DEF DropContinuation, StartStream
<1>4. CASE UNCHANGED sessionBox
  <2>1. Calm
    BY <1>4 DEF Calm
  <2> QED
    BY <1>2, <1>3, <2>1, CalmHeeds
<1>5. CASE ~UNCHANGED sessionBox
  <2>1. /\ PublishCompleted(Tail(llmBox), Head(llmBox).gen, "Error") /\ task' = 0
        /\ NextLlmMsg("SendToLlmProvider")
    BY <1>5 DEF DropContinuation, StartStream
  <2>2. Head(llmBox).gen \in Nat
    BY <2>1, LlmHead, MessageFields DEF WatchInv, TypeOK
  <2>3. Ends
    BY <2>1, <2>2, CompletionEnds DEF Reasons
  <2>4. ~Requested' /\ ~Talking'
    BY <1>1, <2>1, Hushed DEF Requested
  <2> QED
    BY <2>3, <2>4, EndHeeds
<1> QED
  BY <1>4, <1>5

LEMMA GivenUpHeeds ==
  ASSUME WatchInv, WatchInv', Heeds, NEW still, NEW asked, Solo(still, asked), feed' = feed \o Heard,
         UNCHANGED <<watch, asks>>, CancelStream
  PROVE  Heeds'
<1> USE DEF sessionVars, llmVars, toolVars, userVars
<1>1. ~Requested' /\ ~Talking'
  <2>1. ~Carrying(llmBox', SendMsg)
    BY CancelSolo DEF WatchInv
  <2>2. tombstone'
    BY DEF CancelStream
  <2> QED
    BY <2>1, <2>2, Hushed DEF Requested
<1>2. phase' = phase
  BY DEF CancelStream
<1>3. CASE tracked = 0
  <2>1. Calm
    BY <1>3 DEF Calm, CancelStream
  <2> QED
    BY <1>1, <1>2, <2>1, CalmHeeds
<1>4. CASE tracked # 0
  <2>1. PublishCompleted(Tail(llmBox), CancelledGen, "Canceled")
    BY <1>4 DEF CancelStream
  <2>2. CancelledGen \in Nat
    BY DEF WatchInv, TypeOK, CancelledGen, NoStamp, Now
  <2>3. Ends
    BY <2>1, <2>2, CompletionEnds DEF Reasons
  <2> QED
    BY <1>1, <2>3, EndHeeds
<1> QED
  BY <1>3, <1>4

\* The stream task: its first token says it lives, its end is heard of.
LEMMA TokenHeeds ==
  ASSUME WatchInv, Heeds, NEW still, NEW asked, Solo(still, asked), feed' = feed \o Heard,
         UNCHANGED <<watch, asks>>, NEW g \in Gens \ still, FirstToken(g)
  PROVE  Heeds'
<1> USE DEF sessionVars, llmVars, toolVars, userVars
<1>1. /\ stream[g].st = "open" /\ UNCHANGED <<llmBox, phase, aborted>>
      /\ sessionBox' = Append(sessionBox, Note("StreamToken", g))
  BY DEF FirstToken, StreamStep
<1>2. /\ g \in Nat /\ g \notin aborted /\ Activity(still, asked) = {"stream"}
  BY <1>1, StreamAlone DEF WatchInv
<1>3. Talking /\ ~Carrying(llmBox, CancelMsg)
  <2>1. Open(g)
    BY <1>1, <1>2 DEF Open, Live
  <2>2. "cancel" \notin Activity(still, asked)
    BY <1>2
  <2> QED
    BY <2>1, <2>2 DEF Talking, Activity
<1>4. Calm
  <2>1. Note("StreamToken", g) \in SessionMsg /\ Note("StreamToken", g).type = "StreamToken"
    BY <1>2 DEF Note, SessionMsg, BatchMsg
  <2> QED
    BY <1>1, <2>1 DEF Calm
<1> QED
  BY <1>1, <1>3, <1>4, CalmHeeds

LEMMA StreamEndHeeds ==
  ASSUME WatchInv, WatchInv', Heeds, NEW still, NEW asked, Solo(still, asked), feed' = feed \o Heard,
         UNCHANGED <<watch, asks>>, NEW g \in Gens \ still,
         StreamFinishes(g) \/ StreamFails(g) \/ StreamUsesTools(g)
  PROVE  Heeds'
<1> USE DEF sessionVars, llmVars, toolVars, userVars
<1>1. PICK r \in Reasons, s \in {"ended", "handoff"} :
        /\ stream' = [stream EXCEPT ![g].st = s] /\ PublishCompleted(llmBox, g, r)
        /\ stream[g].st \in {"open", "tokens"} /\ UNCHANGED <<task, aborted, phase>>
  <2>1. stream[g].st \in {"open", "tokens"} /\ UNCHANGED <<task, aborted, phase>>
    BY DEF StreamFinishes, StreamFails, StreamUsesTools, StreamStep
  <2>2. CASE StreamFinishes(g)
    BY <2>1, <2>2 DEF StreamFinishes, StreamStep, Reasons
  <2>3. CASE StreamFails(g)
    BY <2>1, <2>3 DEF StreamFails, StreamStep, Reasons
  <2>4. CASE StreamUsesTools(g)
    BY <2>1, <2>4 DEF StreamUsesTools, StreamStep, Reasons
  <2> QED
    BY <2>2, <2>3, <2>4
<1>2. g \in Nat /\ g \notin aborted /\ Mail(llmBox) \cap SendMsg = {}
  BY <1>1, StreamAlone DEF WatchInv
<1>3. Ends
  BY <1>1, <1>2, CompletionEnds
<1>4. ~Requested'
  <2>1. PICK c \in LlmMsg : c = Completed(g, r) /\ c.type = "StreamCompleted"
    <3>1. Completed(g, r) \in CompletedMsg /\ Completed(g, r).type = "StreamCompleted"
      BY <1>2 DEF Completed, CompletedMsg
    <3> QED
      BY <3>1 DEF LlmMsg
  <2>2. llmBox' = Append(llmBox, c)
    BY <1>1, <2>1 DEF PublishCompleted
  <2>4. c \notin SendMsg \cup CancelMsg
    BY <2>1, Sorts
  <2>3. Mail(llmBox') = Mail(llmBox) \cup {c}
    <3>1. llmBox \in Seq(LlmMsg) /\ LlmMail(llmBox)
      BY DEF WatchInv, TypeOK, Solo, MailInOrder
    <3>2. PICK box, new : box \in Seq(LlmMsg) /\ box = llmBox /\ new = llmBox'
      BY <3>1
    <3>3. LlmMail(box) /\ new = Append(box, c)
      BY <2>2, <3>1, <3>2
    <3>4. \A kind \in {CancelMsg, SendMsg} : c \in kind => ~Carrying(box, kind)
      BY <2>1, <2>4
    <3>5. Mail(new) = Mail(box) \cup {c}
      BY <3>2, <3>3, <3>4, LlmGets
    <3> QED
      BY <3>2, <3>5
  <2> QED
    BY <1>2, <2>3, <2>4 DEF Requested, Carrying
<1>5. ~Talking'
  <2>1. \A k \in Gens' : Live(k)' => k = task'
    BY DEF WatchInv, Streams, OneLiveStream
  <2>2. g = task
    <3>1. Live(g)
      BY <1>1, <1>2 DEF Live
    <3> QED
      BY <3>1 DEF WatchInv, Streams, OneLiveStream
  <2>3. stream'[g].st = s
    <3>1. PICK n \in Gens : n = g
      OBVIOUS
    <3>2. TypeOK /\ stream' = [stream EXCEPT ![n].st = s]
      BY <1>1, <3>1 DEF WatchInv
    <3>3. \A k \in Gens : stream'[k].st = IF k = n THEN s ELSE stream[k].st
      BY <3>2, StreamMoved
    <3> QED
      BY <3>1, <3>3
  <2>4. ~Open(g)'
    BY <2>3 DEF Open
  <2>5. \A k \in Gens' : ~Open(k)'
    BY <1>1, <2>1, <2>2, <2>3 DEF Open
  <2> QED
    BY <2>5 DEF Talking
<1> QED
  BY <1>3, <1>4, <1>5, EndHeeds

\* A task that hands its batch over or is gone, the orchestrator and the tools.
LEMMA TaskHeeds ==
  ASSUME WatchInv, Heeds, feed' = feed \o Heard, UNCHANGED <<watch, asks>>, NEW g \in Gens,
         HandOffBatch(g) \/ StreamStops(g)
  PROVE  Heeds'
<1> USE DEF sessionVars, llmVars, toolVars, userVars
<1>1. PICK s \in {"toolUse", "stopped"} : stream' = [stream EXCEPT ![g].st = s]
  BY DEF HandOffBatch, StreamStops, StreamStep
<1>2. UNCHANGED <<sessionBox, llmBox, aborted, phase>>
  BY DEF HandOffBatch, StreamStops, StreamStep
<1>3. Talking' => Talking
  <2>1. /\ Gens' = Gens
        /\ \A k \in Gens : stream'[k].st = IF k = g THEN s ELSE stream[k].st
    BY <1>1, StreamMoved DEF WatchInv
  <2>2. ASSUME NEW k \in Gens', Open(k)'
        PROVE  Open(k) /\ k \in Gens
    BY <1>2, <2>1, <2>2 DEF Open, Live
  <2> QED
    BY <2>2 DEF Talking
<1>4. Requested' <=> Requested
  BY <1>2 DEF Requested
<1>5. Calm
  BY <1>2 DEF Calm
<1> QED
  BY <1>2, <1>3, <1>4, <1>5, CalmHeeds

LEMMA ToolHeeds ==
  ASSUME WatchInv, Heeds, feed' = feed \o Heard, UNCHANGED <<watch, asks>>,
         Orchestrator \/ \E g \in running : ToolFinishes(g)
  PROVE  Heeds'
<1> USE DEF sessionVars, llmVars, toolVars, userVars
<1>1. UNCHANGED <<llmBox, stream, aborted, phase>>
  BY DEF Orchestrator, ExecuteToolBatch, CancelToolBatch, CountToolResult, ToolFinishes
<1>2. \/ sessionBox' = sessionBox
      \/ \E n \in Nat, t \in {"ToolBatchCompleted", "ToolExecutionCompleted"} :
           sessionBox' = Append(sessionBox, Note(t, n))
  <2>1. batch \in Nat /\ running \subseteq Nat
    BY DEF WatchInv, TypeOK
  <2> QED
    BY <2>1 DEF Orchestrator, ExecuteToolBatch, CancelToolBatch, CountToolResult, ToolFinishes
<1>3. \A n \in Nat, t \in {"ToolBatchCompleted", "ToolExecutionCompleted"} :
        Note(t, n) \in SessionMsg /\ Note(t, n).type \notin {"SendToLlmProvider", "StreamCompleted"}
  BY DEF Note, SessionMsg, BatchMsg
<1>4. Calm
  BY <1>2, <1>3 DEF Calm
<1> QED
  BY <1>1, <1>4, ApartHeeds

\* What the actors and the tasks do leaves one activity, and what is heeded.
LEMMA TurnHeeds ==
  ASSUME WatchInv, WatchInv', Heeds, NEW still, still = hung, NEW asked, Solo(still, asked),
         Watched(Frontend) \/ Watched(Work), Undisturbed
  PROVE  Solo(still, asked)' /\ Heeds'
<1>1. /\ feed' = feed \o Heard /\ UNCHANGED <<watch, asks>>
      /\ Frontend \/ Work
  BY DEF Watched
<1>2. MailInOrder /\ TypeOK /\ TypeOK' /\ hung \subseteq Gens
  BY DEF Solo, WatchInv, WatchStateOK
<1>3. ~(EscConfirm \/ Interrupt) /\ (PushPopped \/ ResumeTurn => phase = "Idle")
  BY DEF Undisturbed
<1>4. SoloNext(still)
  BY <1>1, <1>2, <1>3 DEF SoloNext, Work
<1>5. Solo(still, asked)'
  BY <1>2, <1>4, SoloStep
<1>6. CASE Frontend \/ \E m \in bridge : BridgePublish(m)
  BY <1>1, <1>2, <1>3, <1>5, <1>6, FrontendHeeds
<1>7. CASE SessionActor
  <2>1. CASE BeginDispatch
    BY <1>1, <1>5, <2>1, BeginHeeds
  <2>2. CASE SendDispatch
    BY <1>1, <1>5, <2>2, SendHeeds
  <2>3. CASE HandleStreamCompleted
    BY <1>1, <1>5, <2>3, CompletedHeeds
  <2>4. CASE ~(BeginDispatch \/ SendDispatch \/ HandleStreamCompleted)
    <3>1. \/ HandleEnqueueUserMessage \/ HandleSubmitSteeringMessage
          \/ HandleEnqueueResumeTurn \/ ResumeTurn \/ HandleRetryStalledSession \/ DrainSteering
          \/ HandleSendToLlmProvider \/ HandleStreamToken
          \/ HandleToolExecutionCompleted \/ HandleToolBatchCompleted
      BY <1>7, <2>4 DEF SessionActor
    <3> QED
      BY <1>1, <1>5, <3>1, SessionHeeds
  <2> QED
    BY <2>1, <2>2, <2>3, <2>4
<1>8. CASE Queue
  BY <1>1, <1>5, <1>8, SendHeeds, SessionHeeds DEF Queue
<1>9. CASE Llm
  BY <1>1, <1>2, <1>5, <1>9, UntrackHeeds, OpenHeeds, GivenUpHeeds DEF Llm
<1>10. CASE Orchestrator \/ \E g \in running : ToolFinishes(g)
  BY <1>1, <1>5, <1>10, ToolHeeds
<1>11. ASSUME NEW g \in Gens \ still, StreamTask(g)
       PROVE  Heeds'
  <2>1. PICK n \in Gens : n = g
    OBVIOUS
  <2>2. CASE HandOffBatch(g) \/ StreamStops(g)
    <3>1. HandOffBatch(n) \/ StreamStops(n)
      BY <2>1, <2>2
    <3> QED
      BY <1>1, <3>1, TaskHeeds
  <2>3. CASE FirstToken(g)
    BY <1>1, <2>3, TokenHeeds
  <2>4. CASE StreamFinishes(g) \/ StreamFails(g) \/ StreamUsesTools(g)
    BY <1>1, <2>4, StreamEndHeeds
  <2> QED
    BY <1>11, <2>2, <2>3, <2>4 DEF StreamTask
<1>12. ASSUME NEW g \in hung, StreamStops(g)
       PROVE  Heeds'
  <2>1. PICK n \in Gens : n = g /\ StreamStops(n)
    BY <1>2, <1>12
  <2> QED
    BY <1>1, <2>1, TaskHeeds
<1> QED
  BY <1>1, <1>5, <1>6, <1>7, <1>8, <1>9, <1>10, <1>11, <1>12 DEF Work

\* The guest reads.
LEMMA ReadHeeds ==
  ASSUME WatchInv, Heeds, ReadEvent
  PROVE  Heeds'
<1>1. UNCHANGED <<llmBox, sessionBox, stream, aborted, phase, asks>>
  BY DEF ReadEvent, vars, sessionVars, llmVars, toolVars, userVars
<1>2. Verdict' <=> Verdict
  BY VerdictStands
<1>3. /\ Talking' <=> Talking
      /\ Requested' <=> Requested
      /\ Cancelling' <=> Cancelling
      /\ Carrying(sessionBox', EndMsg) <=> Carrying(sessionBox, EndMsg)
  BY <1>1 DEF Talking, Open, Live, Gens, Requested, Cancelling
<1> QED
  BY <1>1, <1>2, <1>3 DEF Heeds

\* A turn in which nothing happens is asked about.
LEMMA AskedSolo ==
  ASSUME NEW still, Solo(still, FALSE), Activity(still, FALSE) = {}, phase # "Idle"
  PROVE  Solo(still, TRUE)
<1>1. Activity(still, TRUE) = {"asked"}
  BY DEF Activity
<1>2. Activity(still, TRUE) \cap UsingTools = {} /\ Activity(still, FALSE) \cap UsingTools = {}
  BY <1>1 DEF UsingTools
<1>3. OneActivity(still, TRUE)
  BY <1>1 DEF OneActivity
<1>4. ToolsAwaited(still, TRUE)
  BY <1>2 DEF Solo, ToolsAwaited
<1> QED
  BY <1>3, <1>4 DEF Solo

\* Where no actor and no task has anything to do the turn is nowhere.
LEMMA SilentTurn ==
  ASSUME TypeOK, NEW still, still = hung, Solo(still, FALSE), Silence
  PROVE  Activity(still, FALSE) = {}
<1>1. /\ sessionBox = <<>> /\ llmBox = <<>> /\ toolBox = <<>> /\ job = NoJob /\ hand = NoHand
      /\ running = {} /\ \A g \in Gens \ still : ~Live(g)
  BY DEF Silence, CaughtUp
<1>2. \A kind : ~Carrying(sessionBox, kind) /\ ~Carrying(llmBox, kind) /\ ~Carrying(toolBox, kind)
  BY <1>1 DEF Carrying, Mail
<1>3. batch = 0
  BY <1>1, <1>2 DEF Solo, ToolsAnswer
<1>4. \A g \in Gens \ still : stream[g].st \notin {"open", "tokens", "handoff"}
  BY <1>1 DEF Solo, LastGeneration, Live
<1>5. ~Dispatching(job) /\ hand.at # "send"
  BY <1>1 DEF Dispatching, NoJob, NoHand
<1> QED
  BY <1>2, <1>3, <1>4, <1>5 DEF Activity, Acting

\* The window ends: the guest asks about a turn that has not ended and in which nothing
\* else happens.
LEMMA TripHeeds ==
  ASSUME WatchInv, Heeds, NEW still, still = hung, Solo(still, FALSE), Trip
  PROVE  Solo(still, TRUE)' /\ Heeds' /\ asks' # <<>>
<1>1. UNCHANGED vars /\ UNCHANGED feed /\ watch.armed /\ feed = <<>> /\ asks = <<>> /\ llmBox = <<>>
  BY DEF Trip, Silence, CaughtUp
<1>2. Verdict /\ phase # "Idle"
  <2>1. Verdict
    BY <1>1 DEF Verdict
  <2> QED
    BY <2>1 DEF Heeds
<1>3. Activity(still, FALSE) = {}
  BY SilentTurn DEF Trip, WatchInv
<1>4. Solo(still, TRUE)
  BY <1>2, <1>3, AskedSolo
<1>5. Solo(still, TRUE)'
  <2>1. PICK asked : asked = TRUE
    OBVIOUS
  <2>2. Solo(still, asked)'
    BY <1>1, <1>4, <2>1, SoloStands
  <2> QED
    BY <2>1, <2>2
<1>6. UNCHANGED <<llmBox, sessionBox, stream, aborted, phase>>
  BY <1>1 DEF vars, sessionVars, llmVars, toolVars, userVars
<1>7. /\ Talking' <=> Talking
      /\ Requested' <=> Requested
      /\ Carrying(sessionBox', EndMsg) <=> Carrying(sessionBox, EndMsg)
  BY <1>6 DEF Talking, Open, Live, Gens, Requested
<1>8. PICK a \in {"restart", "cancel"} :
        /\ asks' = Append(asks, a)
        /\ a = "restart" => watch'.armed
        /\ a = "cancel" => ~watch'.armed
  <2>1. watch \in [armed : BOOLEAN, restarts : 0..MaxRestarts]
    BY DEF WatchInv, WatchStateOK
  <2> QED
    BY <1>1, <2>1 DEF Trip
<1>9. asks' = <<a>> /\ Len(asks') <= 1 /\ asks' # <<>> /\ 1 \in DOMAIN asks' /\ asks'[1] = a
  BY <1>1, <1>8
<1>10. a = "restart" => Verdict'
  BY <1>1, <1>8 DEF Verdict
<1>11. a = "cancel" => ~Verdict' /\ Cancelling'
  <2>1. a = "cancel" => ~Verdict'
    BY <1>1, <1>8 DEF Verdict
  <2>2. a = "cancel" => Cancelling'
    BY <1>9 DEF Cancelling
  <2> QED
    BY <2>1, <2>2
<1>12. Heeds'
  BY <1>2, <1>6, <1>7, <1>8, <1>9, <1>10, <1>11 DEF Heeds
<1> QED
  BY <1>5, <1>9, <1>12

\* The host passes on what the guest asks for, into an empty turn.
LEMMA RestartSolo ==
  ASSUME TypeOK, NEW still, Solo(still, TRUE), ApplyAsk, Head(asks) = "restart"
  PROVE  Solo(still, FALSE)' /\ Calm
<1> USE DEF sessionVars, llmVars, toolVars, userVars
<1>0. MailInOrder
  BY DEF Solo
<1>1. PICK m \in SessionMsg : /\ m.type = "RetryStalledSession" /\ sessionBox' = Append(sessionBox, m)
  <2>1. [type |-> "RetryStalledSession"] \in RetryMsg
    BY DEF RetryMsg
  <2>2. sessionBox' = Append(sessionBox, [type |-> "RetryStalledSession"])
    BY DEF ApplyAsk
  <2> QED
    BY <2>1, <2>2 DEF SessionMsg
<1>2. m \in RetryMsg /\ m \notin EndMsg \cup UseMsg \cup DoneMsg \cup ResultMsg \cup TokenMsg \cup SendMsg
  BY <1>1, Sorts
<1>3. UNCHANGED <<bridge, llmBox, toolBox, job, hand, stream, batch, aborted, task, guard, pendingBatch,
                  running, answered, phase>>
  BY DEF ApplyAsk
<1>4. Activity(still, TRUE) = {"asked"} /\ phase # "Idle"
  <2>1. "asked" \in Activity(still, TRUE)
    BY DEF Activity
  <2> QED
    BY <2>1 DEF Solo, OneActivity
<1>5. SessionMail(sessionBox') /\ Mail(sessionBox') = Mail(sessionBox) \cup {m}
  <2>1. ~Carrying(sessionBox, RetryMsg)
    BY <1>4, Absent
  <2> QED
    BY <1>0, <1>1, <1>2, <2>1, SessionGets
<1>6. \A kind : Carrying(sessionBox', kind) <=> Carrying(sessionBox, kind) \/ m \in kind
  BY <1>5 DEF Carrying
<1>7. Activity(still, FALSE)' = {"retry"}
  <2>1. /\ ~Carrying(sessionBox', EndMsg) /\ ~Carrying(sessionBox', DoneMsg) /\ Carrying(sessionBox', RetryMsg)
        /\ ~Carrying(llmBox', CancelMsg) /\ ~Carrying(llmBox', SendMsg) /\ ~Carrying(toolBox', ExecMsg)
        /\ batch' = 0 /\ ~Dispatching(job')
    BY <1>2, <1>3, <1>4, <1>6, Absent
  <2>2. \A g \in Gens' \ still : stream'[g].st \notin {"open", "tokens", "handoff"}
    <3>1. \A g \in Gens \ still : stream[g].st \notin {"open", "tokens", "handoff"}
      BY <1>4 DEF Activity, Acting
    <3> QED
      BY <1>3, <3>1 DEF Gens
  <2>3. hand'.at # "send"
    <3>1. "hand" \notin Activity(still, TRUE)
      BY <1>4
    <3> QED
      BY <1>3, <3>1 DEF Activity
  <2> QED
    BY <2>1, <2>2, <2>3 DEF Activity, Acting
<1>8. Activity(still, FALSE)' \cap UsingTools = {} /\ Activity(still, TRUE) \cap UsingTools = {}
  BY <1>4, <1>7 DEF UsingTools
<1>9. OneActivity(still, FALSE)'
  BY <1>3, <1>4, <1>7 DEF OneActivity
<1>10. MailInOrder'
  BY <1>0, <1>3, <1>5 DEF MailInOrder
<1>11. LastGeneration(still)'
  BY <1>2, <1>3, <1>5 DEF Solo, LastGeneration, Unopened, Gens
<1>12. ToolsAwaited(still, FALSE)'
  BY <1>2, <1>3, <1>6, <1>8 DEF Solo, ToolsAwaited
<1>13. ToolsAnswer'
  <2>1. \A b : Reported(b) => Reported(b)'
    BY <1>3, <1>5 DEF Reported
  <2> QED
    BY <1>2, <1>3, <1>5, <2>1 DEF Solo, ToolsAnswer
<1>14. Calm
  BY <1>1 DEF Calm
<1> QED
  BY <1>9, <1>10, <1>11, <1>12, <1>13, <1>14 DEF Solo

LEMMA GiveUpSolo ==
  ASSUME TypeOK, NEW still, Solo(still, TRUE), ApplyAsk, Head(asks) # "restart"
  PROVE  Solo(still, FALSE)' /\ Carrying(llmBox', CancelMsg)
<1> USE DEF sessionVars, llmVars, toolVars, userVars
<1>0. MailInOrder
  BY DEF Solo
<1>1. PICK m \in LlmMsg : /\ m.type = "CancelStream" /\ llmBox' = Append(llmBox, m)
  <2>1. [type |-> "CancelStream", nth |-> 0] \in CancelMsg
    BY DEF CancelMsg
  <2>2. llmBox' = Append(llmBox, [type |-> "CancelStream", nth |-> 0])
    BY DEF ApplyAsk
  <2> QED
    BY <2>1, <2>2 DEF LlmMsg
<1>2. m \in CancelMsg /\ m \notin SendMsg
  BY <1>1, Sorts
<1>3. UNCHANGED <<bridge, sessionBox, toolBox, job, hand, stream, batch, aborted, task, guard, pendingBatch,
                  running, answered, phase>>
  BY DEF ApplyAsk
<1>4. Activity(still, TRUE) = {"asked"} /\ phase # "Idle"
  <2>1. "asked" \in Activity(still, TRUE)
    BY DEF Activity
  <2> QED
    BY <2>1 DEF Solo, OneActivity
<1>5. LlmMail(llmBox') /\ Mail(llmBox') = Mail(llmBox) \cup {m}
  <2>1. ~Carrying(llmBox, CancelMsg)
    BY <1>4, Absent
  <2>2. PICK box, new : box \in Seq(LlmMsg) /\ box = llmBox /\ new = llmBox'
    BY DEF TypeOK
  <2>3. LlmMail(box) /\ new = Append(box, m)
    BY <1>0, <1>1, <2>2 DEF MailInOrder
  <2>4. \A kind \in {CancelMsg, SendMsg} : m \in kind => ~Carrying(box, kind)
    BY <1>2, <2>1, <2>2
  <2>5. LlmMail(new) /\ Mail(new) = Mail(box) \cup {m}
    BY <2>2, <2>3, <2>4, LlmGets
  <2> QED
    BY <2>2, <2>5
<1>6. \A kind : Carrying(llmBox', kind) <=> Carrying(llmBox, kind) \/ m \in kind
  BY <1>5 DEF Carrying
<1>7. Activity(still, FALSE)' = {"cancel"}
  <2>1. /\ ~Carrying(sessionBox', EndMsg) /\ ~Carrying(sessionBox', DoneMsg) /\ ~Carrying(sessionBox', RetryMsg)
        /\ Carrying(llmBox', CancelMsg) /\ ~Carrying(llmBox', SendMsg) /\ ~Carrying(toolBox', ExecMsg)
        /\ batch' = 0 /\ ~Dispatching(job')
    BY <1>2, <1>3, <1>4, <1>6, Absent
  <2>2. \A g \in Gens' \ still : stream'[g].st \notin {"open", "tokens", "handoff"}
    <3>1. \A g \in Gens \ still : stream[g].st \notin {"open", "tokens", "handoff"}
      BY <1>4 DEF Activity, Acting
    <3> QED
      BY <1>3, <3>1 DEF Gens
  <2>3. hand'.at # "send"
    <3>1. "hand" \notin Activity(still, TRUE)
      BY <1>4
    <3> QED
      BY <1>3, <3>1 DEF Activity
  <2> QED
    BY <2>1, <2>2, <2>3 DEF Activity, Acting
<1>8. Activity(still, FALSE)' \cap UsingTools = {} /\ Activity(still, TRUE) \cap UsingTools = {}
  BY <1>4, <1>7 DEF UsingTools
<1>9. OneActivity(still, FALSE)'
  BY <1>3, <1>4, <1>7 DEF OneActivity
<1>10. MailInOrder'
  BY <1>0, <1>3, <1>5 DEF MailInOrder
<1>11. LastGeneration(still)'
  BY <1>2, <1>3, <1>5 DEF Solo, LastGeneration, Unopened, Gens
<1>12. ToolsAwaited(still, FALSE)'
  BY <1>3, <1>8 DEF Solo, ToolsAwaited
<1>13. ToolsAnswer'
  BY <1>3 DEF Solo, ToolsAnswer, Reported
<1> QED
  BY <1>2, <1>6, <1>9, <1>10, <1>11, <1>12, <1>13 DEF Solo

\* What is asked for was the only request, and is a message now.
LEMMA ApplyHeeds ==
  ASSUME WatchInv, Heeds, NEW still, Solo(still, TRUE), ApplyAsk
  PROVE  Solo(still, FALSE)' /\ Heeds' /\ asks' = <<>>
<1> USE DEF sessionVars, llmVars, toolVars, userVars
<1>1. asks' = <<>> /\ DOMAIN asks = {1} /\ asks[1] = Head(asks) /\ DOMAIN asks' = {}
  <2>1. asks \in Seq({"restart", "cancel"}) /\ asks # <<>> /\ asks' = Tail(asks) /\ Len(asks) <= 1
    BY DEF WatchInv, WatchStateOK, Heeds, ApplyAsk
  <2>2. PICK S : S = {"restart", "cancel"}
    OBVIOUS
  <2>3. asks \in Seq(S)
    BY <2>1, <2>2
  <2>4. Len(asks) \in Nat /\ Len(asks) # 0
    BY <2>1, <2>3
  <2>5. Len(asks) = 1
    <3>1. PICK n \in Nat : n = Len(asks) /\ n # 0
      BY <2>4
    <3>2. n <= 1
      BY <3>1, <2>1
    <3>3. n = 1
      BY <3>1, <3>2
    <3> QED
      BY <3>1, <3>3
  <2> QED
    BY <2>1, <2>3, <2>5
<1>2. UNCHANGED <<stream, aborted, phase, feed, watch>>
  BY DEF ApplyAsk
<1>3. (Verdict' <=> Verdict) /\ (Talking' <=> Talking)
  BY <1>2 DEF Verdict, Talking, Open, Live, Gens
<1>4. CASE Head(asks) = "restart"
  <2>1. Solo(still, FALSE)' /\ Calm
    BY <1>4, RestartSolo DEF WatchInv
  <2>2. UNCHANGED llmBox
    BY <1>4 DEF ApplyAsk
  <2>3. Carrying(sessionBox', EndMsg) => Carrying(sessionBox, EndMsg)
    BY <2>1, CalmEnd DEF WatchInv
  <2>4. (Cancelling' <=> Cancelling) /\ (Requested' <=> Requested)
    BY <1>1, <1>4, <2>2 DEF Cancelling, Requested
  <2>5. Len(asks') <= 1
    BY <1>1
  <2> QED
    BY <1>1, <1>2, <1>3, <2>1, <2>3, <2>4, <2>5 DEF Heeds
<1>5. CASE Head(asks) # "restart"
  <2>1. Solo(still, FALSE)' /\ Carrying(llmBox', CancelMsg)
    BY <1>5, GiveUpSolo DEF WatchInv
  <2>2. UNCHANGED sessionBox
    BY <1>5 DEF ApplyAsk
  <2>3. Cancelling'
    BY <2>1 DEF Cancelling
  <2>4. Len(asks') <= 1
    BY <1>1
  <2> QED
    BY <1>1, <1>2, <1>3, <2>1, <2>2, <2>3, <2>4 DEF Heeds
<1> QED
  BY <1>4, <1>5

\* A provider falls silent: one stream less is heard of.
LEMMA HangSolo ==
  ASSUME NEW still, still = hung, NEW asked, Solo(still, asked), NEW g \in Gens, Hang(g),
         NEW new, new = hung'
  PROVE  Solo(new, asked)'
<1>1. new = still \cup {g} /\ stream[g].st # "handoff" /\ UNCHANGED vars
  BY DEF Hang
<1>2. Activity(new, asked) \subseteq Activity(still, asked)
  BY <1>1 DEF Activity, Acting
<1>3. Activity(new, asked) \cap UsingTools = Activity(still, asked) \cap UsingTools
  <2>1. Acting(new, {"handoff"}) <=> Acting(still, {"handoff"})
    BY <1>1 DEF Acting
  <2> QED
    BY <2>1 DEF Activity, UsingTools
<1>4. OneActivity(new, asked)
  BY <1>2 DEF Solo, OneActivity
<1>5. LastGeneration(new)
  BY <1>1 DEF Solo, LastGeneration
<1>6. ToolsAwaited(new, asked)
  BY <1>3 DEF Solo, ToolsAwaited
<1>7. Solo(new, asked)
  BY <1>4, <1>5, <1>6 DEF Solo
<1> QED
  BY <1>1, <1>7, SoloStands

\* The turn is one activity of the streams that do not hang and of what the guest asks
\* for, and the watchdog heeds it.
WatchedTurn == /\ \E still, asked : still = hung /\ asked = (asks # <<>>) /\ Solo(still, asked)
               /\ Heeds

LEMMA WatchedTurnStep ==
  ASSUME WatchInv, WatchInv', WatchedTurn, [WatchNext]_allVars, [Undisturbed]_allVars
  PROVE  WatchedTurn'
<1>1. PICK still, asked : still = hung /\ asked = (asks # <<>>) /\ Solo(still, asked)
  BY DEF WatchedTurn
<1>2. Heeds
  BY DEF WatchedTurn
<1>3. ASSUME Watched(Frontend) \/ Watched(Work), Undisturbed
      PROVE  WatchedTurn'
  <2>1. hung' = hung /\ asks' = asks
    BY <1>3 DEF Watched
  <2>2. Solo(still, asked)' /\ Heeds'
    BY <1>1, <1>2, <1>3, TurnHeeds
  <2>3. still = hung' /\ asked = (asks' # <<>>)
    BY <1>1, <2>1
  <2> QED
    BY <2>2, <2>3 DEF WatchedTurn
<1>4. CASE ReadEvent
  <2>1. UNCHANGED vars /\ hung' = hung /\ asks' = asks
    BY <1>4 DEF ReadEvent
  <2>2. Solo(still, asked)'
    BY <1>1, <2>1, SoloStands
  <2>3. still = hung' /\ asked = (asks' # <<>>)
    BY <1>1, <2>1
  <2>4. Heeds'
    BY <1>2, <1>4, ReadHeeds
  <2> QED
    BY <2>2, <2>3, <2>4 DEF WatchedTurn
<1>5. CASE Trip
  <2>1. hung' = hung /\ asked = FALSE
    BY <1>1, <1>5 DEF Trip, Silence, CaughtUp
  <2>2. Solo(still, FALSE)
    BY <1>1, <2>1
  <2>3. Solo(still, TRUE)' /\ Heeds' /\ asks' # <<>>
    BY <1>1, <1>2, <1>5, <2>2, TripHeeds
  <2>4. still = hung' /\ TRUE = (asks' # <<>>)
    BY <1>1, <2>1, <2>3
  <2> QED
    BY <2>3, <2>4 DEF WatchedTurn
<1>6. CASE ApplyAsk
  <2>1. hung' = hung /\ asked = TRUE
    BY <1>1, <1>6 DEF ApplyAsk
  <2>2. Solo(still, TRUE)
    BY <1>1, <2>1
  <2>3. Solo(still, FALSE)' /\ Heeds' /\ asks' = <<>>
    BY <1>2, <1>6, <2>2, ApplyHeeds
  <2>4. still = hung' /\ FALSE = (asks' # <<>>)
    BY <1>1, <2>1, <2>3
  <2> QED
    BY <2>3, <2>4 DEF WatchedTurn
<1>7. ASSUME NEW g \in Gens, Hang(g)
      PROVE  WatchedTurn'
  <2>1. PICK new : new = hung'
    OBVIOUS
  <2>2. Solo(new, asked)'
    BY <1>1, <1>7, <2>1, HangSolo
  <2>3. asked = (asks' # <<>>)
    BY <1>1, <1>7 DEF Hang
  <2>4. Heeds'
    <3>1. UNCHANGED <<llmBox, sessionBox, stream, aborted, phase, asks, feed, watch>>
      BY <1>7 DEF Hang, vars, sessionVars, llmVars, toolVars, userVars
    <3> QED
      BY <1>2, <3>1 DEF Heeds, Verdict, Talking, Open, Live, Gens, Requested, Cancelling
  <2> QED
    BY <2>1, <2>2, <2>3, <2>4 DEF WatchedTurn
<1>8. CASE UNCHANGED allVars
  <2>1. UNCHANGED vars /\ UNCHANGED watchVars
    BY <1>8 DEF allVars
  <2>2. UNCHANGED <<feed, watch, asks, hung>>
    BY <2>1 DEF watchVars
  <2>3. Solo(still, asked)'
    BY <1>1, <2>1, SoloStands
  <2>4. still = hung' /\ asked = (asks' # <<>>)
    BY <1>1, <2>2
  <2>5. Heeds'
    <3>1. UNCHANGED <<llmBox, sessionBox, stream, aborted, phase, asks, feed, watch>>
      BY <2>1, <2>2 DEF vars, sessionVars, llmVars, toolVars, userVars
    <3> QED
      BY <1>2, <3>1 DEF Heeds, Verdict, Talking, Open, Live, Gens, Requested, Cancelling
  <2> QED
    BY <2>3, <2>4, <2>5 DEF WatchedTurn
<1>9. WatchNext \/ UNCHANGED allVars
  OBVIOUS
<1>10. Undisturbed \/ UNCHANGED allVars
  OBVIOUS
<1> QED
  BY <1>3, <1>4, <1>5, <1>6, <1>7, <1>8, <1>9, <1>10 DEF WatchNext, Guest

LEMMA WatchedTurnInit == WatchInit => WatchedTurn
<1> SUFFICES ASSUME WatchInit
             PROVE  WatchedTurn
  OBVIOUS
<1>1. Init /\ feed = <<>> /\ watch = Unwatched /\ asks = <<>>
  BY DEF WatchInit
<1>2. PICK still : still = hung
  OBVIOUS
<1>3. Solo(still, FALSE)
  BY <1>1, SoloInit
<1>4. ~Requested /\ ~Talking /\ ~Carrying(sessionBox, EndMsg)
  BY <1>1 DEF Init, Requested, Talking, Gens, Carrying, Mail
<1>5. ~Verdict
  BY <1>1 DEF Verdict, Unwatched
<1>6. Len(asks) <= 1
  BY <1>1
<1> QED
  BY <1>1, <1>2, <1>3, <1>4, <1>5, <1>6 DEF WatchedTurn, Heeds

LEMMA WatchedTurnInvariant ==
  WatchSpec /\ [][Undisturbed]_allVars => [](WatchInv /\ WatchedTurn)
<1>1. WatchInv /\ WatchedTurn /\ WatchInv' /\ [WatchNext]_allVars /\ [Undisturbed]_allVars => WatchedTurn'
  BY WatchedTurnStep
<1> QED
  BY <1>1, WatchedTurnInit, WatchInvariant, PTL DEF WatchSpec

-----------------------------------------------------------------------------
\* Once the actors have caught up, a stream that is still open has a timer running on it:
\* nobody cancelled the turn and no dispatch overtook another, and every end, restart and
\* cancel the guest has read in between was of this stream's past.
THEOREM NoStreamUnwatched ==
  WatchSpec /\ [][Undisturbed]_allVars => []LiveStreamsWatched
<1>1. WatchInv /\ WatchedTurn => LiveStreamsWatched
  <2> SUFFICES ASSUME WatchInv, WatchedTurn, CaughtUp, Talking
               PROVE  watch.armed
    BY DEF LiveStreamsWatched, Talking
  <2>1. llmBox = <<>> /\ asks = <<>> /\ feed = <<>>
    BY DEF CaughtUp
  <2>2. ~Cancelling
    BY <2>1 DEF Cancelling, Carrying, Mail
  <2>3. Verdict
    BY <2>2 DEF WatchedTurn, Heeds
  <2> QED
    BY <2>1, <2>3 DEF Verdict
<1> QED
  BY <1>1, WatchedTurnInvariant, PTL

\* Under the same hypothesis a timer that runs when the actors have caught up runs on a turn
\* that has not ended: no restart and no giving up reaches a session at rest.
THEOREM NoTimerAtRest ==
  WatchSpec /\ [][Undisturbed]_allVars => []TimersHaveTurns
<1>1. WatchInv /\ WatchedTurn => TimersHaveTurns
  <2> SUFFICES ASSUME WatchedTurn, CaughtUp, watch.armed
               PROVE  phase # "Idle"
    BY DEF TimersHaveTurns
  <2>1. feed = <<>>
    BY DEF CaughtUp
  <2>2. Verdict
    BY <2>1 DEF Verdict
  <2> QED
    BY <2>2 DEF WatchedTurn, Heeds
<1> QED
  BY <1>1, WatchedTurnInvariant, PTL

\* Restarts and cancels of the watchdog included, a continuation is assembled from a
\* history that holds the result of the batch it continues.
THEOREM ContinuedUnderWatch ==
  WatchSpec /\ [][Undisturbed]_allVars => []ContinuedWithResult
<1>1. WatchInv /\ WatchedTurn => ContinuedWithResult
  BY DEF WatchedTurn, Solo, ToolsAnswer, ContinuedWithResult, Dispatching
<1> QED
  BY <1>1, WatchedTurnInvariant, PTL

=============================================================================
