------------------------ MODULE McpConnectionsProofs ------------------------
(* What holds of an MCP server's actors for any number of picker confirms,    *)
(* restarts and deaths.                                                       *)
EXTENDS McpConnections, SequenceTheorems, FiniteSetTheorems, TLAPS

-----------------------------------------------------------------------------
(* Mailboxes *)

Boxes == Seq({"call", "stop"})

\* The one mailbox a step appends to or takes from stays a mailbox.
LEMMA BoxClosed ==
  ASSUME NEW b \in Boxes
  PROVE  /\ Append(b, "stop") \in Boxes /\ Append(b, "call") \in Boxes
         /\ b # <<>> => Tail(b) \in Boxes
         /\ <<>> \in Boxes
BY DEF Boxes

\* What the coordinator finds at the head of its mailbox.
LEMMA CoordHead ==
  ASSUME coordBox \in Seq(CoordMsgs), NEW type, NextMsg(type)
  PROVE  /\ Head(coordBox) \in CoordMsgs /\ Head(coordBox).type = type
         /\ coordBox # <<>> /\ starting = 0
         /\ coordBox' = Tail(coordBox) /\ coordBox' \in Seq(CoordMsgs)
BY DEF NextMsg

\* What is published to the coordinator and the orchestrator is of their kinds.
LEMMA MessageKinds ==
  /\ [type |-> "SessionCreated"] \in CoordMsgs
  /\ [type |-> "RestartMcpServer"] \in CoordMsgs
  /\ \A on \in BOOLEAN : [type |-> "McpEnablementChanged", on |-> on] \in CoordMsgs
  /\ \A s \in Statuses : [type |-> "McpServerStatus", status |-> s] \in CoordMsgs
  /\ \A m \in CoordMsgs : /\ m.type = "McpEnablementChanged" => m.on \in BOOLEAN
                          /\ m.type = "McpServerStatus" => m.status \in Statuses
BY DEF CoordMsgs

-----------------------------------------------------------------------------
(* Types *)

\* The actors and their mailboxes are of the same length, and the coordinator
\* tracks one of them or none.
ActorTypes ==
  /\ actor \in Seq(ActorStates) /\ box \in Seq(Boxes) /\ DOMAIN box = Ids
  /\ tracked \in 0..Len(actor)

\* What kill_one and spawn_one do to the list of actors, together or apart.
LEMMA StopBoxClosed ==
  ASSUME ActorTypes, NEW id \in 0..Len(actor)
  PROVE  /\ StopBox(id) \in Seq(Boxes) /\ DOMAIN StopBox(id) = Ids
         /\ \A i \in Ids : StopBox(id)[i] = IF i = id THEN Append(box[i], "stop") ELSE box[i]
<1>1. Len(actor) \in Nat /\ Ids = 1..Len(actor) /\ box \in [Ids -> Boxes]
  BY DEF ActorTypes, Ids
<1>2. CASE id = 0
  BY <1>1, <1>2 DEF ActorTypes, StopBox, Ids
<1>3. CASE id # 0
  <2>1. id \in Ids /\ box[id] \in Boxes
    BY <1>1, <1>3
  <2>2. Append(box[id], "stop") \in Boxes
    BY <2>1, BoxClosed
  <2> QED
    BY <1>1, <1>3, <2>1, <2>2 DEF ActorTypes, StopBox, Ids
<1> QED
  BY <1>2, <1>3

LEMMA SpawnClosed ==
  ASSUME ActorTypes, NEW boxes \in Seq(Boxes), DOMAIN boxes = Ids, Spawn(boxes)
  PROVE  /\ ActorTypes' /\ tracked' = Len(actor) + 1 /\ Len(actor') = Len(actor) + 1
         /\ \A i \in Ids : actor'[i] = actor[i] /\ box'[i] = boxes[i]
         /\ actor'[Len(actor) + 1] = "spawned" /\ box'[Len(actor) + 1] = <<>>
<1>1. Len(actor) \in Nat /\ Len(boxes) = Len(actor) /\ <<>> \in Boxes
  <2>1. Len(actor) \in Nat /\ Len(boxes) \in Nat /\ 1..Len(boxes) = 1..Len(actor)
    BY LenProperties DEF ActorTypes, Ids
  <2>2. \A m, n \in Nat : 1..m = 1..n => m = n
    OBVIOUS
  <2>3. <<>> \in Boxes
    BY DEF Boxes
  <2> QED
    BY <2>1, <2>2, <2>3
<1>2. "spawned" \in ActorStates
  BY DEF ActorStates
<1>3. actor' = Append(actor, "spawned") /\ box' = Append(boxes, <<>>)
      /\ tracked' = Len(actor) + 1
  BY DEF Spawn
<1>4. /\ actor' \in Seq(ActorStates) /\ Len(actor') = Len(actor) + 1
      /\ actor'[Len(actor) + 1] = "spawned"
      /\ \A i \in 1..Len(actor) : actor'[i] = actor[i]
  BY <1>1, <1>2, <1>3 DEF ActorTypes
<1>5. /\ box' \in Seq(Boxes) /\ Len(box') = Len(actor) + 1
      /\ box'[Len(actor) + 1] = <<>>
      /\ \A i \in 1..Len(actor) : box'[i] = boxes[i]
  BY <1>1, <1>3
<1>6. DOMAIN box' = Ids'
  BY <1>4, <1>5 DEF Ids
<1> QED
  BY <1>1, <1>3, <1>4, <1>5, <1>6 DEF ActorTypes, Ids

LEMMA KillClosed ==
  ASSUME ActorTypes, Kill
  PROVE  /\ ActorTypes' /\ tracked' = 0 /\ actor' = actor
         /\ \A i \in Ids : box'[i] = IF i = tracked THEN Append(box[i], "stop") ELSE box[i]
BY StopBoxClosed DEF Kill, ActorTypes, Ids


\* A step of one actor changes that actor only.
LEMMA ActorStepClosed ==
  ASSUME ActorTypes, NEW id \in Ids, NEW from, NEW to \in ActorStates, ActorStep(id, from, to)
  PROVE  /\ actor' \in Seq(ActorStates) /\ Len(actor') = Len(actor) /\ Ids' = Ids
         /\ \A i \in Ids : actor'[i] = IF i = id THEN to ELSE actor[i]
         /\ actor[id] \in from /\ tracked' = tracked
<1>1. actor' = [actor EXCEPT ![id] = to] /\ id \in 1..Len(actor)
  BY DEF ActorStep, Ids
<1>2. actor' \in Seq(ActorStates) /\ Len(actor') = Len(actor)
      /\ \A i \in Ids : actor'[i] = IF i = id THEN to ELSE actor[i]
  BY <1>1, ExceptSeq DEF ActorTypes, Ids
<1> QED
  BY <1>2 DEF ActorStep, Ids

\* Its mailbox loses its head or everything.
LEMMA BoxStepClosed ==
  ASSUME ActorTypes, NEW id \in Ids, NEW b \in Boxes, box' = [box EXCEPT ![id] = b]
  PROVE  /\ box' \in Seq(Boxes) /\ DOMAIN box' = Ids
         /\ \A i \in Ids : box'[i] = IF i = id THEN b ELSE box[i]
<1>1. id \in 1..Len(box) /\ Ids = 1..Len(box)
  BY LenProperties DEF ActorTypes
<1> QED
  BY <1>1, ExceptSeq DEF ActorTypes

\* McpTypeOK in the parts that steps leave alone or change together.
Rest ==
  /\ enabled \in BOOLEAN /\ status \in Statuses \cup {"none"}
  /\ routable \in BOOLEAN /\ confirmed \in Seq(BOOLEAN) /\ overtaken \in BOOLEAN
  /\ call \in {"idle", "routed", "answered"}
  /\ budget \in [Inputs -> Nat] /\ restarted \in BOOLEAN
Waits == starting \in {0, tracked}
Mail == coordBox \in Seq(CoordMsgs) /\ orchBox \in Seq(OrchMsgs)
Marks ==
  /\ up \subseteq {id \in Ids : actor[id] \in {"listed", "running", "calling"}}
  /\ watched \subseteq {id \in Ids : actor[id] \in {"running", "calling"}}
  /\ served \subseteq Ids

LEMMA Parts == /\ McpTypeOK <=> ActorTypes /\ Rest /\ Waits /\ Mail /\ Marks
               /\ McpTypeOK' <=> ActorTypes' /\ Rest' /\ Waits' /\ Mail' /\ Marks'
BY DEF McpTypeOK, ActorTypes, Rest, Waits, Mail, Marks, Boxes

\* Taking one element out of a sequence: what is left keeps its last one, if that was
\* not the one taken.
LEMMA RemoveAtLeaves ==
  ASSUME NEW S, NEW q \in Seq(S), NEW i \in DOMAIN q
  PROVE  /\ RemoveAt(q, i) \in Seq(S)
         /\ Len(q) = 1 => RemoveAt(q, i) = <<>>
         /\ i # Len(q) => /\ RemoveAt(q, i) # <<>>
                          /\ RemoveAt(q, i)[Len(RemoveAt(q, i))] = q[Len(q)]
<1> DEFINE front == SubSeq(q, 1, i - 1)
           back == SubSeq(q, i + 1, Len(q))
<1>1. Len(q) \in Nat /\ DOMAIN q = 1..Len(q) /\ i \in 1..Len(q) /\ \A k \in 1..Len(q) : q[k] \in S
  BY LenProperties
<1>2. front \in Seq(S) /\ Len(front) = i - 1
  BY <1>1, SubSeqProperties
<1>3. /\ back \in Seq(S) /\ Len(back) = Len(q) - i
      /\ \A k \in 1..(Len(q) - i) : back[k] = q[i + k]
  BY <1>1, SubSeqProperties
<1>4. RemoveAt(q, i) = front \o back
  BY DEF RemoveAt
<1> HIDE DEF front, back
<1>5. /\ RemoveAt(q, i) \in Seq(S) /\ Len(RemoveAt(q, i)) = Len(q) - 1
      /\ \A k \in 1..Len(back) : RemoveAt(q, i)[Len(front) + k] = back[k]
  <2>1. front \o back \in Seq(S) /\ Len(front \o back) = Len(front) + Len(back)
    BY <1>2, <1>3, ConcatProperties
  <2>2. ASSUME NEW k \in 1..Len(back) PROVE (front \o back)[Len(front) + k] = back[k]
    <3>1. Len(front) \in Nat /\ Len(back) \in Nat /\ k \in Nat /\ k > 0
      BY <1>2, <1>3, <2>2, LenProperties
    <3>2. Len(front) + k \in 1..(Len(front) + Len(back)) /\ Len(front) + k > Len(front)
          /\ (Len(front) + k) - Len(front) = k
      BY <2>2, <3>1
    <3>3. (front \o back)[Len(front) + k] =
            IF Len(front) + k <= Len(front) THEN front[Len(front) + k]
            ELSE back[(Len(front) + k) - Len(front)]
      BY <1>2, <1>3, <3>2, ConcatProperties
    <3> QED
      BY <3>1, <3>2, <3>3
  <2>3. Len(front) + Len(back) = Len(q) - 1
    BY <1>1, <1>2, <1>3
  <2> QED
    BY <1>4, <2>1, <2>2, <2>3
<1>6. Len(q) = 1 => RemoveAt(q, i) = <<>>
  BY <1>1, <1>5, EmptySeq
<1>7. ASSUME i # Len(q)
      PROVE  RemoveAt(q, i) # <<>> /\ RemoveAt(q, i)[Len(RemoveAt(q, i))] = q[Len(q)]
  <2>1. Len(back) \in 1..Len(back) /\ Len(front) + Len(back) = Len(q) - 1
    BY <1>1, <1>2, <1>3, <1>7
  <2>2. RemoveAt(q, i)[Len(q) - 1] = back[Len(back)] /\ back[Len(back)] = q[Len(q)]
    <3>1. Len(front) + Len(back) = Len(q) - 1 /\ i + Len(back) = Len(q)
          /\ Len(back) \in 1..(Len(q) - i)
      BY <1>1, <1>3, <2>1
    <3>2. RemoveAt(q, i)[Len(front) + Len(back)] = back[Len(back)]
      BY <1>5, <2>1
    <3>3. back[Len(back)] = q[i + Len(back)]
      BY <1>3, <3>1
    <3> QED
      BY <3>1, <3>2, <3>3
  <2> QED
    BY <1>1, <1>5, <1>7, <2>2
<1> QED
  BY <1>5, <1>6, <1>7

LEMMA SpendClosed ==
  ASSUME budget \in [Inputs -> Nat], NEW kind \in Inputs, Spend(kind)
  PROVE  budget' \in [Inputs -> Nat]
BY DEF Spend

LEMMA PublishClosed ==
  ASSUME coordBox \in Seq(CoordMsgs), NEW s \in Statuses, PublishStatus(s)
  PROVE  coordBox' \in Seq(CoordMsgs)
BY MessageKinds DEF PublishStatus

\* The marks of the actors survive new actors and stay right of the others.
LEMMA MarksGrow ==
  ASSUME ActorTypes, Marks, UNCHANGED <<up, watched, served>>,
         Ids \subseteq Ids', \A i \in Ids : actor'[i] = actor[i]
  PROVE  Marks'
BY DEF Marks

-----------------------------------------------------------------------------
(* The steps of the types *)

LEMMA AskTypes ==
  ASSUME McpTypeOK, ConfirmPicker \/ PublishConfirmed \/ AskRestart \/ DispatchCall
  PROVE  McpTypeOK'
<1> USE Parts
<1>1. CASE ConfirmPicker
  <2>1. budget' \in [Inputs -> Nat]
    BY <1>1, SpendClosed DEF ConfirmPicker, Inputs, Rest
  <2>2. confirmed' \in Seq(BOOLEAN) /\ overtaken' \in BOOLEAN
    <3>1. confirmed \in Seq(BOOLEAN) /\ (~enabled) \in BOOLEAN
      BY DEF Rest
    <3>2. confirmed' = Append(confirmed, ~enabled) /\ overtaken' = FALSE
      BY <1>1 DEF ConfirmPicker
    <3>3. Append(confirmed, ~enabled) \in Seq(BOOLEAN)
      BY <3>1, AppendProperties
    <3> QED
      BY <3>2, <3>3
  <2> QED
    BY <1>1, <2>1, <2>2 DEF ConfirmPicker, Spend, coordVars, actorVars, orchVars, callVars,
       ActorTypes, Rest, Waits, Mail, Marks, Ids
<1>2. CASE PublishConfirmed
  <2>1. PICK i \in DOMAIN confirmed :
          /\ coordBox' = Append(coordBox, [type |-> "McpEnablementChanged", on |-> confirmed[i]])
          /\ confirmed' = RemoveAt(confirmed, i)
          /\ overtaken' = (overtaken \/ (i = Len(confirmed) /\ i > 1))
    BY <1>2 DEF PublishConfirmed
  <2>2. confirmed \in Seq(BOOLEAN) /\ confirmed[i] \in BOOLEAN /\ overtaken \in BOOLEAN
    BY <2>1, LenProperties DEF Rest
  <2>3. coordBox' \in Seq(CoordMsgs)
    BY <2>1, <2>2, MessageKinds DEF Mail
  <2>4. confirmed' \in Seq(BOOLEAN) /\ overtaken' \in BOOLEAN
    BY <2>1, <2>2, RemoveAtLeaves
  <2> QED
    BY <1>2, <2>3, <2>4 DEF PublishConfirmed, sharedVars, actorVars, orchVars, callVars,
       ActorTypes, Rest, Waits, Mail, Marks, Ids
<1>3. CASE AskRestart
  <2>1. budget' \in [Inputs -> Nat] /\ coordBox' \in Seq(CoordMsgs)
    BY <1>3, SpendClosed, MessageKinds DEF AskRestart, Inputs, Rest, Mail
  <2> QED
    BY <1>3, <2>1 DEF AskRestart, pickerVars, sharedVars, actorVars, orchVars, callVars,
       ActorTypes, Rest, Waits, Mail, Marks, Ids
<1>4. CASE DispatchCall
  <2>1. box' \in Seq(Boxes) /\ DOMAIN box' = Ids
    <3>1. CASE UNCHANGED box
      BY <3>1 DEF ActorTypes
    <3>2. CASE box' = [id \in Ids |-> IF Subscribed(id) THEN Append(box[id], "call")
                                     ELSE box[id]]
      <4>1. \A id \in Ids : box[id] \in Boxes
        BY LenProperties DEF ActorTypes
      <4>2. \A id \in Ids : (IF Subscribed(id) THEN Append(box[id], "call") ELSE box[id])
                              \in Boxes
        BY <4>1, BoxClosed
      <4>3. box' \in [1..Len(actor) -> Boxes] /\ Len(actor) \in Nat
        BY <3>2, <4>2 DEF Ids, ActorTypes
      <4> QED
        BY <4>3 DEF Ids
    <3> QED
      BY <1>4, <3>1, <3>2 DEF DispatchCall
  <2> QED
    BY <1>4, <2>1 DEF DispatchCall, sharedVars, coordVars, orchVars, inputVars, pickerVars,
       ActorTypes, Rest, Waits, Mail, Marks, Ids
<1> QED
  BY <1>1, <1>2, <1>3, <1>4

LEMMA ReconcileTypes ==
  ASSUME ActorTypes, NEW desired \in BOOLEAN, Reconcile(desired)
  PROVE  ActorTypes' /\ Ids \subseteq Ids' /\ \A i \in Ids : actor'[i] = actor[i]
<1>1. CASE Spawn(box)
  BY <1>1, SpawnClosed DEF ActorTypes, Ids
<1>2. CASE Kill
  BY <1>2, KillClosed DEF ActorTypes, Ids
<1>3. CASE UNCHANGED <<tracked, actor, box>>
  BY <1>3 DEF ActorTypes, Ids
<1> QED
  BY <1>1, <1>2, <1>3 DEF Reconcile

LEMMA CoordinatorTypes ==
  ASSUME McpTypeOK, Coordinator
  PROVE  McpTypeOK'
<1> USE Parts
<1>1. ASSUME NEW desired \in BOOLEAN, Reconcile(desired),
             NextMsg("SessionCreated") \/ NextMsg("McpEnablementChanged"),
             UNCHANGED <<sharedVars, starting, up, watched, orchVars, inputVars, pickerVars, callVars>>
      PROVE  McpTypeOK'
  <2>1. starting = 0 /\ coordBox' \in Seq(CoordMsgs)
    BY <1>1, CoordHead DEF Mail
  <2>2. ActorTypes' /\ Ids \subseteq Ids' /\ \A i \in Ids : actor'[i] = actor[i]
    BY <1>1, ReconcileTypes
  <2>3. Marks'
    BY <1>1, <2>2, MarksGrow DEF callVars
  <2> QED
    BY <1>1, <2>1, <2>2, <2>3 DEF sharedVars, orchVars, inputVars, pickerVars, callVars,
       Rest, Waits, Mail
<1>2. CASE HandleSessionCreated
  BY <1>1, <1>2 DEF HandleSessionCreated, Rest, inputVars
<1>3. CASE HandleEnablementChanged
  <2>1. Head(coordBox).on \in BOOLEAN
    BY <1>3, CoordHead, MessageKinds DEF HandleEnablementChanged, Mail
  <2> QED
    BY <1>1, <1>3, <2>1 DEF HandleEnablementChanged, inputVars
<1>4. CASE HandleRestart
  <2>1. coordBox' \in Seq(CoordMsgs)
    BY <1>4, CoordHead DEF HandleRestart, Mail
  <2>2. StopBox(tracked) \in Seq(Boxes) /\ DOMAIN StopBox(tracked) = Ids
    BY StopBoxClosed DEF ActorTypes
  <2>3. /\ ActorTypes' /\ Ids \subseteq Ids' /\ tracked' = Len(actor) + 1
        /\ \A i \in Ids : actor'[i] = actor[i]
    BY <1>4, <2>2, SpawnClosed DEF HandleRestart, ActorTypes, Ids
  <2>4. Marks'
    BY <1>4, <2>3, MarksGrow DEF HandleRestart, callVars
  <2> QED
    BY <1>4, <2>1, <2>3, <2>4 DEF HandleRestart, sharedVars, orchVars, inputVars, pickerVars, callVars,
       Rest, Waits, Mail
<1>5. CASE EndRestart
  BY <1>5 DEF EndRestart, sharedVars, actorVars, orchVars, inputVars, pickerVars, callVars,
     ActorTypes, Rest, Waits, Mail, Marks, Ids
<1>6. CASE HandleStatus
  <2>1. coordBox' \in Seq(CoordMsgs) /\ status' \in Statuses
    BY <1>6, CoordHead, MessageKinds DEF HandleStatus, Mail
  <2> QED
    BY <1>6, <2>1 DEF HandleStatus, actorVars, orchVars, inputVars, pickerVars, callVars,
       ActorTypes, Rest, Waits, Mail, Marks, Ids
<1> QED
  BY <1>2, <1>3, <1>4, <1>5, <1>6 DEF Coordinator


LEMMA OrchTypes ==
  ASSUME McpTypeOK, HandleOrch
  PROVE  McpTypeOK'
<1> USE Parts
<1>1. orchBox' \in Seq(OrchMsgs)
  BY DEF HandleOrch, Mail
<1>2. routable' \in BOOLEAN /\ call' \in {"idle", "routed", "answered"}
  BY DEF HandleOrch, Rest
<1> QED
  BY <1>1, <1>2 DEF HandleOrch, sharedVars, coordVars, actorVars, inputVars, pickerVars,
     ActorTypes, Rest, Waits, Mail, Marks, Ids

\* A step of one actor keeps the types if its mailbox stays one, what it publishes is
\* of its kind, and no mark of its own outlives the state the mark is for.
LEMMA ActorStepTypes ==
  ASSUME McpTypeOK, NEW id \in Ids, NEW from, NEW to \in ActorStates,
         ActorStep(id, from, to),
         box' \in Seq(Boxes), DOMAIN box' = Ids,
         coordBox' \in Seq(CoordMsgs), orchBox' \in Seq(OrchMsgs),
         budget' \in [Inputs -> Nat], UNCHANGED <<routable, call>>,
         up' \subseteq up \cup {id}, watched' \subseteq watched \cup {id},
         served' \subseteq served \cup {id},
         id \in up' => to \in {"listed", "running", "calling"},
         id \in watched' => to \in {"running", "calling"}
  PROVE  /\ McpTypeOK' /\ Ids' = Ids /\ UNCHANGED tracked
         /\ actor[id] \in from /\ actor'[id] = to
         /\ \A i \in Ids : i # id => actor'[i] = actor[i]
<1> USE Parts
<1>1. /\ actor' \in Seq(ActorStates) /\ Len(actor') = Len(actor) /\ Ids' = Ids
      /\ \A i \in Ids : actor'[i] = IF i = id THEN to ELSE actor[i]
      /\ actor[id] \in from /\ tracked' = tracked
  BY ActorStepClosed
<1>2. ActorTypes'
  BY <1>1 DEF ActorTypes
<1>3. Marks'
  BY <1>1 DEF Marks
<1>4. Rest' /\ Waits' /\ Mail'
  BY <1>1 DEF Rest, Waits, Mail, ActorStep, sharedVars, pickerVars
<1> QED
  BY <1>1, <1>2, <1>3, <1>4

\* The states an actor may be in to hold a mark.
LEMMA Marked ==
  ASSUME McpTypeOK, NEW id \in Ids
  PROVE  /\ id \in up => actor[id] \in {"listed", "running", "calling"}
         /\ id \in watched => actor[id] \in {"running", "calling"}
         /\ box[id] \in Boxes /\ box \in Seq(Boxes) /\ DOMAIN box = Ids
         /\ coordBox \in Seq(CoordMsgs) /\ orchBox \in Seq(OrchMsgs)
         /\ budget \in [Inputs -> Nat]
<1>1. ActorTypes /\ Marks /\ Mail /\ Rest
  BY Parts
<1>2. box[id] \in Boxes
  BY <1>1, LenProperties DEF ActorTypes
<1> QED
  BY <1>1, <1>2 DEF ActorTypes, Marks, Mail, Rest

\* What an actor does before it is told to stop, and after.
Before == {"spawned", "connecting", "listed", "running", "failed", "calling"}
After == {"stopping", "parted", "gone"}

\* The steps of an actor that neither take from its mailbox nor empty it.
LEMMA ActorSpeaks ==
  ASSUME McpTypeOK, NEW id \in Ids,
         Announce(id) \/ RegisterTools(id) \/ SayRunning(id) \/ ConnectFails(id)
         \/ EndCall(id) \/ SayDead(id)
  PROVE  /\ McpTypeOK' /\ Ids' = Ids /\ UNCHANGED <<box, tracked>>
         /\ actor[id] \in Before <=> actor'[id] \in Before
         /\ actor[id] \in Before \cup After /\ actor'[id] \in Before \cup After
         /\ \A i \in Ids : i # id => actor'[i] = actor[i]
<1> USE Marked DEF callVars, orchVars, ActorStates, Before, After
<1>1. CASE Announce(id)
  <2>1. ActorStep(id, {"spawned"}, "connecting") /\ coordBox' \in Seq(CoordMsgs)
    BY <1>1, PublishClosed DEF Announce, Statuses
  <2> QED
    BY <1>1, <2>1, ActorStepTypes DEF Announce, ActorStep
<1>2. CASE RegisterTools(id)
  <2>1. ActorStep(id, {"connecting"}, "listed") /\ orchBox' \in Seq(OrchMsgs)
    BY <1>2 DEF RegisterTools, OrchMsgs
  <2> QED
    BY <1>2, <2>1, ActorStepTypes DEF RegisterTools, ActorStep
<1>3. CASE SayRunning(id)
  <2>1. ActorStep(id, {"listed"}, "running") /\ coordBox' \in Seq(CoordMsgs)
    BY <1>3, PublishClosed DEF SayRunning, Statuses
  <2> QED
    BY <1>3, <2>1, ActorStepTypes DEF SayRunning, ActorStep
<1>4. CASE ConnectFails(id)
  <2>1. /\ ActorStep(id, {"connecting"}, "failed") /\ coordBox' \in Seq(CoordMsgs)
        /\ budget' \in [Inputs -> Nat]
    BY <1>4, PublishClosed, SpendClosed DEF ConnectFails, Statuses, Inputs
  <2> QED
    BY <1>4, <2>1, ActorStepTypes DEF ConnectFails, ActorStep
<1>5. CASE EndCall(id)
  <2>1. ActorStep(id, {"calling"}, "running") /\ orchBox' \in Seq(OrchMsgs)
    BY <1>5 DEF EndCall, Answer, OrchMsgs
  <2> QED
    BY <1>5, <2>1, ActorStepTypes DEF EndCall, ActorStep
<1>6. CASE SayDead(id)
  <2>1. ActorStep(id, {"stopping"}, "parted") /\ coordBox' \in Seq(CoordMsgs)
    BY <1>6, PublishClosed DEF SayDead, Statuses
  <2> QED
    BY <1>6, <2>1, ActorStepTypes DEF SayDead, ActorStep
<1> QED
  BY <1>1, <1>2, <1>3, <1>4, <1>5, <1>6

\* A death, and its report.
LEMMA DeathTypes ==
  ASSUME McpTypeOK, NEW id \in Ids, ServerDies(id) \/ ReportDeath(id)
  PROVE  McpTypeOK' /\ Ids' = Ids /\ UNCHANGED <<actor, box, tracked>>
<1> USE Parts
<1>1. CASE ServerDies(id)
  <2>1. budget' \in [Inputs -> Nat]
    BY <1>1, SpendClosed DEF ServerDies, Inputs, Rest
  <2> QED
    BY <1>1, <2>1 DEF ServerDies, pickerVars, sharedVars, coordVars, orchVars, callVars,
       ActorTypes, Rest, Waits, Mail, Marks, Ids
<1>2. CASE ReportDeath(id)
  <2>1. coordBox' \in Seq(CoordMsgs)
    BY <1>2, PublishClosed DEF ReportDeath, Statuses, Mail
  <2> QED
    BY <1>2, <2>1 DEF ReportDeath, sharedVars, orchVars, inputVars, pickerVars, callVars,
       ActorTypes, Rest, Waits, Mail, Marks, Ids
<1> QED
  BY <1>1, <1>2

\* An actor takes a call out of its mailbox, ...
LEMMA TakeCallTypes ==
  ASSUME McpTypeOK, NEW id \in Ids, TakeCall(id)
  PROVE  /\ McpTypeOK' /\ Ids' = Ids /\ UNCHANGED tracked
         /\ box[id] # <<>> /\ Head(box[id]) = "call" /\ box[id] \in Boxes
         /\ \A i \in Ids : box'[i] = IF i = id THEN Tail(box[id]) ELSE box[i]
         /\ actor[id] \in Before /\ actor'[id] \in Before
         /\ \A i \in Ids : i # id => actor'[i] = actor[i]
<1> USE Marked DEF ActorStates, Before
<1>1. box[id] \in Boxes /\ Tail(box[id]) \in Boxes /\ ActorTypes
  BY BoxClosed, Parts DEF TakeCall
<1>2. /\ box' \in Seq(Boxes) /\ DOMAIN box' = Ids
      /\ \A i \in Ids : box'[i] = IF i = id THEN Tail(box[id]) ELSE box[i]
  BY <1>1, BoxStepClosed DEF TakeCall
<1>3. orchBox' \in Seq(OrchMsgs)
  <2>1. orchBox \in Seq(OrchMsgs) /\ "ToolExecutionCompleted" \in OrchMsgs
    BY DEF OrchMsgs
  <2>2. Append(orchBox, "ToolExecutionCompleted") \in Seq(OrchMsgs)
    BY <2>1
  <2> QED
    BY <2>1, <2>2 DEF TakeCall, Answer
<1>4. CASE ActorStep(id, {"running"}, "calling") /\ served' = served \cup {id}
  BY <1>1, <1>2, <1>3, <1>4, ActorStepTypes DEF TakeCall, ActorStep
<1>5. CASE ActorStep(id, {"failed"}, "failed") /\ UNCHANGED served
  BY <1>1, <1>2, <1>3, <1>5, ActorStepTypes DEF TakeCall, ActorStep
<1> QED
  BY <1>4, <1>5 DEF TakeCall

\* ... finds the stop in it, ...
LEMMA StopTypes ==
  ASSUME McpTypeOK, NEW id \in Ids, BeginStop(id)
  PROVE  /\ McpTypeOK' /\ Ids' = Ids /\ UNCHANGED <<tracked, box>>
         /\ box[id] # <<>> /\ Head(box[id]) = "stop" /\ box[id] \in Boxes
         /\ actor'[id] = "stopping" /\ \A i \in Ids : i # id => actor'[i] = actor[i]
<1> USE Marked DEF ActorStates
<1>1. ActorStep(id, {"running", "failed"}, "stopping")
  BY DEF BeginStop
<1> QED
  BY <1>1, ActorStepTypes DEF BeginStop, ActorStep, callVars, orchVars

\* ... and is gone with the rest of it.
LEMMA UnregisterTypes ==
  ASSUME McpTypeOK, NEW id \in Ids, Unregister(id)
  PROVE  /\ McpTypeOK' /\ Ids' = Ids /\ UNCHANGED tracked
         /\ actor'[id] = "gone" /\ actor[id] = "parted"
         /\ \A i \in Ids : i # id => actor'[i] = actor[i] /\ box'[i] = box[i]
<1> USE Marked DEF ActorStates
<1>1. /\ box' \in Seq(Boxes) /\ DOMAIN box' = Ids
      /\ \A i \in Ids : i # id => box'[i] = box[i]
  BY BoxClosed, BoxStepClosed, Parts DEF Unregister
<1>2. orchBox' \in Seq(OrchMsgs)
  BY DEF Unregister, OrchMsgs
<1>3. ActorStep(id, {"parted"}, "gone")
  BY DEF Unregister
<1>4. /\ actor[id] = "parted" /\ UNCHANGED <<coordBox, up, watched, routable, call, served, budget>>
  BY <1>3 DEF Unregister, ActorStep, callVars
<1> QED
  BY <1>1, <1>2, <1>3, <1>4, ActorStepTypes DEF ActorStep

\* Every variable holds a value of its kind; an open transport has an actor that has
\* connected and not stopped, a running liveness watcher has an actor that runs, and a
\* restart waits for the actor it spawned.
THEOREM McpTypeCorrect == Spec => []McpTypeOK
<1>1. Init => McpTypeOK
  <2> SUFFICES ASSUME Init PROVE McpTypeOK
    OBVIOUS
  <2>1. coordBox \in Seq(CoordMsgs) /\ orchBox \in Seq(OrchMsgs)
    BY MessageKinds DEF Init
  <2>2. budget \in [Inputs -> Nat]
    BY BudgetAssumption DEF Init
  <2>3. /\ actor \in Seq(ActorStates) /\ box \in Seq(Seq({"call", "stop"})) /\ DOMAIN box = Ids
        /\ Len(actor) = 0
    BY DEF Init, Ids
  <2>4. Rest
    <3>1. confirmed \in Seq(BOOLEAN)
      BY EmptySeq DEF Init
    <3> QED
      BY <2>2, <3>1 DEF Init, Rest
  <2>5. ActorTypes /\ Waits /\ Marks
    BY <2>3 DEF Init, ActorTypes, Waits, Marks, Boxes
  <2> QED
    BY <2>1, <2>4, <2>5, Parts DEF Mail
<1>2. McpTypeOK /\ [Next]_vars => McpTypeOK'
  <2> SUFFICES ASSUME McpTypeOK, [Next]_vars PROVE McpTypeOK'
    OBVIOUS
  <2>1. CASE \E id \in Ids : Actor(id) \/ ConnectFails(id) \/ ServerDies(id)
    BY <2>1, ActorSpeaks, DeathTypes, TakeCallTypes, StopTypes, UnregisterTypes DEF Actor
  <2>2. CASE UNCHANGED vars
    BY <2>2 DEF vars, sharedVars, coordVars, actorVars, orchVars, inputVars, pickerVars, callVars,
       McpTypeOK, Ids
  <2> QED
    BY <2>1, <2>2, AskTypes, CoordinatorTypes, OrchTypes DEF Next, Work
<1> QED
  BY <1>1, <1>2, PTL DEF Spec

-----------------------------------------------------------------------------
(* What has been told to stop *)

HasStop(b) == \E i \in DOMAIN b : b[i] = "stop"

LEMMA StopInBox ==
  ASSUME NEW b \in Boxes
  PROVE  /\ HasStop(Append(b, "stop")) /\ ~HasStop(<<>>)
         /\ HasStop(Append(b, "call")) <=> HasStop(b)
         /\ b # <<>> /\ Head(b) = "call" => (HasStop(Tail(b)) <=> HasStop(b))
         /\ b # <<>> /\ Head(b) = "stop" => HasStop(b)
<1>1. b \in Seq({"call", "stop"}) /\ Len(b) \in Nat /\ DOMAIN b = 1..Len(b)
  BY DEF Boxes
<1>2. HasStop(Append(b, "stop"))
  <2>1. Append(b, "stop")[Len(b) + 1] = "stop" /\ Len(b) + 1 \in DOMAIN Append(b, "stop")
    BY <1>1
  <2> QED
    BY <2>1 DEF HasStop
<1>3. HasStop(Append(b, "call")) <=> HasStop(b)
  <2>1. /\ DOMAIN Append(b, "call") = 1..(Len(b) + 1)
        /\ Append(b, "call")[Len(b) + 1] = "call"
        /\ \A i \in 1..Len(b) : Append(b, "call")[i] = b[i]
    BY <1>1
  <2> QED
    BY <1>1, <2>1 DEF HasStop
<1>4. ASSUME b # <<>>, Head(b) = "call" PROVE HasStop(Tail(b)) <=> HasStop(b)
  <2>1. /\ Len(Tail(b)) = Len(b) - 1 /\ DOMAIN Tail(b) = 1..(Len(b) - 1)
        /\ \A i \in 1..(Len(b) - 1) : Tail(b)[i] = b[i + 1]
        /\ b[1] = "call"
    BY <1>1, <1>4
  <2>2. ASSUME NEW i \in DOMAIN b, b[i] = "stop" PROVE HasStop(Tail(b))
    <3>1. i - 1 \in DOMAIN Tail(b) /\ Tail(b)[i - 1] = "stop"
      BY <1>1, <2>1, <2>2
    <3> QED
      BY <3>1 DEF HasStop
  <2>3. ASSUME NEW i \in DOMAIN Tail(b), Tail(b)[i] = "stop" PROVE HasStop(b)
    <3>1. i + 1 \in DOMAIN b /\ b[i + 1] = "stop"
      BY <1>1, <2>1, <2>3
    <3> QED
      BY <3>1 DEF HasStop
  <2> QED
    BY <2>2, <2>3 DEF HasStop
<1>5. ASSUME b # <<>>, Head(b) = "stop" PROVE HasStop(b)
  BY <1>1, <1>5 DEF HasStop
<1> QED
  BY <1>2, <1>3, <1>4, <1>5 DEF HasStop

Stops(state, b) == state \in After \/ HasStop(b)

LEMMA ToldIs ==
  /\ NoOrphanActor <=> \A id \in Ids : Stops(actor[id], box[id]) <=> id # tracked
  /\ NoOrphanActor' <=> \A id \in Ids' : Stops(actor'[id], box'[id]) <=> id # tracked'
BY DEF NoOrphanActor, Told, HasStop, After, Stops

LEMMA NewIsUntold == ~Stops("spawned", <<>>)
BY DEF Stops, HasStop, After

LEMMA StopsIs ==
  ASSUME NEW state, NEW b \in Boxes
  PROVE  /\ Stops(state, Append(b, "stop"))
         /\ state \notin After => ~Stops(state, <<>>)
         /\ Stops(state, Append(b, "call")) <=> Stops(state, b)
BY StopInBox DEF Stops

\* Who is tracked has not been told, and all the others have; kill_one tells the one
\* it takes out of the map, spawn_one the one that was there before.
LEMMA ReconcileTells ==
  ASSUME ActorTypes, NoOrphanActor, NEW desired \in BOOLEAN, Reconcile(desired)
  PROVE  NoOrphanActor'
<1>1. ActorTypes' /\ Ids \subseteq Ids' /\ \A i \in Ids : actor'[i] = actor[i] /\ box[i] \in Boxes
  BY ReconcileTypes, LenProperties DEF ActorTypes
<1>2. CASE tracked = 0 /\ Spawn(box)
  <2>1. /\ tracked' = Len(actor) + 1 /\ Ids' = 1..(Len(actor) + 1)
        /\ \A i \in Ids : actor'[i] = actor[i] /\ box'[i] = box[i]
        /\ actor'[tracked'] = "spawned" /\ box'[tracked'] = <<>>
    BY <1>2, SpawnClosed DEF ActorTypes, Ids
  <2>2. ~Stops(actor'[tracked'], box'[tracked'])
    BY <2>1, NewIsUntold
  <2>3. \A i \in Ids : Stops(actor'[i], box'[i]) /\ i # tracked'
    BY <1>2, <2>1, ToldIs DEF Ids, ActorTypes
  <2>4. \A i \in Ids' : i \in Ids \/ i = tracked'
    BY <2>1 DEF Ids, ActorTypes
  <2> QED
    BY <2>2, <2>3, <2>4, ToldIs
<1>3. CASE tracked # 0 /\ Kill
  <2>1. /\ tracked' = 0 /\ actor' = actor /\ Ids' = Ids /\ tracked \in Ids
        /\ \A i \in Ids : box'[i] = IF i = tracked THEN Append(box[i], "stop") ELSE box[i]
    BY <1>3, KillClosed DEF ActorTypes, Ids
  <2>2. ASSUME NEW i \in Ids PROVE Stops(actor'[i], box'[i]) /\ i # tracked'
    <3>1. CASE i = tracked
      BY <1>1, <2>1, <3>1, StopsIs DEF Ids
    <3>2. CASE i # tracked
      BY <2>1, <3>2, ToldIs DEF Ids
    <3> QED
      BY <3>1, <3>2
  <2> QED
    BY <2>1, <2>2, ToldIs
<1>4. CASE UNCHANGED <<tracked, actor, box>>
  BY <1>4 DEF NoOrphanActor, Told, Ids
<1> QED
  BY <1>2, <1>3, <1>4 DEF Reconcile

LEMMA RestartTells ==
  ASSUME ActorTypes, NoOrphanActor, Spawn(StopBox(tracked))
  PROVE  NoOrphanActor'
<1>1. /\ StopBox(tracked) \in Seq(Boxes) /\ DOMAIN StopBox(tracked) = Ids
      /\ \A i \in Ids : StopBox(tracked)[i]
                          = IF i = tracked THEN Append(box[i], "stop") ELSE box[i]
  BY StopBoxClosed DEF ActorTypes
<1>2. /\ tracked' = Len(actor) + 1 /\ Ids' = 1..(Len(actor) + 1) /\ Ids = 1..Len(actor)
      /\ \A i \in Ids : actor'[i] = actor[i] /\ box'[i] = StopBox(tracked)[i]
      /\ actor'[tracked'] = "spawned" /\ box'[tracked'] = <<>>
  BY <1>1, SpawnClosed DEF ActorTypes, Ids
<1>3. ~Stops(actor'[tracked'], box'[tracked'])
  BY <1>2, NewIsUntold
<1>4. \A i \in Ids : box[i] \in Boxes
  BY LenProperties DEF ActorTypes
<1>5. ASSUME NEW i \in Ids PROVE Stops(actor'[i], box'[i])
  <2>1. CASE i = tracked
    <3>1. box'[i] = Append(box[i], "stop")
      BY <1>1, <1>2, <2>1
    <3> QED
      BY <1>4, <3>1, StopsIs
  <2>2. CASE i # tracked
    <3>1. actor'[i] = actor[i] /\ box'[i] = box[i]
      BY <1>1, <1>2, <2>2
    <3>2. Stops(actor[i], box[i])
      BY <2>2, ToldIs
    <3> QED
      BY <3>1, <3>2
  <2> QED
    BY <2>1, <2>2
<1>6. \A i \in Ids' : (i \in Ids /\ i # tracked') \/ i = tracked'
  BY <1>2 DEF ActorTypes
<1> QED
  BY <1>3, <1>5, <1>6, ToldIs

\* A call put behind whatever a mailbox holds tells nobody to stop.
LEMMA DispatchTells ==
  ASSUME ActorTypes, NoOrphanActor, DispatchCall
  PROVE  NoOrphanActor'
<1>1. UNCHANGED <<actor, tracked>> /\ Ids' = Ids
  BY DEF DispatchCall, coordVars, Ids
<1>2. \A i \in Ids : box[i] \in Boxes
  BY LenProperties DEF ActorTypes
<1>3. \A i \in Ids : box'[i] = box[i] \/ box'[i] = Append(box[i], "call")
  BY DEF DispatchCall
<1>4. ASSUME NEW i \in Ids PROVE Stops(actor'[i], box'[i]) <=> Stops(actor[i], box[i])
  <2>1. CASE box'[i] = box[i]
    BY <1>1, <2>1
  <2>2. CASE box'[i] = Append(box[i], "call")
    BY <1>1, <1>2, <2>2, StopsIs
  <2> QED
    BY <1>3, <2>1, <2>2
<1> QED
  BY <1>1, <1>4, ToldIs

\* Nor do an actor's own steps: it stops only when told.
LEMMA ActorTells ==
  ASSUME McpTypeOK, NoOrphanActor, NEW id \in Ids, Actor(id) \/ ConnectFails(id)
  PROVE  NoOrphanActor'
<1> USE DEF Before, After
<1>1. CASE Announce(id) \/ RegisterTools(id) \/ SayRunning(id) \/ ConnectFails(id)
           \/ EndCall(id) \/ SayDead(id)
  <2>1. /\ Ids' = Ids /\ UNCHANGED <<box, tracked>>
        /\ \A i \in Ids : actor'[i] \in After <=> actor[i] \in After
    BY <1>1, ActorSpeaks
  <2> QED
    BY <2>1, ToldIs DEF Stops
<1>2. CASE ReportDeath(id)
  BY <1>2, DeathTypes, ToldIs
<1>3. CASE TakeCall(id)
  <2>1. \A i \in Ids : HasStop(box'[i]) <=> HasStop(box[i])
    BY <1>3, TakeCallTypes, StopInBox
  <2>2. /\ Ids' = Ids /\ UNCHANGED tracked
        /\ \A i \in Ids : actor'[i] \in After <=> actor[i] \in After
    BY <1>3, TakeCallTypes
  <2> QED
    BY <2>1, <2>2, ToldIs DEF Stops
<1>4. CASE BeginStop(id)
  <2>1. Stops(actor[id], box[id]) /\ Stops(actor'[id], box'[id])
    BY <1>4, StopTypes, StopInBox DEF Stops
  <2>2. Ids' = Ids /\ UNCHANGED <<box, tracked>> /\ \A i \in Ids : i # id => actor'[i] = actor[i]
    BY <1>4, StopTypes
  <2> QED
    BY <2>1, <2>2, ToldIs DEF Stops
<1>5. CASE Unregister(id)
  <2>1. Stops(actor[id], box[id]) /\ Stops(actor'[id], box'[id])
    BY <1>5, UnregisterTypes DEF Stops
  <2>2. /\ Ids' = Ids /\ UNCHANGED tracked
        /\ \A i \in Ids : i # id => actor'[i] = actor[i] /\ box'[i] = box[i]
    BY <1>5, UnregisterTypes
  <2> QED
    BY <2>1, <2>2, ToldIs DEF Stops
<1> QED
  BY <1>1, <1>2, <1>3, <1>4, <1>5 DEF Actor

\* A step that concerns neither the actors nor the map tells nobody.
LEMMA OthersTell ==
  ASSUME NoOrphanActor, UNCHANGED <<actor, box, tracked>>
  PROVE  NoOrphanActor'
BY DEF NoOrphanActor, Told, Ids

LEMMA NextTells ==
  ASSUME McpTypeOK, NoOrphanActor, [Next]_vars
  PROVE  NoOrphanActor'
<1>1. ActorTypes /\ Rest /\ Mail
  BY Parts
<1>2. CASE ConfirmPicker \/ PublishConfirmed \/ AskRestart \/ HandleOrch \/ EndRestart
           \/ HandleStatus \/ UNCHANGED vars
  BY <1>2, OthersTell DEF ConfirmPicker, PublishConfirmed, AskRestart, HandleOrch, EndRestart,
     HandleStatus, vars, coordVars, actorVars
<1>3. CASE HandleSessionCreated
  BY <1>1, <1>3, ReconcileTells DEF HandleSessionCreated, Rest
<1>4. CASE HandleEnablementChanged
  BY <1>1, <1>4, ReconcileTells, CoordHead, MessageKinds DEF HandleEnablementChanged, Mail
<1>5. CASE HandleRestart
  BY <1>1, <1>5, RestartTells DEF HandleRestart
<1>6. CASE DispatchCall
  BY <1>1, <1>6, DispatchTells
<1>7. CASE \E id \in Ids : Actor(id) \/ ConnectFails(id)
  BY <1>7, ActorTells
<1>8. CASE \E id \in Ids : ServerDies(id)
  BY <1>8, DeathTypes, OthersTell
<1> QED
  BY <1>2, <1>3, <1>4, <1>5, <1>6, <1>7, <1>8 DEF Next, Work, Coordinator

\* No server process outlives its entry in the coordinator's map: whatever was spawned
\* and is not tracked has been told to stop, and what is tracked has not.
THEOREM NoOrphans == Spec => []NoOrphanActor
<1>1. Init => NoOrphanActor
  BY DEF Init, NoOrphanActor, Ids
<1>2. McpTypeOK /\ NoOrphanActor /\ [Next]_vars => NoOrphanActor'
  BY NextTells
<1> QED
  BY <1>1, <1>2, McpTypeCorrect, PTL DEF Spec

-----------------------------------------------------------------------------
(* Where the call goes *)

HasCall(b) == \E i \in DOMAIN b : b[i] = "call"

\* A call with no stop before it: the actor will take it.
Callable(b) == \E i \in DOMAIN b : b[i] = "call" /\ \A k \in 1..i : b[k] # "stop"

LEMMA CallInBox ==
  ASSUME NEW b \in Boxes
  PROVE  /\ Callable(b) => HasCall(b)
         /\ Callable(Append(b, "stop")) => Callable(b)
         /\ HasCall(Append(b, "stop")) => HasCall(b)
         /\ Callable(Append(b, "call")) => HasCall(b) \/ ~HasStop(b)
         /\ b # <<>> /\ Head(b) = "call" => Callable(b)
         /\ b # <<>> /\ HasCall(Tail(b)) => HasCall(b)
<1>1. b \in Seq({"call", "stop"}) /\ Len(b) \in Nat /\ DOMAIN b = 1..Len(b)
  BY DEF Boxes
<1>2. /\ DOMAIN Append(b, "stop") = 1..(Len(b) + 1) /\ Append(b, "stop")[Len(b) + 1] = "stop"
      /\ \A i \in 1..Len(b) : Append(b, "stop")[i] = b[i]
  BY <1>1
<1>3. /\ DOMAIN Append(b, "call") = 1..(Len(b) + 1)
      /\ \A i \in 1..Len(b) : Append(b, "call")[i] = b[i]
  BY <1>1
<1>4. Callable(b) => HasCall(b)
  BY DEF Callable, HasCall
<1>5. ASSUME HasCall(Append(b, "stop")) PROVE HasCall(b)
  BY <1>1, <1>2, <1>5 DEF HasCall
<1>6. ASSUME Callable(Append(b, "stop")) PROVE Callable(b)
  <2>1. PICK i \in 1..(Len(b) + 1) : /\ Append(b, "stop")[i] = "call"
                                     /\ \A k \in 1..i : Append(b, "stop")[k] # "stop"
    BY <1>2, <1>6 DEF Callable
  <2>2. i \in 1..Len(b) /\ \A k \in 1..i : k \in 1..Len(b)
    BY <1>1, <1>2, <2>1
  <2>3. b[i] = "call" /\ \A k \in 1..i : b[k] # "stop"
    BY <1>2, <2>1, <2>2
  <2> QED
    BY <1>1, <2>2, <2>3 DEF Callable
<1>7. ASSUME Callable(Append(b, "call")), HasStop(b) PROVE HasCall(b)
  <2>1. PICK i \in 1..(Len(b) + 1) : /\ Append(b, "call")[i] = "call"
                                     /\ \A k \in 1..i : Append(b, "call")[k] # "stop"
    BY <1>3, <1>7 DEF Callable
  <2>2. PICK s \in 1..Len(b) : b[s] = "stop"
    BY <1>1, <1>7 DEF HasStop
  <2>3. i \in 1..Len(b)
    BY <1>1, <1>3, <2>1, <2>2
  <2> QED
    BY <1>1, <1>3, <2>1, <2>3 DEF HasCall
<1>8. ASSUME b # <<>>, Head(b) = "call" PROVE Callable(b)
  <2>1. 1 \in DOMAIN b /\ b[1] = "call" /\ \A k \in 1..1 : b[k] # "stop"
    BY <1>1, <1>8
  <2> QED
    BY <2>1 DEF Callable
<1>9. ASSUME b # <<>>, HasCall(Tail(b)) PROVE HasCall(b)
  <2>1. /\ DOMAIN Tail(b) = 1..(Len(b) - 1)
        /\ \A i \in 1..(Len(b) - 1) : Tail(b)[i] = b[i + 1] /\ i + 1 \in 1..Len(b)
    BY <1>1, <1>9
  <2> QED
    BY <1>1, <1>9, <2>1 DEF HasCall
<1> QED
  BY <1>4, <1>5, <1>6, <1>7, <1>8, <1>9

LEMMA EmptyBox == ~HasCall(<<>>) /\ ~Callable(<<>>)
BY DEF HasCall, Callable

\* The call has come to this actor, or will.
Reaches(i, done, state, b) == i \in done \/ (state \in Before /\ Callable(b))

\* Before the call there is none, and then at most one actor gets it.
OneReached ==
  /\ call = "idle" => served = {} /\ \A i \in Ids : ~HasCall(box[i])
  /\ \A i, j \in Ids : Reaches(i, served, actor[i], box[i])
                       /\ Reaches(j, served, actor[j], box[j]) => i = j

\* A step that brings the call to no actor it has not come to.
LEMMA NoneReached ==
  ASSUME OneReached, call' = "idle" => call = "idle",
         call = "idle" => served' \subseteq served,
         \A i \in Ids' : HasCall(box'[i]) => i \in Ids /\ HasCall(box[i]),
         \A i \in Ids' : Reaches(i, served', actor'[i], box'[i])
                         => i \in Ids /\ Reaches(i, served, actor[i], box[i])
  PROVE  OneReached'
<1>1. call' = "idle" => served' = {} /\ \A i \in Ids' : ~HasCall(box'[i])
  BY DEF OneReached
<1>2. \A i, j \in Ids' : Reaches(i, served', actor'[i], box'[i])
                         /\ Reaches(j, served', actor'[j], box'[j]) => i = j
  BY DEF OneReached
<1> QED
  BY <1>1, <1>2 DEF OneReached

\* Spawning and killing bring it to none, ...
LEMMA SpawnReaches ==
  ASSUME ActorTypes, served \subseteq Ids, OneReached, UNCHANGED <<call, served>>,
         NEW boxes \in Seq(Boxes), DOMAIN boxes = Ids,
         \A i \in Ids : boxes[i] = box[i] \/ boxes[i] = Append(box[i], "stop"),
         Spawn(boxes)
  PROVE  OneReached'
<1>1. /\ tracked' = Len(actor) + 1 /\ Ids' = 1..(Len(actor) + 1) /\ Ids = 1..Len(actor)
      /\ \A i \in Ids : actor'[i] = actor[i] /\ box'[i] = boxes[i]
      /\ actor'[tracked'] = "spawned" /\ box'[tracked'] = <<>>
  BY SpawnClosed DEF ActorTypes, Ids
<1>2. \A i \in Ids : box[i] \in Boxes
  BY LenProperties DEF ActorTypes
<1>3. tracked' \notin Ids /\ \A i \in Ids' : i \in Ids \/ i = tracked'
  BY <1>1 DEF ActorTypes
<1>4. ASSUME NEW i \in Ids
      PROVE  /\ HasCall(box'[i]) => HasCall(box[i])
             /\ Reaches(i, served', actor'[i], box'[i]) => Reaches(i, served, actor[i], box[i])
  <2>1. CASE box'[i] = box[i]
    BY <1>1, <2>1
  <2>2. CASE box'[i] = Append(box[i], "stop")
    BY <1>1, <1>2, <2>2, CallInBox DEF Reaches
  <2> QED
    BY <1>1, <2>1, <2>2
<1>5. ~HasCall(box'[tracked']) /\ ~Reaches(tracked', served', actor'[tracked'], box'[tracked'])
  BY <1>1, <1>3, EmptyBox DEF Reaches
<1> QED
  BY <1>3, <1>4, <1>5, NoneReached

LEMMA KillReaches ==
  ASSUME ActorTypes, OneReached, UNCHANGED <<call, served>>, Kill
  PROVE  OneReached'
<1>1. Ids' = Ids /\ actor' = actor
      /\ \A i \in Ids : box'[i] = IF i = tracked THEN Append(box[i], "stop") ELSE box[i]
  BY KillClosed DEF Ids
<1>2. \A i \in Ids : box[i] \in Boxes
  BY LenProperties DEF ActorTypes
<1>3. ASSUME NEW i \in Ids
      PROVE  /\ HasCall(box'[i]) => HasCall(box[i])
             /\ Reaches(i, served', actor'[i], box'[i]) => Reaches(i, served, actor[i], box[i])
  <2>1. CASE i # tracked
    BY <1>1, <2>1
  <2>2. CASE i = tracked
    BY <1>1, <1>2, <2>2, CallInBox DEF Reaches
  <2> QED
    BY <2>1, <2>2
<1> QED
  BY <1>1, <1>3, NoneReached

LEMMA ReconcileReaches ==
  ASSUME ActorTypes, served \subseteq Ids, OneReached, UNCHANGED <<call, served>>,
         NEW desired, Reconcile(desired)
  PROVE  OneReached'
<1>1. CASE Spawn(box)
  BY <1>1, SpawnReaches DEF ActorTypes
<1>2. CASE Kill
  BY <1>2, KillReaches
<1>3. CASE UNCHANGED <<tracked, actor, box>>
  BY <1>3 DEF OneReached, Ids
<1> QED
  BY <1>1, <1>2, <1>3 DEF Reconcile

LEMMA RestartReaches ==
  ASSUME ActorTypes, served \subseteq Ids, OneReached, UNCHANGED <<call, served>>,
         Spawn(StopBox(tracked))
  PROVE  OneReached'
<1>1. /\ StopBox(tracked) \in Seq(Boxes) /\ DOMAIN StopBox(tracked) = Ids
      /\ \A i \in Ids : StopBox(tracked)[i]
                          = IF i = tracked THEN Append(box[i], "stop") ELSE box[i]
  BY StopBoxClosed DEF ActorTypes
<1> QED
  BY <1>1, SpawnReaches

\* ... dispatch_tool_call to the tracked actor alone, the only one not told to stop, ...
LEMMA DispatchReaches ==
  ASSUME ActorTypes, NoOrphanActor, OneReached, DispatchCall
  PROVE  OneReached'
<1>1. /\ UNCHANGED <<actor, served>> /\ Ids' = Ids /\ call = "idle" /\ call' # "idle"
      /\ \A i \in Ids : box'[i] = box[i] \/ box'[i] = Append(box[i], "call")
  BY DEF DispatchCall, Ids
<1>2. served = {} /\ \A i \in Ids : ~HasCall(box[i]) /\ box[i] \in Boxes
  BY <1>1, LenProperties DEF OneReached, ActorTypes
<1>3. ASSUME NEW i \in Ids, Reaches(i, served', actor'[i], box'[i]) PROVE i = tracked
  <2>1. actor[i] \in Before /\ Callable(box'[i])
    BY <1>1, <1>2, <1>3 DEF Reaches
  <2>2. box'[i] = Append(box[i], "call")
    BY <1>1, <1>2, <2>1, CallInBox
  <2>3. ~HasStop(box[i])
    BY <1>2, <2>1, <2>2, CallInBox
  <2>4. ~Stops(actor[i], box[i])
    BY <2>1, <2>3 DEF Stops, Before, After
  <2> QED
    BY <2>4, ToldIs
<1> QED
  BY <1>1, <1>3 DEF OneReached

\* ... and the actors' own steps to none.
LEMMA ActorReaches ==
  ASSUME McpTypeOK, OneReached, NEW id \in Ids, Actor(id) \/ ConnectFails(id)
  PROVE  OneReached'
<1>1. CASE Announce(id) \/ RegisterTools(id) \/ SayRunning(id) \/ ConnectFails(id)
           \/ EndCall(id) \/ SayDead(id)
  <2>1. /\ Ids' = Ids /\ UNCHANGED box
        /\ \A i \in Ids : actor'[i] \in Before <=> actor[i] \in Before
    BY <1>1, ActorSpeaks
  <2>2. UNCHANGED <<call, served>>
    BY <1>1 DEF Announce, RegisterTools, SayRunning, ConnectFails, EndCall, SayDead, callVars
  <2>3. \A i \in Ids : Reaches(i, served', actor'[i], box'[i])
                         <=> Reaches(i, served, actor[i], box[i])
    BY <2>1, <2>2 DEF Reaches
  <2> QED
    BY <2>1, <2>2, <2>3, NoneReached
<1>2. CASE ReportDeath(id)
  <2>1. UNCHANGED <<actor, box, call, served>> /\ Ids' = Ids
    BY <1>2, DeathTypes DEF ReportDeath, callVars
  <2> QED
    BY <2>1, NoneReached
<1>3. CASE TakeCall(id)
  <2>1. /\ Ids' = Ids /\ UNCHANGED call
        /\ box[id] # <<>> /\ Head(box[id]) = "call" /\ box[id] \in Boxes
        /\ \A i \in Ids : box'[i] = IF i = id THEN Tail(box[id]) ELSE box[i]
        /\ actor[id] \in Before /\ actor'[id] \in Before
        /\ \A i \in Ids : i # id => actor'[i] = actor[i]
    BY <1>3, TakeCallTypes DEF TakeCall
  <2>2. served' = served \/ served' = served \cup {id}
    BY <1>3 DEF TakeCall
  <2>3. HasCall(box[id]) /\ Reaches(id, served, actor[id], box[id])
    BY <2>1, CallInBox DEF Reaches
  <2>4. ASSUME NEW i \in Ids, i # id
        PROVE  /\ HasCall(box'[i]) => HasCall(box[i])
               /\ Reaches(i, served', actor'[i], box'[i]) => Reaches(i, served, actor[i], box[i])
    BY <2>1, <2>2, <2>4 DEF Reaches
  <2>5. call # "idle"
    BY <2>3 DEF OneReached
  <2>6. \A i \in Ids' : i \in Ids /\ (i = id \/ i # id)
    BY <2>1
  <2> QED
    BY <2>1, <2>3, <2>4, <2>5, <2>6, NoneReached
<1>4. CASE BeginStop(id)
  <2>1. /\ Ids' = Ids /\ UNCHANGED <<box, call, served>> /\ actor'[id] \notin Before
        /\ \A i \in Ids : i # id => actor'[i] = actor[i]
    BY <1>4, StopTypes DEF BeginStop, callVars, Before
  <2>2. \A i \in Ids : Reaches(i, served', actor'[i], box'[i])
                         => Reaches(i, served, actor[i], box[i])
    BY <2>1 DEF Reaches
  <2> QED
    BY <2>1, <2>2, NoneReached
<1>5. CASE Unregister(id)
  <2>1. /\ Ids' = Ids /\ UNCHANGED <<call, served>> /\ actor'[id] \notin Before
        /\ \A i \in Ids : i # id => actor'[i] = actor[i] /\ box'[i] = box[i]
    BY <1>5, UnregisterTypes DEF Unregister, callVars, Before
  <2>2. box'[id] = <<>>
    BY <1>5, Parts DEF Unregister, ActorTypes
  <2>3. \A i \in Ids : /\ HasCall(box'[i]) => HasCall(box[i])
                       /\ Reaches(i, served', actor'[i], box'[i])
                          => Reaches(i, served, actor[i], box[i])
    BY <2>1, <2>2, EmptyBox DEF Reaches
  <2> QED
    BY <2>1, <2>3, NoneReached
<1> QED
  BY <1>1, <1>2, <1>3, <1>4, <1>5 DEF Actor

LEMMA OthersReach ==
  ASSUME OneReached, UNCHANGED <<actor, box, served>>, call' = "idle" => call = "idle"
  PROVE  OneReached'
BY DEF OneReached, Ids

LEMMA NextReaches ==
  ASSUME McpTypeOK, NoOrphanActor, OneReached, [Next]_vars
  PROVE  OneReached'
<1>1. ActorTypes /\ served \subseteq Ids
  BY Parts DEF Marks
<1>2. CASE ConfirmPicker \/ PublishConfirmed \/ AskRestart \/ EndRestart
           \/ HandleStatus \/ UNCHANGED vars
  BY <1>2, OthersReach DEF ConfirmPicker, PublishConfirmed, AskRestart, EndRestart,
     HandleStatus, vars, coordVars, actorVars, callVars
<1>3. CASE HandleOrch
  <2>1. UNCHANGED <<actor, box, served>> /\ (call' = call \/ call' = "answered")
    BY <1>3 DEF HandleOrch, actorVars
  <2> QED
    BY <2>1, OthersReach
<1>4. CASE HandleSessionCreated
  BY <1>1, <1>4, ReconcileReaches DEF HandleSessionCreated, callVars
<1>5. CASE HandleEnablementChanged
  BY <1>1, <1>5, ReconcileReaches DEF HandleEnablementChanged, callVars
<1>6. CASE HandleRestart
  BY <1>1, <1>6, RestartReaches DEF HandleRestart, callVars
<1>7. CASE DispatchCall
  BY <1>1, <1>7, DispatchReaches
<1>8. CASE \E id \in Ids : Actor(id) \/ ConnectFails(id)
  BY <1>8, ActorReaches
<1>9. CASE \E id \in Ids : ServerDies(id)
  BY <1>9, OthersReach DEF ServerDies, callVars
<1> QED
  BY <1>2, <1>3, <1>4, <1>5, <1>6, <1>7, <1>8, <1>9 DEF Next, Work, Coordinator

LEMMA OneIsServed ==
  ASSUME McpTypeOK, OneReached
  PROVE  ServedOnce
<1>1. \A i, j \in served : i = j
  BY Parts DEF OneReached, Reaches, Marks
<1>2. CASE served = {}
  BY <1>2, FS_EmptySet DEF ServedOnce
<1>3. CASE served # {}
  <2>1. PICK i \in served : TRUE
    BY <1>3
  <2>2. served = {i}
    BY <1>1, <2>1
  <2>3. Cardinality({i}) = 1
    BY FS_Singleton
  <2> QED
    BY <2>2, <2>3 DEF ServedOnce
<1> QED
  BY <1>2, <1>3

\* A tool call is passed to a server at most once, however many actors of the pair live
\* at that moment: all but the tracked one have been told to stop before the call came.
THEOREM CallServedOnce == Spec => []ServedOnce
<1>1. Init => OneReached
  BY DEF Init, OneReached, Ids, Reaches
<1>2. McpTypeOK /\ NoOrphanActor /\ OneReached /\ [Next]_vars => OneReached'
  BY NextReaches
<1>3. McpTypeOK /\ OneReached => ServedOnce
  BY OneIsServed
<1> QED
  BY <1>1, <1>2, <1>3, McpTypeCorrect, NoOrphans, PTL DEF Spec

-----------------------------------------------------------------------------
(* What the picker asked for *)

Asks(m) == m.type = "McpEnablementChanged"

\* The last word about the enabled set that is on its way is this one, if there is any.
LastSays(b, on) ==
  \A i \in DOMAIN b : Asks(b[i]) => \/ b[i].on = on
                                    \/ \E j \in DOMAIN b : j > i /\ Asks(b[j])

\* There is none.
NoneSays(b) == \A i \in DOMAIN b : ~Asks(b[i]) /\ b[i].type # "SessionCreated"

RestartIn(b) == \E i \in DOMAIN b : b[i].type = "RestartMcpServer"

LEMMA AppendSays ==
  ASSUME NEW b \in Seq(CoordMsgs), NEW m \in CoordMsgs
  PROVE  /\ ~Asks(m) => \A on : LastSays(b, on) => LastSays(Append(b, m), on)
         /\ Asks(m) => LastSays(Append(b, m), m.on) /\ ~NoneSays(Append(b, m))
         /\ NoneSays(Append(b, m)) => NoneSays(b)
         /\ RestartIn(Append(b, m)) => RestartIn(b) \/ m.type = "RestartMcpServer"
<1>1. /\ Len(b) \in Nat /\ DOMAIN b = 1..Len(b) /\ DOMAIN Append(b, m) = 1..(Len(b) + 1)
      /\ Append(b, m)[Len(b) + 1] = m /\ \A i \in 1..Len(b) : Append(b, m)[i] = b[i]
  OBVIOUS
<1>2. ASSUME ~Asks(m), NEW on, LastSays(b, on) PROVE LastSays(Append(b, m), on)
  <2>1. ASSUME NEW i \in DOMAIN Append(b, m), Asks(Append(b, m)[i])
        PROVE  \/ Append(b, m)[i].on = on
               \/ \E j \in DOMAIN Append(b, m) : j > i /\ Asks(Append(b, m)[j])
    <3>1. i \in 1..Len(b) /\ Append(b, m)[i] = b[i]
      BY <1>1, <1>2, <2>1
    <3>2. CASE b[i].on = on
      BY <3>1, <3>2
    <3>3. CASE \E j \in DOMAIN b : j > i /\ Asks(b[j])
      <4>1. PICK j \in DOMAIN b : j > i /\ Asks(b[j])
        BY <3>3
      <4>2. j \in DOMAIN Append(b, m) /\ Asks(Append(b, m)[j])
        BY <1>1, <4>1
      <4> QED
        BY <4>1, <4>2
    <3> QED
      BY <1>1, <1>2, <2>1, <3>1, <3>2, <3>3 DEF LastSays
  <2> QED
    BY <2>1 DEF LastSays
<1>3. ASSUME Asks(m) PROVE LastSays(Append(b, m), m.on) /\ ~NoneSays(Append(b, m))
  <2>1. Len(b) + 1 \in DOMAIN Append(b, m) /\ Asks(Append(b, m)[Len(b) + 1])
    BY <1>1, <1>3
  <2>2. \A i \in DOMAIN Append(b, m) : i = Len(b) + 1 \/ Len(b) + 1 > i
    BY <1>1
  <2> QED
    BY <1>1, <2>1, <2>2 DEF LastSays, NoneSays
<1>4. NoneSays(Append(b, m)) => NoneSays(b)
  BY <1>1 DEF NoneSays
<1>5. RestartIn(Append(b, m)) => RestartIn(b) \/ m.type = "RestartMcpServer"
  BY <1>1 DEF RestartIn
<1> QED
  BY <1>2, <1>3, <1>4, <1>5

LEMMA TailSays ==
  ASSUME NEW b \in Seq(CoordMsgs), b # <<>>
  PROVE  /\ \A on : LastSays(b, on) => LastSays(Tail(b), on)
         /\ NoneSays(Tail(b)) => (NoneSays(b) \/ Asks(Head(b)) \/ Head(b).type = "SessionCreated")
         /\ Asks(Head(b)) /\ NoneSays(Tail(b)) => \A on : LastSays(b, on) => Head(b).on = on
         /\ RestartIn(Tail(b)) => RestartIn(b)
         /\ Head(b).type = "RestartMcpServer" => RestartIn(b)
<1>1. /\ Len(b) \in Nat /\ DOMAIN b = 1..Len(b) /\ DOMAIN Tail(b) = 1..(Len(b) - 1)
      /\ Head(b) = b[1] /\ 1 \in DOMAIN b
      /\ \A i \in 1..(Len(b) - 1) : Tail(b)[i] = b[i + 1] /\ i + 1 \in 1..Len(b)
  OBVIOUS
<1>2. \A i \in DOMAIN b : i = 1 \/ (i - 1 \in DOMAIN Tail(b) /\ Tail(b)[i - 1] = b[i])
  BY <1>1
<1>3. ASSUME NEW on, LastSays(b, on) PROVE LastSays(Tail(b), on)
  <2>1. ASSUME NEW i \in DOMAIN Tail(b), Asks(Tail(b)[i]), Tail(b)[i].on # on
        PROVE  \E j \in DOMAIN Tail(b) : j > i /\ Asks(Tail(b)[j])
    <3>1. i + 1 \in DOMAIN b /\ Asks(b[i + 1]) /\ b[i + 1].on # on
      BY <1>1, <2>1
    <3>2. PICK j \in DOMAIN b : j > i + 1 /\ Asks(b[j])
      BY <1>3, <3>1 DEF LastSays
    <3>3. j - 1 \in DOMAIN Tail(b) /\ j - 1 > i /\ Tail(b)[j - 1] = b[j]
      BY <1>1, <2>1, <3>2
    <3> QED
      BY <3>2, <3>3
  <2> QED
    BY <2>1 DEF LastSays
<1>4. ASSUME NoneSays(Tail(b)), ~Asks(Head(b)), Head(b).type # "SessionCreated"
      PROVE  NoneSays(b)
  BY <1>1, <1>2, <1>4 DEF NoneSays
<1>5. ASSUME Asks(Head(b)), NoneSays(Tail(b)), NEW on, LastSays(b, on)
      PROVE  Head(b).on = on
  <2>1. ASSUME NEW j \in DOMAIN b, j > 1 PROVE ~Asks(b[j])
    <3>1. j - 1 \in DOMAIN Tail(b) /\ Tail(b)[j - 1] = b[j]
      BY <1>1, <2>1
    <3>2. ~Asks(Tail(b)[j - 1])
      BY <1>5, <3>1 DEF NoneSays
    <3> QED
      BY <3>1, <3>2
  <2> QED
    BY <1>1, <1>5, <2>1 DEF LastSays
<1>6. RestartIn(Tail(b)) => RestartIn(b)
  BY <1>1 DEF RestartIn
<1>7. Head(b).type = "RestartMcpServer" => RestartIn(b)
  BY <1>1 DEF RestartIn
<1> QED
  BY <1>3, <1>4, <1>5, <1>6, <1>7

\* What is tracked is what is enabled, unless somebody is still to say so.
Desired == /\ enabled => tracked # 0
           /\ ~restarted /\ tracked # 0 => enabled

AskedFor ==
  /\ ~overtaken /\ confirmed # <<>> => confirmed[Len(confirmed)] = enabled
  /\ ~overtaken /\ confirmed = <<>> => LastSays(coordBox, enabled)
  /\ ~overtaken /\ confirmed = <<>> /\ NoneSays(coordBox) => Desired
  /\ RestartIn(coordBox) => restarted

\* A word of an actor's health says nothing about the set.
LEMMA HealthSays ==
  ASSUME McpTypeOK, AskedFor, UNCHANGED <<enabled, tracked, confirmed, overtaken, restarted>>,
         coordBox' = coordBox \/ \E s \in Statuses : PublishStatus(s)
  PROVE  AskedFor'
<1>1. CASE coordBox' = coordBox
  BY <1>1 DEF AskedFor, Desired
<1>2. CASE \E s \in Statuses : PublishStatus(s)
  <2>1. PICK s \in Statuses : PublishStatus(s)
    BY <1>2
  <2> DEFINE m == [type |-> "McpServerStatus", status |-> s]
  <2>2. m \in CoordMsgs /\ ~Asks(m) /\ m.type # "RestartMcpServer"
    BY MessageKinds DEF Asks
  <2>3. coordBox' = Append(coordBox, m) /\ coordBox \in Seq(CoordMsgs)
    BY <2>1, Parts DEF PublishStatus, Mail
  <2> HIDE DEF m
  <2> QED
    BY <2>2, <2>3, AppendSays DEF AskedFor, Desired
<1> QED
  BY <1>1, <1>2

LEMMA ReconcileDoes ==
  ASSUME ActorTypes, NEW desired \in BOOLEAN, Reconcile(desired)
  PROVE  tracked' # 0 <=> desired
BY DEF Reconcile, Spawn, Kill, ActorTypes

\* The picker and the inspector.
LEMMA AskSays ==
  ASSUME McpTypeOK, AskedFor, ConfirmPicker \/ PublishConfirmed \/ AskRestart
  PROVE  AskedFor'
<1>1. coordBox \in Seq(CoordMsgs) /\ enabled \in BOOLEAN
  BY Parts DEF Mail, Rest
<1>2. CASE ConfirmPicker
  <2>1. /\ confirmed \in Seq(BOOLEAN) /\ confirmed' = Append(confirmed, ~enabled)
        /\ enabled' = ~enabled /\ UNCHANGED <<coordBox, restarted>>
    BY <1>2, Parts DEF ConfirmPicker, coordVars, Rest
  <2>2. confirmed' # <<>> /\ confirmed'[Len(confirmed')] = enabled'
    BY <1>1, <2>1
  <2> QED
    BY <2>1, <2>2 DEF AskedFor
<1>3. CASE PublishConfirmed
  <2>1. PICK i \in DOMAIN confirmed :
          /\ coordBox' = Append(coordBox, [type |-> "McpEnablementChanged", on |-> confirmed[i]])
          /\ confirmed' = RemoveAt(confirmed, i)
          /\ overtaken' = (overtaken \/ (i = Len(confirmed) /\ i > 1))
    BY <1>3 DEF PublishConfirmed
  <2> DEFINE m == [type |-> "McpEnablementChanged", on |-> confirmed[i]]
  <2>2. /\ confirmed \in Seq(BOOLEAN) /\ Len(confirmed) \in Nat /\ i \in 1..Len(confirmed)
        /\ confirmed[i] \in BOOLEAN /\ overtaken \in BOOLEAN
    BY <2>1, Parts, LenProperties DEF Rest
  <2>3. m \in CoordMsgs /\ Asks(m) /\ m.on = confirmed[i] /\ m.type # "RestartMcpServer"
    BY <2>2, MessageKinds DEF Asks
  <2>4. coordBox' = Append(coordBox, m) /\ UNCHANGED <<enabled, tracked, restarted>>
    BY <1>3, <2>1 DEF PublishConfirmed, sharedVars
  <2> HIDE DEF m
  <2>5. LastSays(coordBox', confirmed[i]) /\ ~NoneSays(coordBox')
        /\ (RestartIn(coordBox') => RestartIn(coordBox))
    BY <1>1, <2>3, <2>4, AppendSays
  <2>6. ~overtaken' => ~overtaken /\ (i # Len(confirmed) \/ Len(confirmed) = 1)
    <3>1. CASE i = Len(confirmed) /\ i > 1
      BY <2>1, <3>1
    <3>2. CASE ~(i = Len(confirmed) /\ i > 1)
      <4>1. i # Len(confirmed) \/ Len(confirmed) = 1
        <5>1. i \in Int /\ i >= 1
          BY <2>2
        <5>2. CASE i # Len(confirmed)
          BY <5>2
        <5>3. CASE i = Len(confirmed)
          <6>1. ~(i > 1)
            BY <3>2, <5>3
          <6>2. i = 1
            BY <5>1, <6>1
          <6> QED
            BY <5>3, <6>2
        <5> QED
          BY <5>2, <5>3
      <4>2. overtaken' = (overtaken \/ FALSE)
        BY <2>1, <3>2
      <4> QED
        BY <4>1, <4>2
    <3> QED
      BY <3>1, <3>2
  <2>7. ASSUME ~overtaken', i # Len(confirmed)
        PROVE  confirmed' # <<>> /\ confirmed'[Len(confirmed')] = enabled'
    BY <2>1, <2>2, <2>4, <2>6, <2>7, RemoveAtLeaves DEF AskedFor
  <2>8. ASSUME ~overtaken', Len(confirmed) = 1
        PROVE  confirmed' = <<>> /\ confirmed[i] = enabled'
    BY <2>1, <2>2, <2>4, <2>6, <2>8, RemoveAtLeaves DEF AskedFor
  <2> QED
    BY <2>4, <2>5, <2>6, <2>7, <2>8 DEF AskedFor
<1>4. CASE AskRestart
  <2> DEFINE m == [type |-> "RestartMcpServer"]
  <2>1. m \in CoordMsgs /\ ~Asks(m)
    BY MessageKinds DEF Asks
  <2>2. coordBox' = Append(coordBox, m) /\ restarted' = TRUE
        /\ UNCHANGED <<enabled, tracked, confirmed, overtaken>>
    BY <1>4 DEF AskRestart, sharedVars, pickerVars
  <2> HIDE DEF m
  <2> QED
    BY <1>1, <2>1, <2>2, AppendSays DEF AskedFor, Desired
<1> QED
  BY <1>2, <1>3, <1>4

\* The coordinator does what the last word says.
LEMMA CoordinatorSays ==
  ASSUME McpTypeOK, AskedFor, Coordinator
  PROVE  AskedFor'
<1>1. coordBox \in Seq(CoordMsgs) /\ enabled \in BOOLEAN /\ ActorTypes /\ Len(actor) \in Nat
  BY Parts DEF Mail, Rest, ActorTypes
<1>2. CASE HandleSessionCreated
  <2>1. /\ coordBox # <<>> /\ coordBox' = Tail(coordBox)
        /\ UNCHANGED <<enabled, confirmed, overtaken, restarted>>
    BY <1>1, <1>2, CoordHead DEF HandleSessionCreated, sharedVars, inputVars, pickerVars
  <2>2. tracked' # 0 <=> enabled
    BY <1>1, <1>2, ReconcileDoes DEF HandleSessionCreated
  <2> QED
    BY <1>1, <2>1, <2>2, TailSays DEF AskedFor, Desired
<1>3. CASE HandleEnablementChanged
  <2>1. /\ coordBox # <<>> /\ coordBox' = Tail(coordBox) /\ Asks(Head(coordBox))
        /\ Head(coordBox).on \in BOOLEAN
        /\ UNCHANGED <<enabled, confirmed, overtaken, restarted>>
    BY <1>1, <1>3, CoordHead, MessageKinds
    DEF HandleEnablementChanged, sharedVars, inputVars, pickerVars, Asks
  <2>2. tracked' # 0 <=> Head(coordBox).on
    BY <1>1, <1>3, <2>1, ReconcileDoes DEF HandleEnablementChanged
  <2>3. ~overtaken /\ confirmed = <<>> /\ NoneSays(Tail(coordBox)) => Head(coordBox).on = enabled
    BY <1>1, <2>1, TailSays DEF AskedFor
  <2> QED
    BY <1>1, <2>1, <2>2, <2>3, TailSays DEF AskedFor, Desired
<1>4. CASE HandleRestart
  <2>1. /\ coordBox # <<>> /\ coordBox' = Tail(coordBox)
        /\ Head(coordBox).type = "RestartMcpServer"
        /\ UNCHANGED <<enabled, confirmed, overtaken, restarted>>
    BY <1>1, <1>4, CoordHead DEF HandleRestart, sharedVars, inputVars, pickerVars
  <2>2. tracked' # 0
    BY <1>1, <1>4 DEF HandleRestart, Spawn
  <2> QED
    BY <1>1, <2>1, <2>2, TailSays DEF AskedFor, Desired
<1>5. CASE EndRestart
  BY <1>5, HealthSays DEF EndRestart, sharedVars, inputVars, pickerVars
<1>6. CASE HandleStatus
  <2>1. /\ coordBox # <<>> /\ coordBox' = Tail(coordBox)
        /\ Head(coordBox).type = "McpServerStatus"
        /\ UNCHANGED <<enabled, confirmed, overtaken, restarted, tracked>>
    BY <1>1, <1>6, CoordHead DEF HandleStatus, inputVars, pickerVars
  <2>2. ~Asks(Head(coordBox)) /\ Head(coordBox).type # "SessionCreated"
    BY <2>1 DEF Asks
  <2> QED
    BY <1>1, <2>1, <2>2, TailSays DEF AskedFor, Desired
<1> QED
  BY <1>2, <1>3, <1>4, <1>5, <1>6 DEF Coordinator

\* Nobody else has a say.
LEMMA ActorSays ==
  ASSUME McpTypeOK, AskedFor, NEW id \in Ids, Actor(id) \/ ConnectFails(id) \/ ServerDies(id)
  PROVE  AskedFor'
<1>1. coordBox' = coordBox \/ \E s \in Statuses : PublishStatus(s)
  BY DEF Actor, Announce, RegisterTools, SayRunning, ConnectFails, ServerDies, ReportDeath,
     TakeCall, EndCall, BeginStop, SayDead, Unregister, coordVars, Statuses
<1>2. UNCHANGED <<enabled, tracked, confirmed, overtaken, restarted>>
  BY DEF Actor, Announce, RegisterTools, SayRunning, ConnectFails, ServerDies, ReportDeath,
     TakeCall, EndCall, BeginStop, SayDead, Unregister, ActorStep, coordVars, sharedVars,
     inputVars, pickerVars
<1> QED
  BY <1>1, <1>2, HealthSays

LEMMA NextSays ==
  ASSUME McpTypeOK, AskedFor, [Next]_vars
  PROVE  AskedFor'
<1>1. CASE ConfirmPicker \/ PublishConfirmed \/ AskRestart
  BY <1>1, AskSays
<1>2. CASE Coordinator
  BY <1>2, CoordinatorSays
<1>3. CASE HandleOrch \/ DispatchCall \/ UNCHANGED vars
  <2>1. UNCHANGED <<coordBox, enabled, tracked, confirmed, overtaken, restarted>>
    BY <1>3 DEF HandleOrch, DispatchCall, vars, coordVars, sharedVars, inputVars, pickerVars
  <2> QED
    BY <2>1, HealthSays
<1>4. CASE \E id \in Ids : Actor(id) \/ ConnectFails(id) \/ ServerDies(id)
  BY <1>4, ActorSays
<1> QED
  BY <1>1, <1>2, <1>3, <1>4 DEF Next, Work

LEMMA QuietIsDesired ==
  ASSUME NoOrphanActor, AskedFor
  PROVE  DesiredWhenQuiet
<1> SUFFICES ASSUME Quiet PROVE /\ ~overtaken /\ enabled => tracked # 0
                                /\ ~overtaken /\ ~restarted /\ tracked # 0 => enabled
                                /\ \A id \in Ids : actor[id] # "gone" => id = tracked
  BY DEF DesiredWhenQuiet
<1>1. NoneSays(coordBox) /\ confirmed = <<>>
  BY DEF Quiet, NoneSays
<1>2. ASSUME NEW id \in Ids, actor[id] # "gone" PROVE id = tracked
  <2>1. actor[id] \in {"running", "failed"} /\ box[id] = <<>>
    BY <1>2 DEF Quiet
  <2>2. ~Told(id)
    BY <2>1 DEF Told
  <2> QED
    BY <2>2 DEF NoOrphanActor
<1> QED
  BY <1>1, <1>2 DEF AskedFor, Desired

\* When everything has settled, the one actor that is left is the one the last picker
\* asked for, or a restart, however confirms, restarts and the session's creation are
\* interleaved; all that is excluded is that the bridge published the last confirm
\* before an earlier one, after which the coordinator ends up with the earlier.
THEOREM QuietAsDesired == Spec => []DesiredWhenQuiet
<1>1. Init => AskedFor
  <2> SUFFICES ASSUME Init PROVE AskedFor
    OBVIOUS
  <2>1. coordBox = <<[type |-> "SessionCreated"]>>
    BY DEF Init
  <2>2. DOMAIN coordBox = {1} /\ coordBox[1].type = "SessionCreated"
    BY <2>1
  <2>3. LastSays(coordBox, enabled) /\ ~NoneSays(coordBox) /\ ~RestartIn(coordBox)
    BY <2>2 DEF LastSays, NoneSays, RestartIn, Asks
  <2> QED
    BY <2>3 DEF AskedFor, Init
<1>2. McpTypeOK /\ AskedFor /\ [Next]_vars => AskedFor'
  BY NextSays
<1>3. NoOrphanActor /\ AskedFor => DesiredWhenQuiet
  BY QuietIsDesired
<1> QED
  BY <1>1, <1>2, <1>3, McpTypeCorrect, NoOrphans, PTL DEF Spec

-----------------------------------------------------------------------------
(* What the views settle on                                                   *)
(*                                                                            *)
(* Both views write what they are told as it comes, so what they end up with  *)
(* is the last word on its way, or what they hold if there is none.  While a  *)
(* pair has had one actor, that word is the one this actor's state calls for. *)

\* The last of the words on its way in b is m; if there is none, the view has it.
LastWord(b, words, m, held) ==
  \/ \E i \in DOMAIN b : b[i] = m /\ \A j \in DOMAIN b : j > i => b[j] \notin words
  \/ held /\ \A j \in DOMAIN b : b[j] \notin words

LEMMA WordPosted ==
  ASSUME NEW S, NEW b \in Seq(S), NEW m \in S, NEW words
  PROVE  /\ \A held : LastWord(Append(b, m), words, m, held)
         /\ \A w, held : LastWord(b, words, w, held) /\ m \notin words
                           => LastWord(Append(b, m), words, w, held)
<1>1. /\ Len(b) \in Nat /\ DOMAIN b = 1..Len(b) /\ DOMAIN Append(b, m) = 1..(Len(b) + 1)
      /\ Append(b, m)[Len(b) + 1] = m /\ \A i \in 1..Len(b) : Append(b, m)[i] = b[i]
  OBVIOUS
<1>2. ASSUME NEW held PROVE LastWord(Append(b, m), words, m, held)
  <2>1. Len(b) + 1 \in DOMAIN Append(b, m)
        /\ \A j \in DOMAIN Append(b, m) : ~(j > Len(b) + 1)
    BY <1>1
  <2> QED
    BY <1>1, <2>1 DEF LastWord
<1>3. ASSUME NEW w, NEW held, LastWord(b, words, w, held), m \notin words
      PROVE  LastWord(Append(b, m), words, w, held)
  <2>1. CASE \E i \in DOMAIN b : b[i] = w /\ \A j \in DOMAIN b : j > i => b[j] \notin words
    <3>1. PICK i \in DOMAIN b : b[i] = w /\ \A j \in DOMAIN b : j > i => b[j] \notin words
      BY <2>1
    <3>2. i \in DOMAIN Append(b, m) /\ Append(b, m)[i] = w
      BY <1>1, <3>1
    <3>3. \A j \in DOMAIN Append(b, m) : j > i => Append(b, m)[j] \notin words
      BY <1>1, <1>3, <3>1
    <3> QED
      BY <3>2, <3>3 DEF LastWord
  <2>2. CASE held /\ \A j \in DOMAIN b : b[j] \notin words
    <3>1. \A j \in DOMAIN Append(b, m) : Append(b, m)[j] \notin words
      BY <1>1, <1>3, <2>2
    <3> QED
      BY <2>2, <3>1 DEF LastWord
  <2> QED
    BY <1>3, <2>1, <2>2 DEF LastWord
<1> QED
  BY <1>2, <1>3

\* The view takes the first: another message, or a word it then holds.
LEMMA WordTaken ==
  ASSUME NEW S, NEW b \in Seq(S), b # <<>>, NEW words, NEW w, NEW held, NEW after,
         LastWord(b, words, w, held),
         Head(b) = w => after,
         Head(b) \notin words => (held => after)
  PROVE  LastWord(Tail(b), words, w, after)
<1>1. /\ Len(b) \in Nat /\ DOMAIN b = 1..Len(b) /\ DOMAIN Tail(b) = 1..(Len(b) - 1)
      /\ Head(b) = b[1] /\ 1 \in DOMAIN b
      /\ \A i \in 1..(Len(b) - 1) : Tail(b)[i] = b[i + 1] /\ i + 1 \in 1..Len(b)
  OBVIOUS
<1>2. CASE \E i \in DOMAIN b : b[i] = w /\ \A j \in DOMAIN b : j > i => b[j] \notin words
  <2>1. PICK i \in DOMAIN b : b[i] = w /\ \A j \in DOMAIN b : j > i => b[j] \notin words
    BY <1>2
  <2>2. CASE i = 1
    <3>1. after
      BY <1>1, <2>1, <2>2
    <3>2. \A j \in DOMAIN Tail(b) : Tail(b)[j] \notin words
      BY <1>1, <2>1, <2>2
    <3> QED
      BY <3>1, <3>2 DEF LastWord
  <2>3. CASE i # 1
    <3>1. i - 1 \in DOMAIN Tail(b) /\ Tail(b)[i - 1] = w
      BY <1>1, <2>1, <2>3
    <3>2. \A j \in DOMAIN Tail(b) : j > i - 1 => Tail(b)[j] \notin words
      BY <1>1, <2>1
    <3> QED
      BY <3>1, <3>2 DEF LastWord
  <2> QED
    BY <2>2, <2>3
<1>3. CASE held /\ \A j \in DOMAIN b : b[j] \notin words
  <2>1. after /\ \A j \in DOMAIN Tail(b) : Tail(b)[j] \notin words
    BY <1>1, <1>3
  <2> QED
    BY <2>1 DEF LastWord
<1> QED
  BY <1>2, <1>3 DEF LastWord

Health(s) == [type |-> "McpServerStatus", status |-> s]
StatusSaid(s) ==
  LastWord(coordBox, {m \in CoordMsgs : m.type = "McpServerStatus"}, Health(s), status = s)
ToolsSaid(m, held) == LastWord(orchBox, {"RegisterTools", "ToolsUnregistered"}, m, held)

\* What the one actor of the pair has said last, by how far it is.
OneActorSaid ==
  /\ actor[1] \in {"failed", "parted", "gone"} => StatusSaid("Dead")
  /\ actor[1] \in {"running", "calling"} /\ 1 \in watched => StatusSaid("Running")
  /\ actor[1] \in {"running", "calling"} /\ 1 \notin watched => StatusSaid("Dead") /\ 1 \notin up
  /\ actor[1] \in {"listed", "running", "calling"} => ToolsSaid("RegisterTools", routable)
  /\ actor[1] = "gone" => ToolsSaid("ToolsUnregistered", ~routable)
OneSaid == Len(actor) = 1 => OneActorSaid

LEMMA HealthKinds ==
  \A s \in Statuses : Health(s) \in {m \in CoordMsgs : m.type = "McpServerStatus"}
                      /\ Health(s).status = s
BY MessageKinds DEF Health

\* Said by the actor, a word is the last.
LEMMA StatusPosted ==
  ASSUME McpTypeOK, NEW s \in Statuses, PublishStatus(s)
  PROVE  StatusSaid(s)'
<1>1. coordBox \in Seq(CoordMsgs) /\ Health(s) \in CoordMsgs
      /\ coordBox' = Append(coordBox, Health(s))
  BY Parts, HealthKinds DEF Mail, PublishStatus, Health
<1> QED
  BY <1>1, WordPosted DEF StatusSaid

\* It stays the last whatever else is sent or taken.
LEMMA StatusStays ==
  ASSUME McpTypeOK, NEW s \in Statuses, StatusSaid(s),
         \/ UNCHANGED <<coordBox, status>>
         \/ /\ status' = status
            /\ \E m \in CoordMsgs : m.type # "McpServerStatus" /\ coordBox' = Append(coordBox, m)
         \/ /\ status' = status
            /\ \E type : type # "McpServerStatus" /\ NextMsg(type)
         \/ HandleStatus
  PROVE  StatusSaid(s)'
<1> DEFINE words == {m \in CoordMsgs : m.type = "McpServerStatus"}
<1>1. coordBox \in Seq(CoordMsgs) /\ Health(s) \in words /\ Health(s).status = s
  BY Parts, HealthKinds DEF Mail
<1>2. LastWord(coordBox, words, Health(s), status = s)
  BY DEF StatusSaid
<1>3. SUFFICES LastWord(coordBox', words, Health(s), status' = s)
  BY DEF StatusSaid
<1>4. CASE UNCHANGED <<coordBox, status>>
  BY <1>2, <1>4
<1>5. ASSUME status' = status, NEW m \in CoordMsgs, m \notin words,
             coordBox' = Append(coordBox, m)
      PROVE  LastWord(coordBox', words, Health(s), status' = s)
  <2> HIDE DEF words
  <2> QED
    BY <1>1, <1>2, <1>5, WordPosted
<1>6. ASSUME status' = status, NEW type, type # "McpServerStatus", NextMsg(type)
      PROVE  LastWord(coordBox', words, Health(s), status' = s)
  <2>1. /\ coordBox # <<>> /\ coordBox' = Tail(coordBox) /\ Head(coordBox) \notin words
    BY <1>1, <1>6, CoordHead
  <2> HIDE DEF words
  <2>2. Head(coordBox) # Health(s)
    BY <1>1, <2>1
  <2> QED
    BY <1>1, <1>2, <1>6, <2>1, <2>2, WordTaken
<1>7. CASE HandleStatus
  <2>1. /\ coordBox # <<>> /\ coordBox' = Tail(coordBox) /\ Head(coordBox) \in words
        /\ status' = Head(coordBox).status
    BY <1>1, <1>7, CoordHead DEF HandleStatus
  <2> HIDE DEF words
  <2>2. Head(coordBox) = Health(s) => status' = s
    BY <1>1, <2>1
  <2> QED
    BY <1>1, <1>2, <2>1, <2>2, WordTaken
<1> QED
  BY <1>4, <1>5, <1>6, <1>7

LEMMA ToolsPosted ==
  ASSUME McpTypeOK, NEW m \in OrchMsgs, orchBox' = Append(orchBox, m), routable' = routable
  PROVE  /\ m = "RegisterTools" => ToolsSaid("RegisterTools", routable)'
         /\ m = "ToolsUnregistered" => ToolsSaid("ToolsUnregistered", ~routable)'
         /\ m = "ToolExecutionCompleted" /\ ToolsSaid("RegisterTools", routable)
              => ToolsSaid("RegisterTools", routable)'
         /\ m = "ToolExecutionCompleted" /\ ToolsSaid("ToolsUnregistered", ~routable)
              => ToolsSaid("ToolsUnregistered", ~routable)'
<1>1. orchBox \in Seq(OrchMsgs)
  BY Parts DEF Mail
<1> DEFINE words == {"RegisterTools", "ToolsUnregistered"}
<1>2. /\ \A held : LastWord(Append(orchBox, m), words, m, held)
      /\ \A w, held : LastWord(orchBox, words, w, held) /\ m \notin words
                           => LastWord(Append(orchBox, m), words, w, held)
  BY <1>1, WordPosted
<1> QED
  BY <1>2 DEF ToolsSaid

LEMMA ToolsTaken ==
  ASSUME McpTypeOK, HandleOrch
  PROVE  /\ ToolsSaid("RegisterTools", routable) => ToolsSaid("RegisterTools", routable)'
         /\ ToolsSaid("ToolsUnregistered", ~routable) => ToolsSaid("ToolsUnregistered", ~routable)'
<1>1. /\ orchBox \in Seq(OrchMsgs) /\ orchBox # <<>> /\ orchBox' = Tail(orchBox)
      /\ Head(orchBox) = "RegisterTools" => routable' = TRUE
      /\ Head(orchBox) = "ToolsUnregistered" => routable' = FALSE
      /\ Head(orchBox) \notin {"RegisterTools", "ToolsUnregistered"} => routable' = routable
  BY Parts DEF Mail, HandleOrch
<1>2. ASSUME ToolsSaid("RegisterTools", routable) PROVE ToolsSaid("RegisterTools", routable)'
  BY <1>1, <1>2, WordTaken DEF ToolsSaid
<1>3. ASSUME ToolsSaid("ToolsUnregistered", ~routable)
      PROVE  ToolsSaid("ToolsUnregistered", ~routable)'
  BY <1>1, <1>3, WordTaken DEF ToolsSaid
<1> QED
  BY <1>2, <1>3

\* What is said stays said while the actor does nothing.
LEMMA OthersSay ==
  ASSUME McpTypeOK, OneSaid, UNCHANGED <<actor, watched>>, up' \subseteq up,
         \/ UNCHANGED <<coordBox, status>>
         \/ /\ status' = status
            /\ \E m \in CoordMsgs : m.type # "McpServerStatus" /\ coordBox' = Append(coordBox, m)
         \/ /\ status' = status
            /\ \E type : type # "McpServerStatus" /\ NextMsg(type)
         \/ HandleStatus,
         UNCHANGED <<orchBox, routable>> \/ HandleOrch
  PROVE  OneSaid'
<1>1. \A s \in {"Dead", "Running"} : StatusSaid(s) => StatusSaid(s)'
  BY StatusStays DEF Statuses
<1>2. /\ ToolsSaid("RegisterTools", routable) => ToolsSaid("RegisterTools", routable)'
      /\ ToolsSaid("ToolsUnregistered", ~routable) => ToolsSaid("ToolsUnregistered", ~routable)'
  BY ToolsTaken DEF ToolsSaid
<1> QED
  BY <1>1, <1>2 DEF OneSaid, OneActorSaid

\* What the actor says as it moves on is what its new state calls for.
LEMMA ActorSaid ==
  ASSUME McpTypeOK, McpTypeOK', OneSaid, Len(actor) = 1, Actor(1) \/ ConnectFails(1)
  PROVE  OneActorSaid'
<1>1. OneActorSaid /\ ActorTypes /\ 1 \in Ids
  BY Parts DEF OneSaid, Ids
<1>2. ASSUME NEW from, NEW to \in ActorStates, ActorStep(1, from, to)
      PROVE  actor[1] \in from /\ actor'[1] = to /\ UNCHANGED status
  BY <1>1, <1>2, ActorStepClosed DEF ActorStep, sharedVars
<1>3. /\ coordBox' = coordBox /\ status' = status
           => \A s \in {"Dead", "Running"} : StatusSaid(s) => StatusSaid(s)'
      /\ orchBox' = orchBox /\ routable' = routable
           => /\ ToolsSaid("RegisterTools", routable) => ToolsSaid("RegisterTools", routable)'
              /\ ToolsSaid("ToolsUnregistered", ~routable)
                   => ToolsSaid("ToolsUnregistered", ~routable)'
  BY DEF StatusSaid, ToolsSaid
<1>4. \A s \in {"Dead", "Running"} : PublishStatus(s) => StatusSaid(s)'
  BY StatusPosted DEF Statuses
<1> USE DEF ActorStates, OneActorSaid
<1>5. CASE Announce(1)
  <2>1. actor'[1] = "connecting"
    BY <1>2, <1>5 DEF Announce
  <2> QED
    BY <2>1
<1>6. CASE RegisterTools(1)
  <2>1. actor'[1] = "listed" /\ orchBox' = Append(orchBox, "RegisterTools") /\ routable' = routable
    BY <1>2, <1>6 DEF RegisterTools
  <2>2. ToolsSaid("RegisterTools", routable)'
    BY <2>1, ToolsPosted DEF OrchMsgs
  <2> QED
    BY <2>1, <2>2
<1>7. CASE SayRunning(1)
  <2>1. /\ actor[1] = "listed" /\ actor'[1] = "running" /\ 1 \in watched'
        /\ UNCHANGED <<orchBox, routable>> /\ PublishStatus("Running")
    BY <1>2, <1>7 DEF SayRunning, orchVars
  <2> QED
    BY <1>1, <1>3, <1>4, <2>1
<1>8. CASE ConnectFails(1)
  <2>1. actor'[1] = "failed" /\ PublishStatus("Dead")
    BY <1>2, <1>8 DEF ConnectFails
  <2> QED
    BY <1>4, <2>1
<1>9. CASE ReportDeath(1)
  <2>1. /\ UNCHANGED <<actor, up, orchBox, routable>> /\ PublishStatus("Dead")
        /\ 1 \in watched /\ 1 \notin up /\ 1 \notin watched'
    BY <1>9 DEF ReportDeath, orchVars
  <2>2. actor[1] \in {"running", "calling"}
    BY <1>1, <2>1, Marked
  <2> QED
    BY <1>1, <1>3, <1>4, <2>1, <2>2
<1>10. CASE TakeCall(1)
  <2>1. CASE ActorStep(1, {"running"}, "calling")
    <3>1. /\ actor[1] = "running" /\ actor'[1] = "calling"
          /\ UNCHANGED <<status, coordBox, up, watched, orchBox, routable>>
      <4>1. ActorStep(1, {"running"}, "calling") => ~ActorStep(1, {"failed"}, "failed")
        BY DEF ActorStep
      <4> QED
        BY <1>2, <1>10, <2>1, <4>1 DEF TakeCall
    <3> QED
      BY <1>1, <1>3, <3>1
  <2>2. CASE ActorStep(1, {"failed"}, "failed")
    <3>1. actor[1] = "failed" /\ actor'[1] = "failed" /\ UNCHANGED <<status, coordBox>>
      BY <1>2, <1>10, <2>2 DEF TakeCall
    <3> QED
      BY <1>1, <1>3, <3>1
  <2> QED
    BY <1>10, <2>1, <2>2 DEF TakeCall
<1>11. CASE EndCall(1)
  <2>1. /\ actor[1] = "calling" /\ actor'[1] = "running"
        /\ UNCHANGED <<status, coordBox, up, watched, routable>>
        /\ orchBox' = Append(orchBox, "ToolExecutionCompleted")
    BY <1>2, <1>11 DEF EndCall, Answer
  <2>2. ToolsSaid("RegisterTools", routable) => ToolsSaid("RegisterTools", routable)'
    BY <2>1, ToolsPosted DEF OrchMsgs
  <2> QED
    BY <1>1, <1>3, <2>1, <2>2
<1>12. CASE BeginStop(1)
  <2>1. actor'[1] = "stopping"
    BY <1>2, <1>12 DEF BeginStop
  <2> QED
    BY <2>1
<1>13. CASE SayDead(1)
  <2>1. actor'[1] = "parted" /\ PublishStatus("Dead")
    BY <1>2, <1>13 DEF SayDead
  <2> QED
    BY <1>4, <2>1
<1>14. CASE Unregister(1)
  <2>1. /\ actor[1] = "parted" /\ actor'[1] = "gone" /\ UNCHANGED <<status, coordBox, routable>>
        /\ orchBox' = Append(orchBox, "ToolsUnregistered")
    BY <1>2, <1>14 DEF Unregister
  <2>2. ToolsSaid("ToolsUnregistered", ~routable)'
    BY <2>1, ToolsPosted DEF OrchMsgs
  <2> QED
    BY <1>1, <1>3, <2>1, <2>2
<1> QED
  BY <1>5, <1>6, <1>7, <1>8, <1>9, <1>10, <1>11, <1>12, <1>13, <1>14 DEF Actor

\* A new actor has said nothing that its state calls for.
LEMMA SpawnedSaid ==
  ASSUME McpTypeOK, NEW boxes \in Seq(Boxes), DOMAIN boxes = Ids, Spawn(boxes)
  PROVE  OneSaid'
<1>1. Len(actor) \in Nat /\ Len(actor') = Len(actor) + 1 /\ actor'[Len(actor) + 1] = "spawned"
  BY Parts, SpawnClosed DEF ActorTypes
<1>2. Len(actor') = 1 => actor'[1] = "spawned"
  BY <1>1
<1> QED
  BY <1>2 DEF OneSaid, OneActorSaid

LEMMA CoordinatorSaid ==
  ASSUME McpTypeOK, OneSaid, Coordinator
  PROVE  OneSaid'
<1>1. ActorTypes /\ box \in Seq(Boxes) /\ DOMAIN box = Ids
  BY Parts DEF ActorTypes
<1>2. CASE HandleSessionCreated \/ HandleEnablementChanged
  <2>1. PICK desired : Reconcile(desired)
    BY <1>2 DEF HandleSessionCreated, HandleEnablementChanged
  <2>2. CASE Spawn(box)
    BY <1>1, <2>2, SpawnedSaid
  <2>3. CASE ~Spawn(box)
    <3>1. actor' = actor
      BY <2>1, <2>3 DEF Reconcile, Kill
    <3>2. \E type : type # "McpServerStatus" /\ NextMsg(type)
      BY <1>2 DEF HandleSessionCreated, HandleEnablementChanged
    <3>3. UNCHANGED <<status, up, watched, orchBox, routable>>
      BY <1>2 DEF HandleSessionCreated, HandleEnablementChanged, sharedVars, orchVars
    <3> HIDE DEF NextMsg
    <3> QED
      BY <3>1, <3>2, <3>3, OthersSay
  <2> QED
    BY <2>2, <2>3
<1>3. CASE HandleRestart
  <2>1. StopBox(tracked) \in Seq(Boxes) /\ DOMAIN StopBox(tracked) = Ids
    BY <1>1, StopBoxClosed DEF ActorTypes
  <2> QED
    BY <1>3, <2>1, SpawnedSaid DEF HandleRestart
<1>4. CASE EndRestart
  BY <1>4, OthersSay DEF EndRestart, sharedVars, actorVars, orchVars
<1>5. CASE HandleStatus
  BY <1>5, OthersSay DEF HandleStatus, actorVars, orchVars
<1> QED
  BY <1>2, <1>3, <1>4, <1>5 DEF Coordinator

LEMMA InputsSaid ==
  ASSUME McpTypeOK, OneSaid,
         ConfirmPicker \/ PublishConfirmed \/ AskRestart \/ DispatchCall \/ UNCHANGED vars
  PROVE  OneSaid'
<1>1. /\ UNCHANGED <<actor, watched, up, status, orchBox, routable>>
      /\ \/ coordBox' = coordBox
         \/ \E m \in CoordMsgs : m.type # "McpServerStatus" /\ coordBox' = Append(coordBox, m)
  <2>1. CASE ConfirmPicker \/ DispatchCall \/ UNCHANGED vars
    BY <2>1 DEF ConfirmPicker, DispatchCall, vars, sharedVars, coordVars, actorVars, orchVars
  <2>2. CASE PublishConfirmed
    <3>1. PICK i \in DOMAIN confirmed :
            coordBox' = Append(coordBox, [type |-> "McpEnablementChanged", on |-> confirmed[i]])
      BY <2>2 DEF PublishConfirmed
    <3>2. confirmed[i] \in BOOLEAN
      BY <3>1, Parts, LenProperties DEF Rest
    <3>3. [type |-> "McpEnablementChanged", on |-> confirmed[i]] \in CoordMsgs
      BY <3>2, MessageKinds
    <3> QED
      BY <2>2, <3>1, <3>3 DEF PublishConfirmed, sharedVars, actorVars, orchVars
  <2>3. CASE AskRestart
    BY <2>3, MessageKinds DEF AskRestart, sharedVars, actorVars, orchVars
  <2> QED
    BY <2>1, <2>2, <2>3
<1> QED
  BY <1>1, OthersSay

LEMMA NextSaid ==
  ASSUME McpTypeOK, McpTypeOK', OneSaid, [Next]_vars
  PROVE  OneSaid'
<1>1. CASE HandleOrch
  BY <1>1, OthersSay DEF HandleOrch, sharedVars, coordVars, actorVars
<1>2. ASSUME NEW id \in Ids, ServerDies(id)
      PROVE  OneSaid'
  BY <1>2, OthersSay DEF ServerDies, sharedVars, coordVars, orchVars
<1>3. ASSUME NEW id \in Ids, Actor(id) \/ ConnectFails(id)
      PROVE  OneSaid'
  <2>1. Ids' = Ids
    BY <1>3, ActorSpeaks, DeathTypes, TakeCallTypes, StopTypes, UnregisterTypes DEF Actor
  <2>2. Len(actor) \in Nat /\ Len(actor') \in Nat
    BY Parts DEF ActorTypes
  <2>3. Len(actor') = 1 => Len(actor) = 1
    <3>1. \A m, n \in Nat : 1..m = 1..n => m = n
      OBVIOUS
    <3> QED
      BY <2>1, <2>2, <3>1 DEF Ids
  <2>4. Len(actor) = 1 => id = 1
    BY <1>3 DEF Ids
  <2> QED
    BY <1>3, <2>3, <2>4, ActorSaid DEF OneSaid
<1> QED
  BY <1>1, <1>2, <1>3, CoordinatorSaid, InputsSaid DEF Next, Work

\* Settled, the views hold the last words.
LEMMA QuietViews ==
  ASSUME McpTypeOK, NoOrphanActor, OneSaid
  PROVE  ViewsAgree
<1> SUFFICES ASSUME Quiet, Len(actor) = 1
             PROVE  /\ status = "Running" <=> tracked # 0 /\ tracked \in up
                    /\ tracked = 0 => status = "Dead" /\ ~routable
                    /\ tracked \in up => routable
  BY DEF ViewsAgree
<1>1. /\ coordBox = <<>> /\ orchBox = <<>> /\ watched \subseteq up
      /\ box[1] = <<>> /\ actor[1] \in {"running", "failed", "gone"} /\ 1 \in Ids
  BY DEF Quiet, Ids
<1>2. /\ \A s : StatusSaid(s) => status = s
      /\ ToolsSaid("RegisterTools", routable) => routable
      /\ ToolsSaid("ToolsUnregistered", ~routable) => ~routable
  BY <1>1 DEF StatusSaid, ToolsSaid, LastWord
<1>3. tracked \in {0, 1}
  BY Parts DEF ActorTypes
<1>4. tracked = 1 <=> actor[1] # "gone"
  <2>1. Told(1) <=> actor[1] = "gone"
    BY <1>1 DEF Told
  <2> QED
    BY <1>1, <1>3, <2>1 DEF NoOrphanActor
<1>5. /\ 1 \in up => actor[1] \in {"listed", "running", "calling"}
      /\ 1 \in watched => actor[1] \in {"running", "calling"}
      /\ 0 \notin up
  <2>1. 0 \notin up
    BY Parts DEF Marks, Ids
  <2> QED
    BY <1>1, <2>1, Marked
<1> QED
  BY <1>1, <1>2, <1>3, <1>4, <1>5 DEF OneSaid, OneActorSaid

\* However its server came and went, its tools were listed and called and the actor was
\* stopped: once the one actor of a pair and its views have settled, the status and the
\* routing map say what the transport is.
THEOREM ViewsSettled == Spec => []ViewsAgree
<1>1. Init => OneSaid
  BY DEF Init, OneSaid
<1>2. McpTypeOK /\ McpTypeOK' /\ OneSaid /\ [Next]_vars => OneSaid'
  BY NextSaid
<1>3. McpTypeOK /\ NoOrphanActor /\ OneSaid => ViewsAgree
  BY QuietViews
<1> QED
  BY <1>1, <1>2, <1>3, McpTypeCorrect, NoOrphans, PTL DEF Spec

=============================================================================
