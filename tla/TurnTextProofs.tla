--------------------------- MODULE TurnTextProofs ---------------------------
(* No submitted text of a session is lost or doubled, and the actors keep the *)
(* promise TextLedger states: for every set of texts, every mix of input      *)
(* modes and every number of inputs and mishaps.                              *)
(*                                                                            *)
(* A step moves a text from one place to another.  Stated with a cardinality  *)
(* that is awkward to count; stated per place it is propositional: a text     *)
(* is in each place at most once, in at most one of the eight, and in one of  *)
(* them exactly if it was submitted.                                          *)
EXTENDS TurnEngineProofs, FiniteSetTheorems

-----------------------------------------------------------------------------
(* The places, as operators of what they hold. *)

Bridged(msgs, m) == \E b \in msgs : Carries(b, m)
BridgedOnce(msgs, m) == \A b, c \in msgs : Carries(b, m) /\ Carries(c, m) => b = c

Mailed(box, m) == \E i \in DOMAIN box : Carries(box[i], m)
MailedOnce(box, m) ==
  \A i, j \in DOMAIN box : Carries(box[i], m) /\ Carries(box[j], m) => i = j

Has(entries, m) == \E i \in DOMAIN entries : m \in entries[i]
HasOnce(entries, m) ==
  \A i, j \in DOMAIN entries : m \in entries[i] /\ m \in entries[j] => i = j

Holds(h, m) == h.at = "popped" /\ m \in h.entry

\* At most one of eight.
Alone(a, b, c, d, e, f, g, h) ==
  /\ a => ~b /\ ~c /\ ~d /\ ~e /\ ~f /\ ~g /\ ~h
  /\ b => ~c /\ ~d /\ ~e /\ ~f /\ ~g /\ ~h
  /\ c => ~d /\ ~e /\ ~f /\ ~g /\ ~h
  /\ d => ~e /\ ~f /\ ~g /\ ~h
  /\ e => ~f /\ ~g /\ ~h
  /\ f => ~g /\ ~h
  /\ g => ~h

\* Where m is, for given contents of the places.
Placed(msgs, box, q, hist, h, steer, inp, over, sub, m) ==
  /\ BridgedOnce(msgs, m) /\ MailedOnce(box, m) /\ HasOnce(q, m) /\ HasOnce(hist, m)
  /\ Alone(Bridged(msgs, m), Mailed(box, m), Has(q, m), Has(hist, m), Holds(h, m),
           m \in steer, m \in inp, m \in over)
  /\ m \in sub <=> \/ Bridged(msgs, m) \/ Mailed(box, m) \/ Has(q, m) \/ Has(hist, m)
                   \/ Holds(h, m) \/ m \in steer \/ m \in inp \/ m \in over

TextsPlaced ==
  \A m \in Msgs : Placed(bridge, sessionBox, queue, history, hand, steering, input,
                         overwritten, submitted, m)

-----------------------------------------------------------------------------
(* How the places change. *)

LEMMA EntriesAppended ==
  ASSUME NEW s \in Seq(Texts), NEW e \in Texts, NEW m
  PROVE  /\ Has(Append(s, e), m) <=> Has(s, m) \/ m \in e
         /\ HasOnce(s, m) /\ ~(Has(s, m) /\ m \in e) => HasOnce(Append(s, e), m)
<1>1. /\ DOMAIN s = 1..Len(s) /\ Len(s) \in Nat
      /\ DOMAIN Append(s, e) = 1..(Len(s) + 1)
      /\ \A i \in 1..Len(s) : Append(s, e)[i] = s[i]
      /\ Append(s, e)[Len(s) + 1] = e
  OBVIOUS
<1>2. \A i \in 1..(Len(s) + 1) : i \in 1..Len(s) \/ i = Len(s) + 1
  BY <1>1
<1>3. Len(s) + 1 \in 1..(Len(s) + 1) /\ \A i \in 1..Len(s) : i \in 1..(Len(s) + 1)
  BY <1>1
<1> QED
  BY <1>1, <1>2, <1>3 DEF Has, HasOnce

LEMMA EntriesTaken ==
  ASSUME NEW s \in Seq(Texts), s # <<>>, NEW m
  PROVE  /\ Has(s, m) <=> m \in Head(s) \/ Has(Tail(s), m)
         /\ HasOnce(s, m) => HasOnce(Tail(s), m) /\ ~(m \in Head(s) /\ Has(Tail(s), m))
<1>1. /\ DOMAIN s = 1..Len(s) /\ Len(s) \in Nat /\ Len(s) > 0 /\ Head(s) = s[1]
      /\ DOMAIN Tail(s) = 1..(Len(s) - 1)
      /\ \A i \in 1..(Len(s) - 1) : Tail(s)[i] = s[i + 1] /\ i + 1 \in 1..Len(s)
  OBVIOUS
<1>2. 1 \in 1..Len(s) /\ \A i \in 1..Len(s) : i = 1 \/ i - 1 \in 1..(Len(s) - 1)
  BY <1>1
<1>3. \A i \in 1..Len(s) : i # 1 => s[i] = Tail(s)[i - 1]
  <2> SUFFICES ASSUME NEW i \in 1..Len(s), i # 1 PROVE s[i] = Tail(s)[i - 1]
    OBVIOUS
  <2>1. i - 1 \in 1..(Len(s) - 1) /\ (i - 1) + 1 = i
    BY <1>1
  <2> QED
    BY <1>1, <2>1
<1>4. Has(s, m) <=> m \in Head(s) \/ Has(Tail(s), m)
  BY <1>1, <1>2, <1>3 DEF Has
<1>5. ASSUME HasOnce(s, m)
      PROVE  HasOnce(Tail(s), m) /\ ~(m \in Head(s) /\ Has(Tail(s), m))
  <2>1. ASSUME NEW i \in DOMAIN Tail(s), NEW j \in DOMAIN Tail(s),
               m \in Tail(s)[i], m \in Tail(s)[j]
        PROVE  i = j
    <3>1. i + 1 \in DOMAIN s /\ j + 1 \in DOMAIN s /\ m \in s[i + 1] /\ m \in s[j + 1]
      BY <1>1, <2>1
    <3>2. i + 1 = j + 1
      BY <1>5, <3>1 DEF HasOnce
    <3> QED
      BY <1>1, <3>2
  <2>2. ASSUME NEW i \in DOMAIN Tail(s), m \in Tail(s)[i], m \in Head(s)
        PROVE  FALSE
    <3>1. i + 1 \in DOMAIN s /\ 1 \in DOMAIN s /\ m \in s[i + 1] /\ m \in s[1]
      BY <1>1, <1>2, <2>2
    <3>2. i + 1 = 1
      BY <1>5, <3>1 DEF HasOnce
    <3> QED
      BY <1>1, <3>2
  <2> QED
    BY <2>1, <2>2 DEF HasOnce, Has
<1> QED
  BY <1>4, <1>5

LEMMA MailAppended ==
  ASSUME NEW s \in Seq(SessionMsg), NEW e \in SessionMsg, NEW m
  PROVE  /\ Mailed(Append(s, e), m) <=> Mailed(s, m) \/ Carries(e, m)
         /\ MailedOnce(s, m) /\ ~(Mailed(s, m) /\ Carries(e, m))
              => MailedOnce(Append(s, e), m)
<1>1. /\ DOMAIN s = 1..Len(s) /\ Len(s) \in Nat
      /\ DOMAIN Append(s, e) = 1..(Len(s) + 1)
      /\ \A i \in 1..Len(s) : Append(s, e)[i] = s[i]
      /\ Append(s, e)[Len(s) + 1] = e
  OBVIOUS
<1>2. \A i \in 1..(Len(s) + 1) : i \in 1..Len(s) \/ i = Len(s) + 1
  BY <1>1
<1>3. Len(s) + 1 \in 1..(Len(s) + 1) /\ \A i \in 1..Len(s) : i \in 1..(Len(s) + 1)
  BY <1>1
<1> QED
  BY <1>1, <1>2, <1>3 DEF Mailed, MailedOnce

LEMMA MailTaken ==
  ASSUME NEW s \in Seq(SessionMsg), s # <<>>, NEW m
  PROVE  /\ Mailed(s, m) <=> Carries(Head(s), m) \/ Mailed(Tail(s), m)
         /\ MailedOnce(s, m)
              => MailedOnce(Tail(s), m) /\ ~(Carries(Head(s), m) /\ Mailed(Tail(s), m))
<1>1. /\ DOMAIN s = 1..Len(s) /\ Len(s) \in Nat /\ Len(s) > 0 /\ Head(s) = s[1]
      /\ DOMAIN Tail(s) = 1..(Len(s) - 1)
      /\ \A i \in 1..(Len(s) - 1) : Tail(s)[i] = s[i + 1] /\ i + 1 \in 1..Len(s)
  OBVIOUS
<1>2. 1 \in 1..Len(s) /\ \A i \in 1..Len(s) : i = 1 \/ i - 1 \in 1..(Len(s) - 1)
  BY <1>1
<1>3. \A i \in 1..Len(s) : i # 1 => s[i] = Tail(s)[i - 1]
  <2> SUFFICES ASSUME NEW i \in 1..Len(s), i # 1 PROVE s[i] = Tail(s)[i - 1]
    OBVIOUS
  <2>1. i - 1 \in 1..(Len(s) - 1) /\ (i - 1) + 1 = i
    BY <1>1
  <2> QED
    BY <1>1, <2>1
<1>4. Mailed(s, m) <=> Carries(Head(s), m) \/ Mailed(Tail(s), m)
  BY <1>1, <1>2, <1>3 DEF Mailed
<1>5. ASSUME MailedOnce(s, m)
      PROVE  MailedOnce(Tail(s), m) /\ ~(Carries(Head(s), m) /\ Mailed(Tail(s), m))
  <2>1. ASSUME NEW i \in DOMAIN Tail(s), NEW j \in DOMAIN Tail(s),
               Carries(Tail(s)[i], m), Carries(Tail(s)[j], m)
        PROVE  i = j
    <3>1. i + 1 \in DOMAIN s /\ j + 1 \in DOMAIN s
          /\ Carries(s[i + 1], m) /\ Carries(s[j + 1], m)
      BY <1>1, <2>1
    <3>2. i + 1 = j + 1
      BY <1>5, <3>1 DEF MailedOnce
    <3> QED
      BY <1>1, <3>2
  <2>2. ASSUME NEW i \in DOMAIN Tail(s), Carries(Tail(s)[i], m), Carries(Head(s), m)
        PROVE  FALSE
    <3>1. i + 1 \in DOMAIN s /\ 1 \in DOMAIN s /\ Carries(s[i + 1], m) /\ Carries(s[1], m)
      BY <1>1, <1>2, <2>2
    <3>2. i + 1 = 1
      BY <1>5, <3>1 DEF MailedOnce
    <3> QED
      BY <1>1, <3>2
  <2> QED
    BY <2>1, <2>2 DEF MailedOnce, Mailed
<1> QED
  BY <1>4, <1>5

\* Joining entries keeps what they have.
LEMMA Joined == \A s \in Seq(Texts) : \A m : m \in Join(s) <=> Has(s, m)
BY DEF Join, Has

LEMMA NothingHeld ==
  /\ \A m : ~Has(<<>>, m) /\ HasOnce(<<>>, m) /\ ~Mailed(<<>>, m) /\ MailedOnce(<<>>, m)
            /\ ~Bridged({}, m) /\ BridgedOnce({}, m)
  /\ \A h \in Hands : \A m : Holds(h, m) => h.at = "popped"
BY DEF Has, HasOnce, Mailed, MailedOnce, Bridged, BridgedOnce, Holds


-----------------------------------------------------------------------------
(* The steps. *)

Textless(msg) == msg.type \notin {"EnqueueUserMessage", "SubmitSteeringMessage"}

LEMMA TextlessCarriesNone == \A msg, m : Textless(msg) => ~Carries(msg, m)
BY DEF Textless, Carries

\* What the actors build or answer besides the two messages of the input box.
LEMMA TextlessKinds ==
  /\ \A g, o : Textless(Send(g, o))
  /\ \A g, r : Textless(Completed(g, r))
  /\ \A g : Textless(Note("StreamToken", g)) /\ Textless(Note("ToolExecutionCompleted", g))
            /\ Textless(Note("ToolBatchCompleted", g))
  /\ \A n : /\ Textless([type |-> "CancelStream", nth |-> n])
            /\ Textless([type |-> "EnqueueResumeTurn", nth |-> n])
  /\ Textless([type |-> "RetryStalledSession"])
BY DEF Textless, Send, Completed, Note

\* The session's mailbox has gained or lost a message without a text, or neither.
MailQuiet ==
  \/ sessionBox' = sessionBox
  \/ \E e \in SessionMsg : Textless(e) /\ sessionBox' = Append(sessionBox, e)
  \/ sessionBox # <<>> /\ Textless(Head(sessionBox)) /\ sessionBox' = Tail(sessionBox)

LEMMA MailQuietly ==
  ASSUME sessionBox \in Seq(SessionMsg), MailQuiet, NEW m
  PROVE  /\ Mailed(sessionBox', m) <=> Mailed(sessionBox, m)
         /\ MailedOnce(sessionBox, m) => MailedOnce(sessionBox', m)
<1>1. CASE sessionBox' = sessionBox
  BY <1>1
<1>2. ASSUME NEW e \in SessionMsg, Textless(e), sessionBox' = Append(sessionBox, e)
      PROVE  /\ Mailed(sessionBox', m) <=> Mailed(sessionBox, m)
             /\ MailedOnce(sessionBox, m) => MailedOnce(sessionBox', m)
  BY <1>2, MailAppended, TextlessCarriesNone
<1>3. CASE sessionBox # <<>> /\ Textless(Head(sessionBox)) /\ sessionBox' = Tail(sessionBox)
  BY <1>3, MailTaken, TextlessCarriesNone
<1> QED
  BY <1>1, <1>2, <1>3 DEF MailQuiet

BridgeQuiet == bridge' = bridge \/ \E b : Textless(b) /\ bridge' = bridge \cup {b}

LEMMA BridgeQuietly ==
  ASSUME BridgeQuiet, NEW m
  PROVE  /\ Bridged(bridge', m) <=> Bridged(bridge, m)
         /\ BridgedOnce(bridge, m) => BridgedOnce(bridge', m)
<1>1. ASSUME NEW b, Textless(b), bridge' = bridge \cup {b}
      PROVE  \A c \in bridge' : Carries(c, m) => c \in bridge
  BY <1>1, TextlessCarriesNone
<1>2. \A c \in bridge' : Carries(c, m) => c \in bridge
  BY <1>1 DEF BridgeQuiet
<1>3. bridge \subseteq bridge'
  BY DEF BridgeQuiet
<1> QED
  BY <1>2, <1>3 DEF Bridged, BridgedOnce

HandQuiet == hand' = hand \/ (hand.at # "popped" /\ hand'.at # "popped")

EntryVars == <<queue, history, steering, input, overwritten, submitted>>

\* A step that moves no text.
LEMMA QuietStep ==
  ASSUME TypeOK, TextsPlaced, MailQuiet, BridgeQuiet, HandQuiet, UNCHANGED EntryVars
  PROVE  TextsPlaced'
<1> SUFFICES ASSUME NEW m \in Msgs
             PROVE  Placed(bridge, sessionBox, queue, history, hand, steering, input,
                           overwritten, submitted, m)'
  BY DEF TextsPlaced
<1>1. Placed(bridge, sessionBox, queue, history, hand, steering, input, overwritten,
             submitted, m)
  BY DEF TextsPlaced
<1>2. /\ Mailed(sessionBox', m) <=> Mailed(sessionBox, m)
      /\ MailedOnce(sessionBox, m) => MailedOnce(sessionBox', m)
  BY MailQuietly DEF TypeOK
<1>3. /\ Bridged(bridge', m) <=> Bridged(bridge, m)
      /\ BridgedOnce(bridge, m) => BridgedOnce(bridge', m)
  BY BridgeQuietly
<1>4. Holds(hand', m) <=> Holds(hand, m)
  BY DEF HandQuiet, Holds
<1>5. /\ queue' = queue /\ history' = history /\ steering' = steering /\ input' = input
      /\ overwritten' = overwritten /\ submitted' = submitted
  BY DEF EntryVars
<1> QED
  BY <1>1, <1>2, <1>3, <1>4, <1>5 DEF Placed, Alone

\* RestoreToInput: what the buffers had is in the input box, what the box had is
\* overwritten, or nothing has happened.
LEMMA Restored ==
  ASSUME NEW text, RestoreToInput(text), NEW m
  PROVE  \/ /\ m \in input' <=> m \in text
            /\ m \in overwritten' <=> m \in overwritten \/ m \in input
         \/ m \notin text
            /\ (m \in input' <=> m \in input) /\ (m \in overwritten' <=> m \in overwritten)
BY DEF RestoreToInput

LEMMA SubmitPlaces ==
  ASSUME TypeOK, TextsPlaced, NEW new \in SUBSET Msgs, NEW mode, Submit(new, mode)
  PROVE  TextsPlaced'
<1> DEFINE entry == input \cup new
           msg == IF mode = "Queue" \/ phase = "Idle" THEN Enqueue(entry) ELSE Steer(entry)
<1> SUFFICES ASSUME NEW m \in Msgs
             PROVE  Placed(bridge, sessionBox, queue, history, hand, steering, input,
                           overwritten, submitted, m)'
  BY DEF TextsPlaced
<1>1. Placed(bridge, sessionBox, queue, history, hand, steering, input, overwritten,
             submitted, m)
  BY DEF TextsPlaced
<1>2. Carries(msg, m) <=> m \in entry
  BY DEF Carries, Enqueue, Steer
<1> HIDE DEF msg
<1>3. /\ bridge' = bridge \cup {msg} /\ input' = {} /\ submitted' = submitted \cup new
      /\ new \cap submitted = {}
      /\ UNCHANGED <<sessionBox, queue, history, hand, steering, overwritten>>
  BY DEF Submit, msg
<1>4. /\ Bridged(bridge', m) <=> Bridged(bridge, m) \/ m \in entry
      /\ BridgedOnce(bridge, m) /\ ~(Bridged(bridge, m) /\ m \in entry)
           => BridgedOnce(bridge', m)
  BY <1>2, <1>3 DEF Bridged, BridgedOnce
<1>5. m \in new => m \notin submitted
  BY <1>3
<1> QED
  BY <1>1, <1>3, <1>4, <1>5 DEF Placed, Alone

LEMMA EscPlaces == ASSUME TypeOK, TextsPlaced, EscConfirm PROVE TextsPlaced'
<1> DEFINE text == steering \cup Join(queue)
<1> SUFFICES ASSUME NEW m \in Msgs
             PROVE  Placed(bridge, sessionBox, queue, history, hand, steering, input,
                           overwritten, submitted, m)'
  BY DEF TextsPlaced
<1>1. Placed(bridge, sessionBox, queue, history, hand, steering, input, overwritten,
             submitted, m)
  BY DEF TextsPlaced
<1>2. BridgeQuiet
  BY TextlessKinds DEF BridgeQuiet, EscConfirm
<1>3. /\ Bridged(bridge', m) <=> Bridged(bridge, m)
      /\ BridgedOnce(bridge, m) => BridgedOnce(bridge', m)
  BY <1>2, BridgeQuietly
<1>4. /\ steering' = {} /\ queue' = <<>> /\ RestoreToInput(text)
      /\ UNCHANGED <<sessionBox, history, hand, submitted>>
  BY DEF EscConfirm, DrainBuffers
<1>5. m \in text <=> m \in steering \/ Has(queue, m)
  BY Joined DEF TypeOK
<1>6. ~Has(queue', m) /\ HasOnce(queue', m)
  BY <1>4, NothingHeld
<1>7. \/ /\ m \in input' <=> m \in text
         /\ m \in overwritten' <=> m \in overwritten \/ m \in input
      \/ m \notin text
         /\ (m \in input' <=> m \in input) /\ (m \in overwritten' <=> m \in overwritten)
  BY <1>4, Restored
<1> HIDE DEF text
<1> QED
  BY <1>1, <1>3, <1>4, <1>5, <1>6, <1>7 DEF Placed, Alone

LEMMA BridgePlaces ==
  ASSUME TypeOK, TextsPlaced, NEW b \in bridge, BridgePublish(b) PROVE TextsPlaced'
<1> SUFFICES ASSUME NEW m \in Msgs
             PROVE  Placed(bridge, sessionBox, queue, history, hand, steering, input,
                           overwritten, submitted, m)'
  BY DEF TextsPlaced
<1>1. Placed(bridge, sessionBox, queue, history, hand, steering, input, overwritten,
             submitted, m)
  BY DEF TextsPlaced
<1>2. b \in BridgeMsg
  BY DEF TypeOK
<1>3. /\ bridge' = bridge \ {b}
      /\ UNCHANGED <<queue, history, hand, steering, input, overwritten, submitted>>
  BY DEF BridgePublish, sessionVars
<1>4. /\ Bridged(bridge, m) <=> Bridged(bridge', m) \/ Carries(b, m)
      /\ BridgedOnce(bridge, m)
           => BridgedOnce(bridge', m) /\ ~(Bridged(bridge', m) /\ Carries(b, m))
  BY <1>3 DEF Bridged, BridgedOnce
<1>5. CASE b.type = "CancelStream"
  <2>1. sessionBox' = sessionBox /\ ~Carries(b, m)
    BY <1>5 DEF BridgePublish, Carries
  <2> QED
    BY <1>1, <1>3, <1>4, <2>1 DEF Placed, Alone
<1>6. CASE b.type # "CancelStream"
  <2>1. b \in SessionMsg /\ sessionBox' = Append(sessionBox, b)
    BY <1>2, <1>6, MessageFields DEF BridgePublish
  <2>2. /\ Mailed(sessionBox', m) <=> Mailed(sessionBox, m) \/ Carries(b, m)
        /\ MailedOnce(sessionBox, m) /\ ~(Mailed(sessionBox, m) /\ Carries(b, m))
             => MailedOnce(sessionBox', m)
    BY <2>1, MailAppended DEF TypeOK
  <2>3. Carries(b, m) => Bridged(bridge, m)
    BY DEF Bridged
  <2> QED
    BY <1>1, <1>3, <1>4, <2>2, <2>3 DEF Placed, Alone
<1> QED
  BY <1>5, <1>6

\* The head of the session actor's mailbox, when it carries an entry.
LEMMA EntryTaken ==
  ASSUME TypeOK, NEW type \in {"EnqueueUserMessage", "SubmitSteeringMessage"},
         NextSessionMsg(type), NEW m
  PROVE  /\ Head(sessionBox).entry \in Texts
         /\ Mailed(sessionBox, m) <=> m \in Head(sessionBox).entry \/ Mailed(sessionBox', m)
         /\ MailedOnce(sessionBox, m)
              => /\ MailedOnce(sessionBox', m)
                 /\ ~(m \in Head(sessionBox).entry /\ Mailed(sessionBox', m))
<1>1. /\ Head(sessionBox) \in SessionMsg /\ Head(sessionBox).type = type
      /\ sessionBox # <<>> /\ sessionBox' = Tail(sessionBox)
  BY SessionHead DEF TypeOK, NextSessionMsg
<1>2. Carries(Head(sessionBox), m) <=> m \in Head(sessionBox).entry
  BY <1>1 DEF Carries
<1> QED
  BY <1>1, <1>2, MessageFields, MailTaken DEF TypeOK

LEMMA EnqueuePlaces ==
  ASSUME TypeOK, TextsPlaced, HandleEnqueueUserMessage PROVE TextsPlaced'
<1> DEFINE entry == Head(sessionBox).entry
<1> SUFFICES ASSUME NEW m \in Msgs
             PROVE  Placed(bridge, sessionBox, queue, history, hand, steering, input,
                           overwritten, submitted, m)'
  BY DEF TextsPlaced
<1>1. Placed(bridge, sessionBox, queue, history, hand, steering, input, overwritten,
             submitted, m)
  BY DEF TextsPlaced
<1>2. /\ entry \in Texts
      /\ Mailed(sessionBox, m) <=> m \in entry \/ Mailed(sessionBox', m)
      /\ MailedOnce(sessionBox, m)
           => MailedOnce(sessionBox', m) /\ ~(m \in entry /\ Mailed(sessionBox', m))
  BY EntryTaken DEF HandleEnqueueUserMessage
<1>3. UNCHANGED <<bridge, hand, steering, input, overwritten, submitted>>
  BY DEF HandleEnqueueUserMessage, userVars
<1>4. CASE history' = Append(history, entry) /\ queue' = queue
  <2>1. /\ Has(history', m) <=> Has(history, m) \/ m \in entry
        /\ HasOnce(history, m) /\ ~(Has(history, m) /\ m \in entry) => HasOnce(history', m)
    BY <1>2, <1>4, EntriesAppended DEF TypeOK
  <2> HIDE DEF entry
  <2> QED
    BY <1>1, <1>2, <1>3, <1>4, <2>1 DEF Placed, Alone
<1>5. CASE queue' = Append(queue, entry) /\ history' = history
  <2>1. /\ Has(queue', m) <=> Has(queue, m) \/ m \in entry
        /\ HasOnce(queue, m) /\ ~(Has(queue, m) /\ m \in entry) => HasOnce(queue', m)
    BY <1>2, <1>5, EntriesAppended DEF TypeOK
  <2> HIDE DEF entry
  <2> QED
    BY <1>1, <1>2, <1>3, <1>5, <2>1 DEF Placed, Alone
<1> QED
  BY <1>4, <1>5 DEF HandleEnqueueUserMessage

LEMMA SteerPlaces ==
  ASSUME TypeOK, TextsPlaced, HandleSubmitSteeringMessage PROVE TextsPlaced'
<1> DEFINE entry == Head(sessionBox).entry
<1> SUFFICES ASSUME NEW m \in Msgs
             PROVE  Placed(bridge, sessionBox, queue, history, hand, steering, input,
                           overwritten, submitted, m)'
  BY DEF TextsPlaced
<1>1. Placed(bridge, sessionBox, queue, history, hand, steering, input, overwritten,
             submitted, m)
  BY DEF TextsPlaced
<1>2. /\ Mailed(sessionBox, m) <=> m \in entry \/ Mailed(sessionBox', m)
      /\ MailedOnce(sessionBox, m)
           => MailedOnce(sessionBox', m) /\ ~(m \in entry /\ Mailed(sessionBox', m))
  BY EntryTaken DEF HandleSubmitSteeringMessage
<1>3. /\ steering' = steering \cup entry
      /\ UNCHANGED <<bridge, queue, history, hand, input, overwritten, submitted>>
  BY DEF HandleSubmitSteeringMessage, userVars
<1> HIDE DEF entry
<1>4. m \in steering' <=> m \in steering \/ m \in entry
  BY <1>3
<1> QED
  BY <1>1, <1>2, <1>3, <1>4 DEF Placed, Alone

LEMMA DrainPlaces == ASSUME TypeOK, TextsPlaced, DrainSteering PROVE TextsPlaced'
<1> SUFFICES ASSUME NEW m \in Msgs
             PROVE  Placed(bridge, sessionBox, queue, history, hand, steering, input,
                           overwritten, submitted, m)'
  BY DEF TextsPlaced
<1>1. Placed(bridge, sessionBox, queue, history, hand, steering, input, overwritten,
             submitted, m)
  BY DEF TextsPlaced
<1>2. /\ steering' = {}
      /\ history' = IF steering = {} THEN history ELSE Append(history, steering)
      /\ UNCHANGED <<bridge, sessionBox, queue, hand, input, overwritten, submitted>>
  BY DEF DrainSteering, userVars
<1>3. /\ Has(history', m) <=> Has(history, m) \/ m \in steering
      /\ HasOnce(history, m) /\ ~(Has(history, m) /\ m \in steering)
           => HasOnce(history', m)
  BY <1>2, EntriesAppended DEF TypeOK
<1> QED
  BY <1>1, <1>2, <1>3 DEF Placed, Alone

LEMMA CompletedPlaces ==
  ASSUME TypeOK, TextsPlaced, HandleStreamCompleted PROVE TextsPlaced'
<1>1. MailQuiet
  BY SessionHead DEF HandleStreamCompleted, NextSessionMsg, MailQuiet, Textless, TypeOK
<1>2. UNCHANGED <<bridge, history, hand, steering, submitted>>
  BY DEF HandleStreamCompleted, userVars
<1>3. CASE queue' = <<>> /\ RestoreToInput(Join(queue))
  <2> SUFFICES ASSUME NEW m \in Msgs
               PROVE  Placed(bridge, sessionBox, queue, history, hand, steering, input,
                             overwritten, submitted, m)'
    BY DEF TextsPlaced
  <2>1. Placed(bridge, sessionBox, queue, history, hand, steering, input, overwritten,
               submitted, m)
    BY DEF TextsPlaced
  <2>2. /\ Mailed(sessionBox', m) <=> Mailed(sessionBox, m)
        /\ MailedOnce(sessionBox, m) => MailedOnce(sessionBox', m)
    BY <1>1, MailQuietly DEF TypeOK
  <2>3. m \in Join(queue) <=> Has(queue, m)
    BY Joined DEF TypeOK
  <2>4. ~Has(queue', m) /\ HasOnce(queue', m)
    BY <1>3, NothingHeld
  <2>5. \/ /\ m \in input' <=> Has(queue, m)
           /\ m \in overwritten' <=> m \in overwritten \/ m \in input
        \/ ~Has(queue, m)
           /\ (m \in input' <=> m \in input) /\ (m \in overwritten' <=> m \in overwritten)
    BY <1>3, <2>3, Restored
  <2> QED
    BY <1>2, <2>1, <2>2, <2>4, <2>5 DEF Placed, Alone
<1>4. CASE UNCHANGED <<queue, input, overwritten>>
  BY <1>1, <1>2, <1>4, QuietStep DEF BridgeQuiet, HandQuiet, EntryVars
<1> QED
  BY <1>3, <1>4 DEF HandleStreamCompleted

LEMMA PopPlaces == ASSUME TypeOK, TextsPlaced, PopOnIdle PROVE TextsPlaced'
<1> SUFFICES ASSUME NEW m \in Msgs
             PROVE  Placed(bridge, sessionBox, queue, history, hand, steering, input,
                           overwritten, submitted, m)'
  BY DEF TextsPlaced
<1>1. Placed(bridge, sessionBox, queue, history, hand, steering, input, overwritten,
             submitted, m)
  BY DEF TextsPlaced
<1>2. /\ hand = NoHand /\ ~Holds(hand, m)
      /\ UNCHANGED <<bridge, sessionBox, history, input, overwritten, submitted>>
  BY DEF PopOnIdle, NoHand, Holds, userVars
<1>3. CASE /\ queue # <<>> /\ hand' = [at |-> "popped", entry |-> Head(queue)]
           /\ queue' = Tail(queue) /\ steering' = steering
  <2>1. /\ Has(queue, m) <=> m \in Head(queue) \/ Has(queue', m)
        /\ HasOnce(queue, m)
             => HasOnce(queue', m) /\ ~(m \in Head(queue) /\ Has(queue', m))
    BY <1>3, EntriesTaken DEF TypeOK
  <2>2. Holds(hand', m) <=> m \in Head(queue)
    BY <1>3 DEF Holds
  <2> QED
    BY <1>1, <1>2, <1>3, <2>1, <2>2 DEF Placed, Alone
<1>4. CASE /\ hand' = [at |-> "popped", entry |-> steering]
           /\ steering' = {} /\ queue' = queue
  <2>1. Holds(hand', m) <=> m \in steering
    BY <1>4 DEF Holds
  <2> QED
    BY <1>1, <1>2, <1>4, <2>1 DEF Placed, Alone
<1>5. CASE UNCHANGED <<hand, queue, steering>>
  BY <1>1, <1>2, <1>5 DEF Placed, Alone
<1> QED
  BY <1>3, <1>4, <1>5 DEF PopOnIdle

\* Entry and steering buffer, one behind the other, in the history.
LEMMA PushedEntries ==
  ASSUME TypeOK, PushPopped, NEW m
  PROVE  /\ Has(history', m) <=> Has(history, m) \/ m \in hand.entry \/ m \in steering
         /\ (HasOnce(history, m) /\ ~(Has(history, m) /\ m \in hand.entry)
             /\ ~(Has(history, m) /\ m \in steering)
             /\ ~(m \in hand.entry /\ m \in steering)) => HasOnce(history', m)
<1> DEFINE pushed == Append(history, hand.entry)
<1>1. hand.entry \in Texts /\ history \in Seq(Texts) /\ steering \in Texts
  BY DEF TypeOK, PushPopped, Hands, NoHand
<1>2. pushed \in Seq(Texts)
  BY <1>1
<1>3. history' = IF steering = {} THEN pushed ELSE Append(pushed, steering)
  <2>1. history' = pushed \o (IF steering = {} THEN <<>> ELSE <<steering>>)
    BY DEF PushPopped
  <2>2. pushed \o <<>> = pushed /\ pushed \o <<steering>> = Append(pushed, steering)
    BY <1>1, <1>2
  <2> QED
    BY <2>1, <2>2
<1>4. /\ Has(pushed, m) <=> Has(history, m) \/ m \in hand.entry
      /\ HasOnce(history, m) /\ ~(Has(history, m) /\ m \in hand.entry) => HasOnce(pushed, m)
  BY <1>1, EntriesAppended
<1> HIDE DEF pushed
<1>5. /\ Has(history', m) <=> Has(pushed, m) \/ m \in steering
      /\ HasOnce(pushed, m) /\ ~(Has(pushed, m) /\ m \in steering) => HasOnce(history', m)
  BY <1>1, <1>2, <1>3, EntriesAppended
<1> QED
  BY <1>4, <1>5

LEMMA PushPlaces == ASSUME TypeOK, TextsPlaced, PushPopped PROVE TextsPlaced'
<1> SUFFICES ASSUME NEW m \in Msgs
             PROVE  Placed(bridge, sessionBox, queue, history, hand, steering, input,
                           overwritten, submitted, m)'
  BY DEF TextsPlaced
<1>1. Placed(bridge, sessionBox, queue, history, hand, steering, input, overwritten,
             submitted, m)
  BY DEF TextsPlaced
<1>2. /\ steering' = {} /\ ~Holds(hand', m) /\ (Holds(hand, m) <=> m \in hand.entry)
      /\ UNCHANGED <<bridge, sessionBox, queue, input, overwritten, submitted>>
  BY DEF PushPopped, Holds, userVars
<1>3. /\ Has(history', m) <=> Has(history, m) \/ m \in hand.entry \/ m \in steering
      /\ (HasOnce(history, m) /\ ~(Has(history, m) /\ m \in hand.entry)
          /\ ~(Has(history, m) /\ m \in steering)
          /\ ~(m \in hand.entry /\ m \in steering)) => HasOnce(history', m)
  BY PushedEntries
<1> QED
  BY <1>1, <1>2, <1>3 DEF Placed, Alone

LEMMA TextsStep == TypeOK /\ TextsPlaced /\ [Next]_vars => TextsPlaced'
<1> SUFFICES ASSUME TypeOK, TextsPlaced, [Next]_vars
             PROVE  TextsPlaced'
  OBVIOUS
<1> USE DEF sessionVars, llmVars, toolVars, userVars, EntryVars
<1>1. ASSUME NEW mode \in Modes, NEW new \in {{}} \cup {{m} : m \in Msgs}, Submit(new, mode)
      PROVE  TextsPlaced'
  BY <1>1, SubmitPlaces
<1>2. CASE AskCancel \/ Interrupt \/ RequestResume
  <2>1. BridgeQuiet
    BY <1>2, TextlessKinds DEF AskCancel, Interrupt, RequestResume, BridgeQuiet
  <2>2. MailQuiet /\ HandQuiet /\ UNCHANGED EntryVars
    BY <1>2 DEF AskCancel, Interrupt, RequestResume, MailQuiet, HandQuiet
  <2> QED
    BY <2>1, <2>2, QuietStep
<1>3. CASE OutsideCancel
  BY <1>3, QuietStep DEF OutsideCancel, MailQuiet, BridgeQuiet, HandQuiet
<1>4. CASE StallTrip
  <2>1. MailQuiet
    BY <1>4, MessageKinds, TextlessKinds DEF StallTrip, MailQuiet
  <2> QED
    BY <1>4, <2>1, QuietStep DEF StallTrip, BridgeQuiet, HandQuiet
<1>5. ASSUME NEW type, type \notin {"EnqueueUserMessage", "SubmitSteeringMessage"},
             NextSessionMsg(type)
      PROVE  MailQuiet
  BY <1>5, SessionHead DEF NextSessionMsg, MailQuiet, Textless, TypeOK
<1>6. CASE HandleEnqueueResumeTurn \/ HandleRetryStalledSession
  <2>1. MailQuiet
    BY <1>5, <1>6 DEF HandleEnqueueResumeTurn, HandleRetryStalledSession
  <2> QED
    BY <1>6, <2>1, QuietStep DEF HandleEnqueueResumeTurn, HandleRetryStalledSession,
                                 BridgeQuiet, HandQuiet
<1>7. CASE ResumeTurn \/ BeginDispatch
  BY <1>7, QuietStep DEF ResumeTurn, BeginDispatch, MailQuiet, BridgeQuiet, HandQuiet
<1>8. CASE SendDispatch
  <2>1. MailQuiet
    <3>1. job.gen \in Nat /\ job.origin \in Origins /\ Now \in Nat
      BY <1>8, JobClosed, StreamClosed DEF SendDispatch, TypeOK
    <3>2. \E g \in Nat, o \in Origins : sessionBox' = Append(sessionBox, Send(g, o))
      BY <1>8, <3>1 DEF SendDispatch, PublishSend
    <3> QED
      BY <3>2, MessageKinds, TextlessKinds DEF MailQuiet
  <2> QED
    BY <1>8, <2>1, QuietStep DEF SendDispatch, BridgeQuiet, HandQuiet
<1>9. CASE HandleSendToLlmProvider \/ HandleStreamToken \/ HandleToolExecutionCompleted
           \/ HandleToolBatchCompleted
  <2>1. MailQuiet
    BY <1>5, <1>9 DEF HandleSendToLlmProvider, HandleStreamToken,
                      HandleToolExecutionCompleted, HandleToolBatchCompleted
  <2> QED
    BY <1>9, <2>1, QuietStep DEF HandleSendToLlmProvider, HandleStreamToken,
          HandleToolExecutionCompleted, HandleToolBatchCompleted, BridgeQuiet, HandQuiet
<1>10. CASE SendPopped
  <2>1. Now \in Nat
    BY DEF Now, TypeOK
  <2>2. MailQuiet
    BY <1>10, <2>1, MessageKinds, TextlessKinds
       DEF SendPopped, PublishSend, MailQuiet, Origins
  <2> QED
    BY <1>10, <2>2, QuietStep DEF SendPopped, BridgeQuiet, HandQuiet, NoHand
<1>11. CASE Llm
  <2>1. MailQuiet
    <3>1. CASE UNCHANGED sessionBox
      BY <3>1 DEF MailQuiet
    <3>2. CASE StartStream /\ ~UNCHANGED sessionBox
      <4>1. /\ Head(llmBox).gen \in Nat
            /\ sessionBox' = Append(sessionBox, Completed(Head(llmBox).gen, "Error"))
        BY <3>2, LlmHead, MessageFields DEF StartStream, PublishCompleted, TypeOK
      <4> QED
        BY <4>1, MessageKinds, TextlessKinds DEF MailQuiet, Reasons
    <3>3. CASE CancelStream /\ ~UNCHANGED sessionBox
      <4>1. /\ CancelledGen \in Nat
            /\ sessionBox' = Append(sessionBox, Completed(CancelledGen, "Canceled"))
        BY <3>3 DEF CancelStream, PublishCompleted, CancelledGen, Now, TypeOK, NoStamp
      <4> QED
        BY <4>1, MessageKinds, TextlessKinds DEF MailQuiet, Reasons
    <3> QED
      BY <1>11, <3>1, <3>2, <3>3 DEF Llm, DropContinuation, UntrackCompleted
  <2>2. UNCHANGED <<bridge, hand>> /\ UNCHANGED EntryVars
    BY <1>11 DEF Llm, DropContinuation, StartStream, UntrackCompleted, CancelStream
  <2> QED
    BY <2>1, <2>2, QuietStep DEF BridgeQuiet, HandQuiet
<1>12. ASSUME NEW g \in Gens, StreamTask(g)
       PROVE  TextsPlaced'
  <2>1. g \in Nat
    BY LenProperties DEF TypeOK, Gens
  <2>2. \/ sessionBox' = sessionBox
        \/ sessionBox' = Append(sessionBox, Note("StreamToken", g))
        \/ \E r \in Reasons : sessionBox' = Append(sessionBox, Completed(g, r))
    BY <1>12 DEF StreamTask, FirstToken, StreamFinishes, StreamFails, StreamUsesTools,
                 HandOffBatch, StreamStops, PublishCompleted, Reasons
  <2>3. MailQuiet
    BY <2>1, <2>2, MessageKinds, TextlessKinds DEF MailQuiet
  <2>4. UNCHANGED <<bridge, hand>> /\ UNCHANGED EntryVars
    BY <1>12 DEF StreamTask, FirstToken, StreamFinishes, StreamFails, StreamUsesTools,
                 HandOffBatch, StreamStops, StreamStep
  <2> QED
    BY <2>3, <2>4, QuietStep DEF BridgeQuiet, HandQuiet
<1>13. CASE Orchestrator \/ \E g \in running : ToolFinishes(g)
  <2>1. MailQuiet
    <3>1. CASE UNCHANGED sessionBox
      BY <3>1 DEF MailQuiet
    <3>2. CASE CountToolResult /\ ~UNCHANGED sessionBox
      <4>1. batch \in Nat /\ sessionBox' = Append(sessionBox, Note("ToolBatchCompleted", batch))
        BY <3>2, ToolHead DEF CountToolResult, TypeOK
      <4> QED
        BY <4>1, MessageKinds, TextlessKinds DEF MailQuiet
    <3>3. ASSUME NEW g \in running, ToolFinishes(g)
          PROVE  MailQuiet
      <4>1. g \in Nat /\ sessionBox' = Append(sessionBox, Note("ToolExecutionCompleted", g))
        BY <3>3 DEF ToolFinishes, TypeOK
      <4> QED
        BY <4>1, MessageKinds, TextlessKinds DEF MailQuiet
    <3> QED
      BY <1>13, <3>1, <3>2, <3>3 DEF Orchestrator, ExecuteToolBatch, CancelToolBatch
  <2>2. UNCHANGED <<bridge, hand>> /\ UNCHANGED EntryVars
    BY <1>13 DEF Orchestrator, ExecuteToolBatch, CancelToolBatch, CountToolResult, ToolFinishes
  <2> QED
    BY <2>1, <2>2, QuietStep DEF BridgeQuiet, HandQuiet
<1>14. CASE UNCHANGED vars
  BY <1>14, QuietStep DEF vars, MailQuiet, BridgeQuiet, HandQuiet
<1> QED
  BY <1>1, <1>2, <1>3, <1>4, <1>6, <1>7, <1>8, <1>9, <1>10, <1>11, <1>12, <1>13, <1>14,
     EscPlaces, BridgePlaces, EnqueuePlaces, SteerPlaces, DrainPlaces, CompletedPlaces,
     PopPlaces, PushPlaces
     DEF Next, Frontend, Plugins, SessionActor, Queue

LEMMA TextsPlacedAlways == Spec => [](TypeOK /\ TextsPlaced)
<1>1. Init => TextsPlaced
  <2> SUFFICES ASSUME Init, NEW m \in Msgs
               PROVE  Placed(bridge, sessionBox, queue, history, hand, steering, input,
                             overwritten, submitted, m)
    BY DEF TextsPlaced
  <2>1. /\ bridge = {} /\ sessionBox = <<>> /\ queue = <<>> /\ history = <<>>
        /\ steering = {} /\ input = {} /\ overwritten = {} /\ submitted = {}
        /\ ~Holds(hand, m)
    BY DEF Init, NoHand, Holds
  <2> QED
    BY <2>1, NothingHeld DEF Placed, Alone
<1> QED
  BY <1>1, TextsStep, TypeCorrect, PTL DEF Spec


-----------------------------------------------------------------------------
(* No text is lost or doubled. *)

Tag(name, X) == {<<name, x>> : x \in X}

LEMMA Tagged ==
  ASSUME NEW name, NEW X
  PROVE  /\ X = {} => Tag(name, X) = {}
         /\ (\E y : X = {y}) => \E p : Tag(name, X) = {p}
<1>1. ASSUME NEW y, X = {y} PROVE Tag(name, X) = {<<name, y>>}
  BY <1>1 DEF Tag
<1>2. X = {} => Tag(name, X) = {}
  BY DEF Tag
<1> QED
  BY <1>1, <1>2

LEMMA PlacesCounted ==
  ASSUME TextsPlaced
  PROVE  EveryTextInOnePlace
<1> SUFFICES ASSUME NEW m \in Msgs
             PROVE  Cardinality(Places(m)) = IF m \in submitted THEN 1 ELSE 0
  BY DEF EveryTextInOnePlace
<1> DEFINE inBridge == {b \in bridge : Carries(b, m)}
           inBox == {i \in DOMAIN sessionBox : Carries(sessionBox[i], m)}
           inQueue == {i \in DOMAIN queue : m \in queue[i]}
           inHistory == {i \in DOMAIN history : m \in history[i]}
           names == {n \in {"hand", "steering", "input", "overwritten"} :
                       \/ n = "hand" /\ hand.at = "popped" /\ m \in hand.entry
                       \/ n = "steering" /\ m \in steering
                       \/ n = "input" /\ m \in input
                       \/ n = "overwritten" /\ m \in overwritten}
           N == {<<name, 0>> : name \in names}
<1>1. Placed(bridge, sessionBox, queue, history, hand, steering, input, overwritten,
             submitted, m)
  BY DEF TextsPlaced
<1>2. Places(m) = Tag("bridge", inBridge) \cup Tag("mailbox", inBox)
                  \cup Tag("queue", inQueue) \cup Tag("history", inHistory) \cup N
  BY DEF Places, Tag
<1>3. /\ ~Bridged(bridge, m) => inBridge = {}
      /\ Bridged(bridge, m) => \E b : inBridge = {b}
  BY <1>1 DEF Bridged, Placed, BridgedOnce
<1>4. /\ ~Mailed(sessionBox, m) => inBox = {}
      /\ Mailed(sessionBox, m) => \E i : inBox = {i}
  BY <1>1 DEF Mailed, Placed, MailedOnce
<1>5. /\ ~Has(queue, m) => inQueue = {}
      /\ Has(queue, m) => \E i : inQueue = {i}
  BY <1>1 DEF Has, Placed, HasOnce
<1>6. /\ ~Has(history, m) => inHistory = {}
      /\ Has(history, m) => \E i : inHistory = {i}
  BY <1>1 DEF Has, Placed, HasOnce
<1> DEFINE held == Holds(hand, m) \/ m \in steering \/ m \in input \/ m \in overwritten
<1>7. (~held => N = {}) /\ (held => \E p : N = {p})
  <2>1. ~held => names = {}
    BY DEF Holds
  <2>2. /\ Holds(hand, m) => names = {"hand"}
        /\ m \in steering => names = {"steering"}
        /\ m \in input => names = {"input"}
        /\ m \in overwritten => names = {"overwritten"}
    BY <1>1 DEF Holds, Placed, Alone
  <2>3. held => \E n : names = {n}
    BY <2>2
  <2> HIDE DEF names
  <2>4. ASSUME NEW n, names = {n} PROVE N = {<<n, 0>>}
    BY <2>4
  <2>5. names = {} => N = {}
    OBVIOUS
  <2> HIDE DEF N, held
  <2> QED
    BY <2>1, <2>3, <2>4, <2>5
<1> HIDE DEF inBridge, inBox, inQueue, inHistory, N
<1>8. CASE m \notin submitted
  <2>1. Places(m) = {}
    BY <1>1, <1>2, <1>3, <1>4, <1>5, <1>6, <1>7, <1>8, Tagged DEF Placed
  <2> QED
    BY <1>8, <2>1, FS_EmptySet
<1>9. CASE m \in submitted
  <2> DEFINE tB == Tag("bridge", inBridge)
             tM == Tag("mailbox", inBox)
             tQ == Tag("queue", inQueue)
             tH == Tag("history", inHistory)
  <2>1. (~Bridged(bridge, m) => tB = {}) /\ (Bridged(bridge, m) => \E p : tB = {p})
    BY <1>3, Tagged
  <2>2. (~Mailed(sessionBox, m) => tM = {}) /\ (Mailed(sessionBox, m) => \E p : tM = {p})
    BY <1>4, Tagged
  <2>3. (~Has(queue, m) => tQ = {}) /\ (Has(queue, m) => \E p : tQ = {p})
    BY <1>5, Tagged
  <2>4. (~Has(history, m) => tH = {}) /\ (Has(history, m) => \E p : tH = {p})
    BY <1>6, Tagged
  <2>5. Places(m) = tB \cup tM \cup tQ \cup tH \cup N
    BY <1>2
  <2>6. /\ Bridged(bridge, m) \/ Mailed(sessionBox, m) \/ Has(queue, m) \/ Has(history, m)
           \/ held
        /\ Bridged(bridge, m) =>
             ~Mailed(sessionBox, m) /\ ~Has(queue, m) /\ ~Has(history, m) /\ ~held
        /\ Mailed(sessionBox, m) => ~Has(queue, m) /\ ~Has(history, m) /\ ~held
        /\ Has(queue, m) => ~Has(history, m) /\ ~held
        /\ Has(history, m) => ~held
    BY <1>1, <1>9 DEF Placed, Alone
  <2> HIDE DEF tB, tM, tQ, tH, held
  <2>7. \E p : Places(m) = {p}
    <3>1. CASE Bridged(bridge, m)
      BY <2>1, <2>2, <2>3, <2>4, <2>5, <2>6, <1>7, <3>1
    <3>2. CASE Mailed(sessionBox, m)
      BY <2>1, <2>2, <2>3, <2>4, <2>5, <2>6, <1>7, <3>2
    <3>3. CASE Has(queue, m)
      BY <2>1, <2>2, <2>3, <2>4, <2>5, <2>6, <1>7, <3>3
    <3>4. CASE Has(history, m)
      BY <2>1, <2>2, <2>3, <2>4, <2>5, <2>6, <1>7, <3>4
    <3>5. CASE held
      BY <2>1, <2>2, <2>3, <2>4, <2>5, <2>6, <1>7, <3>5
    <3> QED
      BY <2>6, <3>1, <3>2, <3>3, <3>4, <3>5
  <2> QED
    BY <1>9, <2>7, FS_Singleton
<1> QED
  BY <1>8, <1>9

\* Between the buffers, mailboxes and handlers that a text passes through, and the
\* three paths that hand it back to the input box, every submitted text is in
\* exactly one place, and one that was not submitted in none.
THEOREM NoTextLost == Spec => []EveryTextInOnePlace
<1>1. TextsPlaced => EveryTextInOnePlace
  BY PlacesCounted
<1> QED
  BY <1>1, TextsPlacedAlways, PTL

-----------------------------------------------------------------------------
(* The actors implement TextLedger. *)

fates == [m \in Msgs |-> Fate(m)]

\* With every text in one place its fate is read off that place.
LEMMA FateOfPlace ==
  TextsPlaced => \A m \in Msgs :
    /\ m \notin submitted => Fate(m) = "unsent"
    /\ Has(history, m) => Fate(m) = "sent"
    /\ m \in input => Fate(m) = "handedBack"
    /\ m \in overwritten => Fate(m) = "overwritten"
    /\ m \in submitted /\ ~Has(history, m) /\ m \notin input /\ m \notin overwritten
         => Fate(m) = "pending"
<1> SUFFICES ASSUME TextsPlaced, NEW m \in Msgs
             PROVE  /\ m \notin submitted => Fate(m) = "unsent"
                    /\ Has(history, m) => Fate(m) = "sent"
                    /\ m \in input => Fate(m) = "handedBack"
                    /\ m \in overwritten => Fate(m) = "overwritten"
                    /\ m \in submitted /\ ~Has(history, m) /\ m \notin input
                       /\ m \notin overwritten => Fate(m) = "pending"
  OBVIOUS
<1>1. Placed(bridge, sessionBox, queue, history, hand, steering, input, overwritten,
             submitted, m)
  BY DEF TextsPlaced
<1>2. /\ Has(history, m) => m \in submitted /\ m \notin input /\ m \notin overwritten
      /\ m \in input => m \in submitted /\ m \notin overwritten
      /\ m \in overwritten => m \in submitted
  BY <1>1 DEF Placed, Alone
<1>3. InHistory(m) <=> Has(history, m)
  BY DEF InHistory, Has
<1>4. m \in input \ {h \in Msgs : InHistory(h)} <=> m \in input /\ ~Has(history, m)
  BY <1>3
<1> QED
  BY <1>2, <1>3, <1>4 DEF Fate

LEMMA FateOfPlaceNext ==
  (TextsPlaced => \A m \in Msgs :
    /\ m \notin submitted => Fate(m) = "unsent"
    /\ Has(history, m) => Fate(m) = "sent"
    /\ m \in input => Fate(m) = "handedBack"
    /\ m \in overwritten => Fate(m) = "overwritten"
    /\ m \in submitted /\ ~Has(history, m) /\ m \notin input /\ m \notin overwritten
         => Fate(m) = "pending")'
BY FateOfPlace, PTL

Undecided(m) ==
  m \in submitted /\ ~Has(history, m) /\ m \notin input /\ m \notin overwritten

LEMMA SameFates ==
  ASSUME UNCHANGED <<history, input, overwritten, submitted>> PROVE UNCHANGED fates
BY DEF fates, Fate, InHistory

\* Texts of the buffers behind the history: committed.
LEMMA Committed ==
  ASSUME TextsPlaced, TextsPlaced', NEW texts \in SUBSET Msgs,
         UNCHANGED <<input, overwritten, submitted>>,
         \A m \in Msgs : Has(history', m) <=> Has(history, m) \/ m \in texts,
         \A m \in texts : Undecided(m)
  PROVE  Ledger!LedgerNext \/ UNCHANGED fates
<1>1. fates' = [m \in Msgs |-> IF m \in texts THEN "sent" ELSE Fate(m)]
  <2> SUFFICES ASSUME NEW m \in Msgs
               PROVE  Fate(m)' = IF m \in texts THEN "sent" ELSE Fate(m)
    BY DEF fates
  <2> QED
    BY FateOfPlace, FateOfPlaceNext DEF Undecided
<1>2. \A m \in texts : Fate(m) = "pending"
  BY FateOfPlace DEF Undecided
<1>3. CASE texts = {}
  BY <1>1, <1>3 DEF fates
<1>4. CASE texts # {}
  <2>1. Ledger!Commit(texts)
    BY <1>1, <1>2, <1>4 DEF fates, Ledger!Commit, Ledger!With, Ledger!Move
  <2> QED
    BY <2>1 DEF Ledger!LedgerNext
<1> QED
  BY <1>3, <1>4

\* Texts of the buffers into the input box: handed back.
LEMMA HandedBack ==
  ASSUME TextsPlaced, TextsPlaced', NEW texts \in SUBSET Msgs, RestoreToInput(texts),
         UNCHANGED <<history, submitted>>,
         \A m \in texts : Undecided(m)
  PROVE  Ledger!LedgerNext \/ UNCHANGED fates
<1>1. CASE texts = {}
  BY <1>1, SameFates DEF RestoreToInput
<1>2. CASE texts # {}
  <2>1. input' = texts /\ overwritten' = overwritten \cup input
    BY <1>2 DEF RestoreToInput
  <2>2. fates' = [m \in Msgs |-> IF m \in texts THEN "handedBack"
                                 ELSE IF Fate(m) = "handedBack" THEN "overwritten"
                                 ELSE Fate(m)]
    <3> SUFFICES ASSUME NEW m \in Msgs
                 PROVE  Fate(m)' = IF m \in texts THEN "handedBack"
                                   ELSE IF Fate(m) = "handedBack" THEN "overwritten"
                                   ELSE Fate(m)
      BY DEF fates
    <3> QED
      BY <2>1, FateOfPlace, FateOfPlaceNext DEF Undecided
  <2>3. \A m \in texts : Fate(m) = "pending"
    BY FateOfPlace DEF Undecided
  <2>4. Ledger!HandBack(texts)
    BY <1>2, <2>2, <2>3 DEF fates, Ledger!HandBack, Ledger!With
  <2> QED
    BY <2>4 DEF Ledger!LedgerNext
<1> QED
  BY <1>1, <1>2

LEMMA SubmittedAnew ==
  ASSUME TypeOK, TextsPlaced, TextsPlaced', NEW mode \in Modes,
         NEW new \in {{}} \cup {{m} : m \in Msgs}, Submit(new, mode)
  PROVE  Ledger!LedgerNext
<1>1. /\ input \cup new # {} /\ new \cap submitted = {}
      /\ submitted' = submitted \cup new /\ input' = {}
      /\ UNCHANGED <<history, overwritten>>
  BY DEF Submit
<1>2. input \subseteq Msgs /\ new \subseteq Msgs
  BY DEF TypeOK, Texts
<1>3. \A m \in Msgs : Fate(m) = "handedBack" <=> m \in input
  BY FateOfPlace DEF Undecided
<1>4. fates' = [m \in Msgs |-> IF m \in new \/ Fate(m) = "handedBack" THEN "pending"
                               ELSE Fate(m)]
  <2> SUFFICES ASSUME NEW m \in Msgs
               PROVE  Fate(m)' = IF m \in new \/ Fate(m) = "handedBack" THEN "pending"
                                 ELSE Fate(m)
    BY DEF fates
  <2>1. ~Has(history, m) \/ m \notin new
    BY <1>1 DEF TextsPlaced, Placed
  <2>2. m \notin overwritten \/ m \notin new
    BY <1>1 DEF TextsPlaced, Placed
  <2>3. ~(m \in input /\ Has(history, m)) /\ ~(m \in input /\ m \in overwritten)
    BY DEF TextsPlaced, Placed, Alone
  <2>4. m \in input => m \in submitted
    BY DEF TextsPlaced, Placed
  <2> QED
    BY <1>1, <1>3, <2>1, <2>2, <2>3, <2>4, FateOfPlace, FateOfPlaceNext
<1>5. \A m \in new : Fate(m) = "unsent"
  BY <1>1, <1>2, FateOfPlace
<1>6. Ledger!SubmitBox(new)
  <2>1. new \cup {m \in Msgs : Fate(m) = "handedBack"} # {}
    BY <1>1, <1>2, <1>3
  <2> QED
    BY <1>2, <1>4, <1>5, <2>1
       DEF fates, Ledger!SubmitBox, Ledger!With, Ledger!Move
<1> QED
  BY <1>6 DEF Ledger!LedgerNext

LEMMA EscHandsBack ==
  ASSUME TypeOK, TextsPlaced, TextsPlaced', EscConfirm
  PROVE  Ledger!LedgerNext \/ UNCHANGED fates
<1> DEFINE texts == steering \cup Join(queue)
<1>1. RestoreToInput(texts) /\ UNCHANGED <<history, submitted>>
  BY DEF EscConfirm
<1>2. \A m : m \in Join(queue) <=> Has(queue, m)
  BY Joined DEF TypeOK
<1>3. texts \in SUBSET Msgs
  BY <1>2 DEF TypeOK, Texts, Has
<1>4. \A m \in texts : Undecided(m)
  BY <1>2, <1>3 DEF TextsPlaced, Placed, Alone, Undecided
<1> HIDE DEF texts
<1> QED
  BY <1>1, <1>3, <1>4, HandedBack

LEMMA CompletionHandsBack ==
  ASSUME TypeOK, TextsPlaced, TextsPlaced', HandleStreamCompleted
  PROVE  Ledger!LedgerNext \/ UNCHANGED fates
<1>1. UNCHANGED <<history, submitted>>
  BY DEF HandleStreamCompleted, userVars
<1>2. CASE RestoreToInput(Join(queue))
  <2>1. \A m : m \in Join(queue) <=> Has(queue, m)
    BY Joined DEF TypeOK
  <2>2. Join(queue) \in SUBSET Msgs
    BY <2>1 DEF TypeOK, Texts, Has
  <2>3. \A m \in Join(queue) : Undecided(m)
    BY <2>1, <2>2 DEF TextsPlaced, Placed, Alone, Undecided
  <2> QED
    BY <1>1, <1>2, <2>2, <2>3, HandedBack
<1>3. CASE UNCHANGED <<input, overwritten>>
  BY <1>1, <1>3, SameFates
<1> QED
  BY <1>2, <1>3 DEF HandleStreamCompleted

LEMMA EnqueueCommits ==
  ASSUME TypeOK, TextsPlaced, TextsPlaced', HandleEnqueueUserMessage
  PROVE  Ledger!LedgerNext \/ UNCHANGED fates
<1> DEFINE entry == Head(sessionBox).entry
<1>1. UNCHANGED <<input, overwritten, submitted>>
  BY DEF HandleEnqueueUserMessage, userVars
<1>2. /\ entry \in Texts
      /\ \A m \in Msgs : m \in entry => Mailed(sessionBox, m)
  BY EntryTaken DEF HandleEnqueueUserMessage
<1>3. \A m \in entry : Undecided(m)
  BY <1>2 DEF Texts, TextsPlaced, Placed, Alone, Undecided
<1>4. CASE history' = Append(history, entry)
  <2>1. \A m \in Msgs : Has(history', m) <=> Has(history, m) \/ m \in entry
    BY <1>2, <1>4, EntriesAppended DEF TypeOK
  <2> HIDE DEF entry
  <2> QED
    BY <1>1, <1>2, <1>3, <2>1, Committed DEF Texts
<1>5. CASE history' = history
  BY <1>1, <1>5, SameFates
<1> QED
  BY <1>4, <1>5 DEF HandleEnqueueUserMessage

LEMMA DrainCommits ==
  ASSUME TypeOK, TextsPlaced, TextsPlaced', DrainSteering
  PROVE  Ledger!LedgerNext \/ UNCHANGED fates
<1>1. /\ history' = IF steering = {} THEN history ELSE Append(history, steering)
      /\ UNCHANGED <<input, overwritten, submitted>>
  BY DEF DrainSteering, userVars
<1>2. \A m \in Msgs : Has(history', m) <=> Has(history, m) \/ m \in steering
  BY <1>1, EntriesAppended DEF TypeOK
<1>3. steering \in SUBSET Msgs
  BY DEF TypeOK, Texts
<1>4. \A m \in steering : Undecided(m)
  BY <1>3 DEF TextsPlaced, Placed, Alone, Undecided
<1> QED
  BY <1>1, <1>2, <1>3, <1>4, Committed

LEMMA PushCommits ==
  ASSUME TypeOK, TextsPlaced, TextsPlaced', PushPopped
  PROVE  Ledger!LedgerNext \/ UNCHANGED fates
<1> DEFINE texts == hand.entry \cup steering
<1>1. UNCHANGED <<input, overwritten, submitted>>
  BY DEF PushPopped, userVars
<1>2. texts \in SUBSET Msgs
  BY DEF TypeOK, PushPopped, Hands, NoHand, Texts
<1>3. \A m \in Msgs : Has(history', m) <=> Has(history, m) \/ m \in texts
  BY PushedEntries
<1>4. \A m \in Msgs : m \in hand.entry => Holds(hand, m)
  BY DEF PushPopped, Holds
<1>5. \A m \in texts : Undecided(m)
  BY <1>2, <1>4 DEF TextsPlaced, Placed, Alone, Undecided
<1> HIDE DEF texts
<1> QED
  BY <1>1, <1>2, <1>3, <1>5, Committed

LEMMA LedgerStep ==
  TypeOK /\ TextsPlaced /\ TextsPlaced' /\ [Next]_vars
    => Ledger!LedgerNext \/ UNCHANGED fates
<1> SUFFICES ASSUME TypeOK, TextsPlaced, TextsPlaced', [Next]_vars
             PROVE  Ledger!LedgerNext \/ UNCHANGED fates
  OBVIOUS
<1>1. ASSUME NEW mode \in Modes, NEW new \in {{}} \cup {{m} : m \in Msgs}, Submit(new, mode)
      PROVE  Ledger!LedgerNext
  BY <1>1, SubmittedAnew
<1> USE DEF sessionVars, llmVars, toolVars, userVars
<1>2. CASE \/ AskCancel \/ Interrupt \/ RequestResume \/ OutsideCancel \/ StallTrip
           \/ \E m \in bridge : BridgePublish(m)
  BY <1>2, SameFates DEF AskCancel, Interrupt, RequestResume, OutsideCancel, StallTrip,
                         BridgePublish
<1>3. CASE \/ HandleSubmitSteeringMessage \/ HandleEnqueueResumeTurn
           \/ HandleRetryStalledSession \/ ResumeTurn \/ BeginDispatch \/ SendDispatch
           \/ HandleSendToLlmProvider \/ HandleStreamToken
           \/ HandleToolExecutionCompleted \/ HandleToolBatchCompleted
  BY <1>3, SameFates
     DEF HandleSubmitSteeringMessage, HandleEnqueueResumeTurn, HandleRetryStalledSession,
         ResumeTurn, BeginDispatch, SendDispatch, HandleSendToLlmProvider,
         HandleStreamToken, HandleToolExecutionCompleted, HandleToolBatchCompleted
<1>4. CASE PopOnIdle \/ SendPopped
  BY <1>4, SameFates DEF PopOnIdle, SendPopped
<1>5. CASE Llm
  BY <1>5, SameFates DEF Llm, DropContinuation, StartStream, UntrackCompleted, CancelStream
<1>6. ASSUME NEW g \in Gens, StreamTask(g)
      PROVE  UNCHANGED fates
  BY <1>6, SameFates DEF StreamTask, FirstToken, StreamFinishes, StreamFails,
                         StreamUsesTools, HandOffBatch, StreamStops, StreamStep
<1>7. CASE Orchestrator \/ \E g \in running : ToolFinishes(g)
  BY <1>7, SameFates DEF Orchestrator, ExecuteToolBatch, CancelToolBatch, CountToolResult,
                         ToolFinishes
<1>8. CASE UNCHANGED vars
  BY <1>8, SameFates DEF vars
<1> QED
  BY <1>1, <1>2, <1>3, <1>4, <1>5, <1>6, <1>7, <1>8, EscHandsBack, CompletionHandsBack,
     EnqueueCommits, DrainCommits, PushCommits
     DEF Next, Frontend, Plugins, SessionActor, Queue

\* Whatever races, cancels and resubmissions occur, a submitted text only moves as
\* TextLedger allows: from pending into the history, for good, or back into the input
\* box, from where it is submitted again or overwritten by a later hand-back.
THEOREM LedgerKept == Spec => KeepsLedger
<1>1. Init => Ledger!LedgerInit
  <2> SUFFICES ASSUME Init, NEW m \in Msgs PROVE Fate(m) = "unsent"
    BY DEF Ledger!LedgerInit
  <2> QED
    BY DEF Init, Fate
<1>2. TypeOK /\ TextsPlaced /\ (TypeOK /\ TextsPlaced)' /\ [Next]_vars
        => [Ledger!LedgerNext]_([m \in Msgs |-> Fate(m)])
  BY LedgerStep DEF fates
<1> QED
  BY <1>1, <1>2, TextsPlacedAlways, PTL DEF Spec, KeepsLedger, Ledger!LedgerSpec

=============================================================================
