---------------------- MODULE SessionLifecycleProofs ----------------------
(* What holds of sessions however many there are and whatever their users,   *)
(* scripts and crashes do: the types, the stored script states, the busy     *)
(* counts, the archive cascade and what a restart would bring back. Last,    *)
(* with a user who waits for what he asked for: the texts that stay stored   *)
(* and, without a fork, the workspaces a script state tells of.              *)
EXTENDS FiniteSetTheorems, SessionLifecycle, TLAPS

\* A script has run for s, or its workspace is as it was.
Ran(s) == workspace[Parent[s]] # "none"

\* What may be believed of s, in memory, in a row or in a message, when it only
\* counts as set up or torn down after a script has run.
RecordsOf(s) == {rec \in Records : rec.script # "NothingRan" => Ran(s)}
RowsOf(s) == {row \in Rows : row.script # "NothingRan" => Ran(s)}
Honest == {m \in Messages : m.kind \in Outcomes /\ m.ok => Ran(m.s)}

MemOK == /\ DOMAIN mem = Sessions /\ mem = [s \in Sessions |-> mem[s]]
         /\ \A s \in Sessions : mem[s] \in RecordsOf(s) \cup {NoSession}
StoreOK == /\ DOMAIN store = Sessions /\ store = [s \in Sessions |-> store[s]]
           /\ \A s \in Sessions : store[s] \in RowsOf(s) \cup {NoSession}
BoxOK == box \in Seq(Honest)
BridgeOK == IsABag(bridge) /\ DOMAIN bridge \subseteq Asked
Commands == [kind : Outcomes, s : Sessions, st : {"runs", "killed", "ended"}]

ScriptsOK ==
  /\ scripts \in Seq(Commands)
  /\ child \in 0..Len(scripts)
WorldOK == /\ archiving \subseteq Sessions /\ talking \subseteq Sessions
           /\ idles \in [Sessions -> Nat] /\ hand \in Sessions \cup {NoSession}
           /\ overtaken \subseteq archiving
           /\ workspace \in [Sessions -> {"none", "up", "down"}]
LeftOK == left \in [Kinds -> Nat] /\ mishaps \subseteq {"rash", "crash"}

LifeInv == MemOK /\ StoreOK /\ BoxOK /\ BridgeOK /\ ScriptsOK /\ WorldOK /\ LeftOK

-----------------------------------------------------------------------------
(* Messages, records and bags. *)

LEMMA Published ==
  ASSUME BridgeOK, NEW s \in Sessions, NEW kinds \in SUBSET Requests, Publish(kinds, s)
  PROVE  /\ IsABag(bridge') /\ DOMAIN bridge' \subseteq Asked
         /\ DOMAIN bridge' = DOMAIN bridge \cup {Message(k, s) : k \in kinds}
<1> DEFINE sent == {Message(k, s) : k \in kinds}
           new == SetToBag(sent)
<1>1. sent \subseteq Asked
  BY DEF Message, Asked
<1> HIDE DEF sent
<1>2. new = [e \in sent |-> 1]
  BY DEF SetToBag
<1>3. DOMAIN new = sent /\ \A e \in sent : new[e] = 1
  BY <1>2
<1> HIDE DEF new
<1>4. IsABag(bridge) /\ DOMAIN bridge \subseteq Asked
  BY DEF BridgeOK
<1>5. \A e \in DOMAIN bridge : bridge[e] \in Nat /\ bridge[e] > 0
  BY <1>4 DEF IsABag
<1>6. bridge' = bridge (+) new
  BY DEF Publish, new, sent
<1>7. bridge' = [e \in (DOMAIN bridge) \cup sent |->
                   (IF e \in DOMAIN bridge THEN bridge[e] ELSE 0)
                   + (IF e \in sent THEN 1 ELSE 0)]
  BY <1>3, <1>6 DEF (+)
<1>8. bridge' \in [DOMAIN bridge' -> {n \in Nat : n > 0}]
  BY <1>5, <1>7
<1>9. DOMAIN bridge' = DOMAIN bridge \cup {Message(k, s) : k \in kinds}
  BY <1>7 DEF sent
<1> QED
  BY <1>1, <1>4, <1>7, <1>8, <1>9 DEF IsABag

LEMMA Removed ==
  ASSUME BridgeOK, NEW m \in BagToSet(bridge), bridge' = bridge (-) SetToBag({m})
  PROVE  /\ m \in Asked /\ IsABag(bridge') /\ DOMAIN bridge' \subseteq Asked
         /\ DOMAIN bridge \ {m} \subseteq DOMAIN bridge'
<1> DEFINE one == SetToBag({m})
           less == [e \in DOMAIN bridge |-> IF e \in DOMAIN one THEN bridge[e] - one[e] ELSE bridge[e]]
<1>1. IsABag(bridge) /\ DOMAIN bridge \subseteq Asked /\ m \in DOMAIN bridge
  BY DEF BridgeOK, BagToSet
<1>2. \A e \in DOMAIN bridge : bridge[e] \in Nat /\ bridge[e] > 0
  BY <1>1 DEF IsABag
<1>3. DOMAIN one = {m} /\ one[m] = 1
  BY DEF SetToBag
<1>4. bridge' = [e \in {d \in DOMAIN less : less[d] > 0} |-> less[e]]
  BY DEF (-)
<1> HIDE DEF one
<1>5. /\ DOMAIN less = DOMAIN bridge /\ \A e \in DOMAIN bridge : less[e] \in Nat
      /\ \A e \in DOMAIN bridge \ {m} : less[e] > 0
  BY <1>2, <1>3
<1> HIDE DEF less
<1>6. bridge' \in [DOMAIN bridge' -> {n \in Nat : n > 0}]
  BY <1>4, <1>5
<1>7. DOMAIN bridge' \subseteq DOMAIN bridge /\ DOMAIN bridge \ {m} \subseteq DOMAIN bridge'
  BY <1>4, <1>5
<1> QED
  BY <1>1, <1>6, <1>7 DEF IsABag

\* A record with another number of texts in its queue.
Requeued(rec, n) == [rec EXCEPT !.queued = n]

LEMMA QueueOps ==
  ASSUME NEW rec \in Records
  PROVE  /\ \A n \in Nat :
              /\ Requeued(rec, n) \in Records
              /\ Requeued(rec, n).script = rec.script /\ Requeued(rec, n).busy = rec.busy
              /\ Requeued(rec, n).turn = rec.turn /\ Requeued(rec, n).kept = rec.kept
              /\ Requeued(rec, n).size = rec.size /\ Requeued(rec, n).ghost = rec.ghost
         /\ rec.queued \in Nat /\ rec = Requeued(rec, rec.queued)
         /\ [rec EXCEPT !.queued = @ + 1] = Requeued(rec, rec.queued + 1)
         /\ [rec EXCEPT !.queued = @ - 1] = Requeued(rec, rec.queued - 1)
         /\ \A b, n : [rec EXCEPT !.turn = b, !.queued = n] = Requeued([rec EXCEPT !.turn = b], n)
         /\ [rec EXCEPT !.busy = 0, !.turn = FALSE, !.queued = 0]
               = Requeued([[rec EXCEPT !.busy = 0] EXCEPT !.turn = FALSE], 0)
BY DEF Records, Requeued

LEMMA RecordOps ==
  ASSUME NEW rec \in Records
  PROVE  /\ Said(rec) \in Records /\ Said(rec).script = rec.script
         /\ Said(rec).busy = rec.busy
         /\ Released(rec) \in Records /\ Released(rec).script = rec.script
         /\ Released(rec).busy = IF rec.busy = 0 THEN 0 ELSE rec.busy - 1
         /\ [rec EXCEPT !.busy = @ + 1] \in Records
         /\ [rec EXCEPT !.busy = @ + 1].script = rec.script
         /\ [rec EXCEPT !.busy = @ + 1].busy = rec.busy + 1
         /\ [rec EXCEPT !.kept = TRUE] \in Records
         /\ [rec EXCEPT !.kept = TRUE].script = rec.script
         /\ [rec EXCEPT !.kept = TRUE].busy = rec.busy
         /\ \A b \in BOOLEAN : /\ [rec EXCEPT !.turn = b] \in Records
                               /\ [rec EXCEPT !.turn = b].script = rec.script
                               /\ [rec EXCEPT !.turn = b].busy = rec.busy
         /\ [rec EXCEPT !.busy = 0, !.turn = FALSE, !.queued = 0] \in Records
         /\ [rec EXCEPT !.busy = 0, !.turn = FALSE, !.queued = 0].script = rec.script
         /\ [rec EXCEPT !.busy = 0, !.turn = FALSE, !.queued = 0].busy = 0
         /\ IsIdle([rec EXCEPT !.busy = 0, !.turn = FALSE, !.queued = 0])
<1> USE DEF Records
<1>1. Said(rec) \in Records /\ Said(rec).script = rec.script /\ Said(rec).busy = rec.busy
  BY DEF Said
<1>2. /\ Released(rec) \in Records /\ Released(rec).script = rec.script
      /\ Released(rec).busy = IF rec.busy = 0 THEN 0 ELSE rec.busy - 1
  BY DEF Released
<1>3. /\ [rec EXCEPT !.busy = @ + 1] \in Records
      /\ [rec EXCEPT !.busy = @ + 1].script = rec.script
      /\ [rec EXCEPT !.busy = @ + 1].busy = rec.busy + 1
  OBVIOUS
<1>4. /\ [rec EXCEPT !.kept = TRUE] \in Records
      /\ [rec EXCEPT !.kept = TRUE].script = rec.script
      /\ [rec EXCEPT !.kept = TRUE].busy = rec.busy
  OBVIOUS
<1>5. \A b \in BOOLEAN : /\ [rec EXCEPT !.turn = b] \in Records
                         /\ [rec EXCEPT !.turn = b].script = rec.script
                         /\ [rec EXCEPT !.turn = b].busy = rec.busy
  OBVIOUS
<1> HIDE DEF Records
<1>6. /\ [rec EXCEPT !.busy = 0, !.turn = FALSE, !.queued = 0] \in Records
      /\ [rec EXCEPT !.busy = 0, !.turn = FALSE, !.queued = 0].script = rec.script
      /\ [rec EXCEPT !.busy = 0, !.turn = FALSE, !.queued = 0].busy = 0
      /\ IsIdle([rec EXCEPT !.busy = 0, !.turn = FALSE, !.queued = 0])
  <2> DEFINE one == [rec EXCEPT !.busy = 0]
             two == [one EXCEPT !.turn = FALSE]
  <2>1. one \in Records /\ one.script = rec.script /\ one.busy = 0
    BY DEF Records
  <2>2. [rec EXCEPT !.busy = 0, !.turn = FALSE, !.queued = 0] = Requeued(two, 0)
    BY QueueOps
  <2> HIDE DEF one
  <2>3. two \in Records /\ two.script = one.script /\ two.busy = one.busy /\ ~two.turn
    BY <2>1 DEF Records
  <2> HIDE DEF two
  <2>4. /\ Requeued(two, 0) \in Records /\ Requeued(two, 0).script = two.script
        /\ Requeued(two, 0).busy = two.busy /\ Requeued(two, 0).turn = two.turn
    BY <2>3, QueueOps
  <2> QED
    BY <2>1, <2>2, <2>3, <2>4 DEF IsIdle
<1> QED
  BY <1>1, <1>2, <1>3, <1>4, <1>5, <1>6

LEMMA ScriptOps ==
  ASSUME NEW rec \in Records
  PROVE  /\ AfterSetup(rec) \in Records /\ AfterSetup(rec).busy = rec.busy
         /\ AfterTeardown(rec) \in Records /\ AfterTeardown(rec).busy = rec.busy
         /\ AfterTeardown(rec).script # "NothingRan" => rec.script # "NothingRan"
         /\ \A archived \in BOOLEAN : /\ Row(rec, archived) \in Rows
                                      /\ Row(rec, archived).script = rec.script
BY DEF Records, Rows, AfterSetup, AfterTeardown, Row

LEMMA MadeRecords ==
  /\ Created \in Records /\ Created.script = "NothingRan" /\ Created.busy = 0
  /\ IsIdle(Created)
  /\ Ghost \in Records /\ Ghost.script = "NothingRan" /\ Ghost.busy = 0
  /\ \A row \in Rows : /\ FromRow(row) \in Records /\ FromRow(row).script = row.script
                       /\ FromRow(row).busy = 0
<1>1. /\ Created \in Records /\ Created.script = "NothingRan" /\ Created.busy = 0
      /\ IsIdle(Created)
  BY DEF Records, Created, IsIdle
<1>2. Ghost \in Records /\ Ghost.script = "NothingRan" /\ Ghost.busy = 0
  BY DEF Records, Created, Ghost
<1>3. ASSUME NEW row \in Rows
      PROVE  /\ FromRow(row) \in Records /\ FromRow(row).script = row.script
             /\ FromRow(row).busy = 0
  <2> DEFINE one == [Created EXCEPT !.script = row.script]
             two == [one EXCEPT !.ghost = row.ghost]
  <2>1. /\ row.script \in {"NothingRan", "SetupRan", "TeardownRan"}
        /\ row.ghost \in BOOLEAN /\ row.size \in Nat
    BY DEF Rows
  <2>2. one \in Records /\ one.script = row.script /\ one.busy = 0
    BY <1>1, <2>1 DEF Records
  <2> HIDE DEF one
  <2>3. two \in Records /\ two.script = row.script /\ two.busy = 0
    BY <2>1, <2>2 DEF Records
  <2>4. FromRow(row) = [two EXCEPT !.size = row.size]
    BY DEF FromRow, one
  <2> HIDE DEF two
  <2> QED
    BY <2>1, <2>3, <2>4 DEF Records
<1> QED
  BY <1>1, <1>2, <1>3

\* What the handlers make of a record or a row of s may be believed of s.
LEMMA Believable ==
  ASSUME NEW s \in Sessions, NEW rec \in RecordsOf(s)
  PROVE  /\ rec \in Records
         /\ Said(rec) \in RecordsOf(s) /\ Released(rec) \in RecordsOf(s)
         /\ [rec EXCEPT !.busy = @ + 1] \in RecordsOf(s)
         /\ [rec EXCEPT !.kept = TRUE] \in RecordsOf(s)
         /\ \A b \in BOOLEAN : [rec EXCEPT !.turn = b] \in RecordsOf(s)
         /\ \A n \in Nat : Requeued(rec, n) \in RecordsOf(s)
         /\ [rec EXCEPT !.busy = 0, !.turn = FALSE, !.queued = 0] \in RecordsOf(s)
         /\ AfterTeardown(rec) \in RecordsOf(s)
         /\ Ran(s) => AfterSetup(rec) \in RecordsOf(s)
         /\ \A archived \in BOOLEAN : Row(rec, archived) \in RowsOf(s)
<1>1. rec \in Records /\ (rec.script # "NothingRan" => Ran(s))
  BY DEF RecordsOf
<1> HIDE DEF Ran
<1>2. /\ Said(rec) \in RecordsOf(s) /\ Released(rec) \in RecordsOf(s)
      /\ [rec EXCEPT !.busy = @ + 1] \in RecordsOf(s)
      /\ [rec EXCEPT !.kept = TRUE] \in RecordsOf(s)
      /\ \A b \in BOOLEAN : [rec EXCEPT !.turn = b] \in RecordsOf(s)
      /\ [rec EXCEPT !.busy = 0, !.turn = FALSE, !.queued = 0] \in RecordsOf(s)
  BY <1>1, RecordOps DEF RecordsOf
<1>4. \A n \in Nat : Requeued(rec, n) \in RecordsOf(s)
  BY <1>1, QueueOps DEF RecordsOf
<1>3. /\ AfterTeardown(rec) \in RecordsOf(s)
      /\ Ran(s) => AfterSetup(rec) \in RecordsOf(s)
      /\ \A archived \in BOOLEAN : Row(rec, archived) \in RowsOf(s)
  BY <1>1, ScriptOps DEF RecordsOf, RowsOf
<1> QED
  BY <1>1, <1>2, <1>3, <1>4

LEMMA BelievableNew ==
  ASSUME NEW s \in Sessions
  PROVE  /\ Created \in RecordsOf(s) /\ Ghost \in RecordsOf(s)
         /\ \A row \in RowsOf(s) : FromRow(row) \in RecordsOf(s)
BY MadeRecords DEF RecordsOf, RowsOf

LEMMA Found ==
  ASSUME LifeInv, NEW s \in Sessions
  PROVE  /\ Open(s) => mem[s] \in RecordsOf(s)
         /\ GetOrCreate(s) \in RecordsOf(s)
         /\ Stored(s) => store[s] \in RowsOf(s)
         /\ RowsOf(Parent[s]) = RowsOf(s) /\ Parent[s] \in Sessions
<1>1. /\ Open(s) => mem[s] \in RecordsOf(s)
      /\ Stored(s) => store[s] \in RowsOf(s)
  BY DEF LifeInv, MemOK, StoreOK, Open, Stored
<1>2. GetOrCreate(s) \in RecordsOf(s)
  BY <1>1, BelievableNew DEF GetOrCreate
<1>3. Parent[s] \in Sessions /\ Parent[Parent[s]] = Parent[s]
  BY SessionsAssumption
<1>4. RowsOf(Parent[s]) = RowsOf(s)
  BY <1>3 DEF RowsOf, Ran
<1> QED
  BY <1>1, <1>2, <1>3, <1>4

-----------------------------------------------------------------------------
(* What a step that leaves the workspaces alone may do to each part. *)

LEMMA SameBeliefs ==
  ASSUME workspace' = workspace
  PROVE  /\ \A s \in Sessions : RecordsOf(s)' = RecordsOf(s) /\ RowsOf(s)' = RowsOf(s)
         /\ Honest' = Honest
BY DEF RecordsOf, RowsOf, Honest, Ran

LEMMA Amended ==
  ASSUME LifeInv, workspace' = workspace, NEW s \in Sessions,
         NEW rec \in RecordsOf(s) \cup {NoSession}, Amend(s, rec)
  PROVE  MemOK'
<1>1. DOMAIN mem = Sessions /\ \A t \in Sessions : mem[t] \in RecordsOf(t) \cup {NoSession}
  BY DEF LifeInv, MemOK
<1>2. \A t \in Sessions : RecordsOf(t)' = RecordsOf(t)
  BY SameBeliefs
<1>3. mem' = [t \in Sessions |-> IF t = s THEN rec ELSE mem[t]]
  BY <1>1 DEF Amend
<1>4. \A t \in Sessions : mem'[t] \in RecordsOf(t) \cup {NoSession}
  BY <1>1, <1>3
<1> QED
  BY <1>2, <1>3, <1>4 DEF MemOK

LEMMA Stowed ==
  ASSUME LifeInv, workspace' = workspace, NEW s \in Sessions,
         NEW row \in RowsOf(s), store' = [store EXCEPT ![s] = row]
  PROVE  StoreOK'
<1>1. DOMAIN store = Sessions /\ \A t \in Sessions : store[t] \in RowsOf(t) \cup {NoSession}
  BY DEF LifeInv, StoreOK
<1>2. \A t \in Sessions : RowsOf(t)' = RowsOf(t)
  BY SameBeliefs
<1>3. store' = [t \in Sessions |-> IF t = s THEN row ELSE store[t]]
  BY <1>1
<1>4. \A t \in Sessions : store'[t] \in RowsOf(t) \cup {NoSession}
  BY <1>1, <1>3
<1> QED
  BY <1>2, <1>3, <1>4 DEF StoreOK

LEMMA Untouched ==
  ASSUME LifeInv, workspace' = workspace
  PROVE  /\ mem' = mem => MemOK'
         /\ store' = store => StoreOK'
         /\ box' = box => BoxOK'
         /\ bridge' = bridge => BridgeOK'
         /\ scripts' = scripts /\ child' = child => ScriptsOK'
         /\ archiving' = archiving /\ talking' = talking /\ queue' = queue => WorldOK'
         /\ left' = left /\ mishaps' = mishaps => LeftOK'
<1>1. /\ \A s \in Sessions : RecordsOf(s)' = RecordsOf(s) /\ RowsOf(s)' = RowsOf(s)
      /\ Honest' = Honest
  BY SameBeliefs
<1>2. mem' = mem => MemOK'
  BY <1>1 DEF LifeInv, MemOK
<1>3. store' = store => StoreOK'
  BY <1>1 DEF LifeInv, StoreOK
<1>4. box' = box => BoxOK'
  BY <1>1 DEF LifeInv, BoxOK
<1>5. /\ bridge' = bridge => BridgeOK'
      /\ scripts' = scripts /\ child' = child => ScriptsOK'
      /\ archiving' = archiving /\ talking' = talking /\ queue' = queue => WorldOK'
      /\ left' = left /\ mishaps' = mishaps => LeftOK'
  BY DEF LifeInv, BridgeOK, ScriptsOK, WorldOK, LeftOK, queue
<1> QED
  BY <1>2, <1>3, <1>4, <1>5

LEMMA Saved ==
  ASSUME LifeInv, workspace' = workspace, NEW s \in Sessions,
         NEW rec \in RecordsOf(s), NEW archived \in BOOLEAN, Save(s, rec, archived)
  PROVE  StoreOK'
<1>1. Row(rec, archived) \in RowsOf(s)
  BY Believable
<1>2. CASE rec.kept
  BY <1>1, <1>2, Stowed DEF Save
<1>3. CASE ~rec.kept
  BY <1>3, Untouched DEF Save
<1> QED
  BY <1>2, <1>3

\* A record is amended and saved, or saved for the last time and removed.
LEMMA Written ==
  ASSUME LifeInv, workspace' = workspace, NEW s \in Sessions, NEW rec \in RecordsOf(s),
         AmendAndSave(s, rec) \/ PutAway(s, rec)
  PROVE  MemOK' /\ StoreOK'
<1>1. CASE AmendAndSave(s, rec)
  BY <1>1, Amended, Saved DEF AmendAndSave
<1>2. CASE PutAway(s, rec)
  BY <1>2, Amended, Saved DEF PutAway, Amend
<1> QED
  BY <1>1, <1>2

\* The message the session actor takes.
LEMMA Taken ==
  ASSUME LifeInv, box # <<>>
  PROVE  /\ Head(box) \in Honest /\ Tail(box) \in Seq(Honest) /\ Told \in Sessions
         /\ Head(box).kind \in Outcomes => Head(box).ok \in BOOLEAN
         /\ Head(box).kind \in Outcomes /\ Head(box).ok => Ran(Told)
<1>1. Head(box) \in Honest /\ Tail(box) \in Seq(Honest)
  BY DEF LifeInv, BoxOK
<1>2. Head(box) \in Messages /\ (Head(box).kind \in Outcomes /\ Head(box).ok => Ran(Told))
  BY <1>1 DEF Honest, Told
<1>3. Told \in Sessions /\ (Head(box).kind \in Outcomes => Head(box).ok \in BOOLEAN)
  BY <1>2 DEF Told, Messages, Asked, Outcomes, Requests
<1> QED
  BY <1>1, <1>2, <1>3

LEMMA Honesty ==
  ASSUME NEW s \in Sessions
  PROVE  /\ \A k \in Requests : Message(k, s) \in Honest
         /\ \A k \in Outcomes : Finish(k, s, FALSE) \in Honest
         /\ Ran(s) => \A k \in Outcomes, ok \in BOOLEAN : Finish(k, s, ok) \in Honest
         /\ \A m \in Asked : m \in Honest
<1>1. \A m \in Asked : m \in Messages /\ m.kind \notin Outcomes
  BY DEF Asked, Messages, Requests, Outcomes
<1>2. \A k \in Requests : Message(k, s) \in Asked
  BY DEF Message, Asked
<1>3. \A k \in Outcomes, ok \in BOOLEAN :
        /\ Finish(k, s, ok) \in Messages /\ Finish(k, s, ok).s = s /\ Finish(k, s, ok).ok = ok
  BY DEF Finish, Messages
<1> QED
  BY <1>1, <1>2, <1>3 DEF Honest

LEMMA Mailed ==
  ASSUME LifeInv, workspace' = workspace
  PROVE  /\ \A m \in Honest : box' = Append(box, m) => BoxOK'
         /\ box # <<>> /\ box' = Tail(box) => BoxOK'
         /\ \A m \in Honest : box # <<>> /\ box' = Append(Tail(box), m) => BoxOK'
         /\ \A m \in Honest : box # <<>> /\ box' = Tail(box) \o <<m>> => BoxOK'
<1>1. Honest' = Honest /\ box \in Seq(Honest)
  BY SameBeliefs DEF LifeInv, BoxOK
<1>2. box # <<>> => Tail(box) \in Seq(Honest)
  BY <1>1
<1> QED
  BY <1>1, <1>2 DEF BoxOK

LEMMA Acted ==
  ASSUME LifeInv, NEW k \in Kinds \ {"rash"}, NEW on, Act(k, on)
  PROVE  LeftOK'
<1> DEFINE rash == \E s \in on : InFlight(s)
           one == [left EXCEPT ![k] = @ - 1]
<1>1. left \in [Kinds -> Nat] /\ mishaps \subseteq {"rash", "crash"}
  BY DEF LifeInv, LeftOK
<1>2. /\ left[k] > 0 /\ (rash => left["rash"] > 0)
      /\ left' = [left EXCEPT ![k] = @ - 1, !["rash"] = IF rash THEN @ - 1 ELSE @]
      /\ mishaps' = IF rash THEN mishaps \cup {"rash"} ELSE mishaps
  BY DEF Act
<1> HIDE DEF rash
<1>3. "rash" \in Kinds /\ k \in Kinds /\ k # "rash"
  BY DEF Kinds
<1>4. one \in [Kinds -> Nat] /\ one["rash"] = left["rash"]
  BY <1>1, <1>2, <1>3
<1>5. left' = [one EXCEPT !["rash"] = IF rash THEN @ - 1 ELSE @]
  BY <1>2
<1> HIDE DEF one
<1>6. left' \in [Kinds -> Nat]
  BY <1>2, <1>3, <1>4, <1>5
<1> QED
  BY <1>1, <1>2, <1>6 DEF LeftOK

LEMMA Spent ==
  ASSUME LifeInv, NEW k \in Kinds, left[k] > 0, left' = [left EXCEPT ![k] = @ - 1],
         mishaps' \in {mishaps, mishaps \cup {"crash"}}
  PROVE  LeftOK'
<1>1. left \in [Kinds -> Nat] /\ mishaps \subseteq {"rash", "crash"}
  BY DEF LifeInv, LeftOK
<1>2. left[k] - 1 \in Nat
  BY <1>1
<1>3. left' \in [Kinds -> Nat]
  BY <1>1, <1>2
<1> QED
  BY <1>1, <1>3 DEF LeftOK

LEMMA Nth ==
  ASSUME NEW S, NEW q \in Seq(S), NEW i \in 1..Len(q)
  PROVE  q[i] \in S
OBVIOUS

LEMMA Changed ==
  ASSUME NEW S, NEW q \in Seq(S), NEW i \in 1..Len(q), NEW x \in S
  PROVE  [q EXCEPT ![i] = x] \in Seq(S) /\ Len([q EXCEPT ![i] = x]) = Len(q)
OBVIOUS

\* A command in another state is a command.
LEMMA Restated ==
  ASSUME NEW c \in Commands
  PROVE  /\ c.kind \in Outcomes /\ c.s \in Sessions
         /\ \A x \in {"killed", "ended"} : [c EXCEPT !.st = x] \in Commands
BY DEF Commands

-----------------------------------------------------------------------------
(* Types and beliefs, kept by every step. *)

LEMMA UserKeeps ==
  ASSUME LifeInv, NEW s \in Sessions, User(s)
  PROVE  LifeInv'
<1> USE DEF LifeInv
<1>1. /\ "create" \in Kinds \ {"rash"} /\ "fork" \in Kinds \ {"rash"} /\ "submit" \in Kinds \ {"rash"}
      /\ "load" \in Kinds \ {"rash"} /\ "rerun" \in Kinds \ {"rash"}
      /\ "teardown" \in Kinds \ {"rash"} /\ "close" \in Kinds \ {"rash"}
      /\ "archive" \in Kinds \ {"rash"} /\ "closeTree" \in Kinds \ {"rash"}
      /\ "archiveTree" \in Kinds \ {"rash"} /\ "esc" \in Kinds
  BY DEF Kinds
<1>2. ASSUME NEW k \in Kinds \ {"rash"}, NEW on, NEW kinds \in SUBSET Requests,
             Act(k, on), Publish(kinds, s), UNCHANGED <<store, box, idle>>,
             UNCHANGED mem \/ Amend(s, Created)
      PROVE  LifeInv'
  <2>1. workspace' = workspace
    BY <1>2 DEF idle
  <2>2. LeftOK' /\ BridgeOK'
    BY <1>2, Acted, Published DEF BridgeOK
  <2>3. MemOK'
    BY <1>2, <2>1, Untouched, Amended, BelievableNew
  <2>4. StoreOK' /\ BoxOK' /\ ScriptsOK' /\ WorldOK'
    BY <1>2, <2>1, Untouched DEF idle
  <2> QED
    BY <2>2, <2>3, <2>4
<1>3. CASE CreateSession(s)
  <2>1. {"PersistSession", "PushChatEntry", "RunSessionSetup"} \in SUBSET Requests
    BY DEF Requests
  <2> QED
    BY <1>1, <1>2, <1>3, <2>1 DEF CreateSession
<1>4. CASE ForkFromEntry(s)
  <2>1. {"SessionForkRequested"} \in SUBSET Requests
    BY DEF Requests
  <2> QED
    BY <1>1, <1>2, <1>4, <2>1 DEF ForkFromEntry
<1>5. CASE SubmitMessage(s)
  <2>1. {"EnqueueUserMessage", "MarkSessionInteracted"} \in SUBSET Requests
    BY DEF Requests
  <2> QED
    BY <1>1, <1>2, <1>5, <2>1 DEF SubmitMessage
<1>6. CASE LoadSession(s)
  <2>1. {"SessionLoadRequested"} \in SUBSET Requests
    BY DEF Requests
  <2> QED
    BY <1>1, <1>2, <1>6, <2>1 DEF LoadSession
<1>7. ASSUME NEW k \in Kinds \ {"rash"}, NEW kinds \in SUBSET Requests, Key(k, s, kinds)
      PROVE  LifeInv'
  BY <1>2, <1>7 DEF Key
<1>8. ASSUME NEW k \in Kinds \ {"rash"}, NEW kinds \in SUBSET Requests, TreeKey(k, s, kinds)
      PROVE  LifeInv'
  BY <1>2, <1>8 DEF TreeKey
<1>9. CASE RerunSetup(s) \/ Teardown(s)
  <2>1. /\ {"PushChatEntry", "RunSessionSetup"} \in SUBSET Requests
        /\ {"RunSessionTeardown"} \in SUBSET Requests
    BY DEF Requests
  <2> QED
    BY <1>1, <1>7, <1>9, <2>1 DEF RerunSetup, Teardown
<1>10. CASE Key("close", s, {"CloseSession"}) \/ Key("archive", s, {"ArchiveSession"})
  <2>1. {"CloseSession"} \in SUBSET Requests /\ {"ArchiveSession"} \in SUBSET Requests
    BY DEF Requests
  <2> QED
    BY <1>1, <1>7, <1>10, <2>1
<1>11. CASE \/ TreeKey("closeTree", s, {"TeardownSessionTree"})
            \/ TreeKey("archiveTree", s, {"ArchiveSessionTree"})
  <2>1. /\ {"TeardownSessionTree"} \in SUBSET Requests
        /\ {"ArchiveSessionTree"} \in SUBSET Requests
    BY DEF Requests
  <2> QED
    BY <1>1, <1>8, <1>11, <2>1
<1>12. CASE EscConfirm(s)
  <2>1. workspace' = workspace /\ Open(s)
    BY <1>12 DEF EscConfirm, idle
  <2>2. mem[s] \in RecordsOf(s)
    BY <2>1, Found
  <2>3. MemOK'
    <3>1. [mem[s] EXCEPT !.busy = 0, !.turn = FALSE, !.queued = 0] \in RecordsOf(s)
      BY <2>2, Believable
    <3> QED
      BY <1>12, <2>1, <3>1, Amended DEF EscConfirm
  <2>4. StoreOK' /\ BoxOK' /\ ScriptsOK' /\ WorldOK'
    BY <1>12, <2>1, Untouched DEF EscConfirm, idle
  <2>5. BridgeOK'
    <3>1. {"CancelLifecycleCommand"} \in SUBSET Requests
      BY DEF Requests
    <3> QED
      BY <1>12, <2>1, <3>1, Published, Untouched DEF EscConfirm, BridgeOK
  <2>6. LeftOK'
    BY <1>1, <1>12 DEF EscConfirm, LeftOK
  <2> QED
    BY <2>3, <2>4, <2>5, <2>6
<1> QED
  BY <1>3, <1>4, <1>5, <1>6, <1>9, <1>10, <1>11, <1>12 DEF User

\* A text that finds a turn going on is queued.
LEMMA TextQueued ==
  ASSUME LifeInv, HandleEnqueueUserMessage, GetOrCreate(Told).turn
  PROVE  /\ GetOrCreate(Told) \in Records
         /\ \E n \in Nat : Amend(Told, Requeued(GetOrCreate(Told), n))
         /\ UNCHANGED <<store, talking>>
<1>1. box # <<>>
  BY DEF HandleEnqueueUserMessage, Heads
<1>2. GetOrCreate(Told) \in Records
  BY <1>1, Taken, Found DEF RecordsOf
<1>3. /\ Amend(Told, [GetOrCreate(Told) EXCEPT !.queued = @ + 1])
      /\ UNCHANGED <<store, talking>>
  BY DEF HandleEnqueueUserMessage
<1>4. /\ [GetOrCreate(Told) EXCEPT !.queued = @ + 1]
           = Requeued(GetOrCreate(Told), GetOrCreate(Told).queued + 1)
      /\ GetOrCreate(Told).queued + 1 \in Nat
  <2>1. PICK r \in Records : r = GetOrCreate(Told)
    BY <1>2
  <2>2. [r EXCEPT !.queued = @ + 1] = Requeued(r, r.queued + 1)
    BY QueueOps
  <2>3. r.queued \in Nat
    BY QueueOps
  <2> QED
    BY <2>1, <2>2, <2>3
<1> QED
  BY <1>2, <1>3, <1>4

\* What becomes of the session whose turn is over, and of its queue.
LEMMA TurnOver ==
  ASSUME LifeInv, OnStreamCompleted
  PROVE  /\ GetOrCreate(Told) \in Records /\ Said(GetOrCreate(Told)) \in Records
         /\ \E n \in Nat :
              AmendAndSave(Told, Requeued([Said(GetOrCreate(Told)) EXCEPT !.turn = FALSE], n))
         /\ idles' \in {idles, [idles EXCEPT ![Told] = @ + 1]}
<1> DEFINE rec == GetOrCreate(Told)
<1>1. box # <<>>
  BY DEF OnStreamCompleted, Heads
<1>2. rec \in Records
  BY <1>1, Taken, Found DEF RecordsOf
<1>3. Said(rec) \in Records
  BY <1>2, RecordOps
<1>4. PICK reason \in {"Finished", "Error", "Canceled"} :
        /\ AmendAndSave(Told, [Said(rec) EXCEPT
              !.turn = FALSE, !.queued = IF reason = "Finished" THEN rec.queued ELSE 0])
        /\ idles' = IF rec.turn \/ reason = "Canceled" THEN [idles EXCEPT ![Told] = @ + 1] ELSE idles
  BY DEF OnStreamCompleted
<1>5. PICK n \in Nat : n = IF reason = "Finished" THEN rec.queued ELSE 0
  BY <1>2, QueueOps
<1>6. [Said(rec) EXCEPT !.turn = FALSE, !.queued = n]
        = Requeued([Said(rec) EXCEPT !.turn = FALSE], n)
  BY DEF Requeued
<1>7. AmendAndSave(Told, Requeued([Said(rec) EXCEPT !.turn = FALSE], n))
  BY <1>4, <1>5, <1>6
<1> QED
  BY <1>2, <1>3, <1>4, <1>7

\* A pop only takes a text from the queue.
LEMMA PoppedIs ==
  ASSUME LifeInv, NEW s \in Sessions, PopOnIdle(s)
  PROVE  /\ GetOrCreate(s) \in Records
         /\ \E n \in Nat : Amend(s, Requeued(GetOrCreate(s), n))
<1>1. GetOrCreate(s) \in Records
  BY Found DEF RecordsOf
<1>2. PICK q \in Nat : q = GetOrCreate(s).queued
  BY <1>1, QueueOps
<1>3. CASE q = 0
  <2>1. Amend(s, GetOrCreate(s))
    BY <1>2, <1>3 DEF PopOnIdle
  <2>2. PICK r \in Records : r = GetOrCreate(s)
    BY <1>1
  <2>3. r = Requeued(r, r.queued)
    BY QueueOps
  <2> QED
    BY <1>1, <1>2, <2>1, <2>2, <2>3
<1>4. CASE q > 0
  <2>1. Amend(s, [GetOrCreate(s) EXCEPT !.queued = @ - 1])
    BY <1>2, <1>4 DEF PopOnIdle
  <2>2. PICK r \in Records : r = GetOrCreate(s)
    BY <1>1
  <2>3. [r EXCEPT !.queued = @ - 1] = Requeued(r, r.queued - 1)
    BY QueueOps
  <2>4. q - 1 \in Nat
    BY <1>4
  <2> QED
    BY <1>1, <1>2, <2>1, <2>2, <2>3, <2>4
<1> QED
  BY <1>3, <1>4

\* The handlers that only save what they were told.
LEMMA PersistenceKeeps ==
  ASSUME LifeInv,
         \/ HandlePushChatEntry \/ HandlePersistSession \/ HandleMarkSessionInteracted
         \/ HandleEnqueueUserMessage \/ OnStreamCompleted \/ OnLoadRequested
         \/ OnSessionForkRequested
  PROVE  LifeInv'
<1>1. box # <<>> /\ box' = Tail(box) /\ workspace' = workspace
  BY DEF HandlePushChatEntry, HandlePersistSession, HandleMarkSessionInteracted,
         HandleEnqueueUserMessage, OnStreamCompleted, OnLoadRequested,
         OnSessionForkRequested, Heads, Done, idle
<1>2. Told \in Sessions /\ GetOrCreate(Told) \in RecordsOf(Told)
      /\ (Open(Told) => mem[Told] \in RecordsOf(Told))
  BY <1>1, Taken, Found
<1>3. BoxOK'
  BY <1>1, Mailed
<1>4. /\ BridgeOK' /\ ScriptsOK' /\ LeftOK'
      /\ archiving' = archiving /\ talking' \in {talking, talking \cup {Told}}
      /\ hand' = hand /\ overtaken' = overtaken
      /\ OnStreamCompleted \/ idles' = idles
  BY <1>1, Untouched
     DEF HandlePushChatEntry, HandlePersistSession, HandleMarkSessionInteracted,
         HandleEnqueueUserMessage, OnStreamCompleted, OnLoadRequested,
         OnSessionForkRequested, user, idle, queue
<1>5. WorldOK'
  <2>1. idles' \in {idles, [idles EXCEPT ![Told] = @ + 1]}
    BY <1>4, TurnOver
  <2>2. idles' \in [Sessions -> Nat]
    BY <1>2, <2>1 DEF WorldOK, LifeInv
  <2> QED
    BY <1>1, <1>2, <1>4, <2>2 DEF WorldOK, LifeInv
<1>6. MemOK' /\ StoreOK'
  <2>1. CASE UNCHANGED <<mem, store>>
    BY <1>1, <2>1, Untouched
  <2>2. CASE HandlePushChatEntry
    <3>1. Said(GetOrCreate(Told)) \in RecordsOf(Told)
      BY <1>2, Believable
    <3> QED
      BY <1>1, <1>2, <2>2, <3>1, Written DEF HandlePushChatEntry
  <2>3. CASE HandlePersistSession /\ Open(Told)
    BY <1>1, <1>2, <2>3, Saved, Untouched DEF HandlePersistSession
  <2>4. CASE HandleMarkSessionInteracted /\ Open(Told)
    <3>1. [mem[Told] EXCEPT !.kept = TRUE] \in RecordsOf(Told)
      BY <1>2, <2>4, Believable
    <3> QED
      BY <1>1, <1>2, <2>4, <3>1, Written DEF HandleMarkSessionInteracted
  <2>5. CASE HandleEnqueueUserMessage /\ ~GetOrCreate(Told).turn
    <3>1. Said(GetOrCreate(Told)) \in RecordsOf(Told)
      BY <1>2, Believable
    <3>2. [Said(GetOrCreate(Told)) EXCEPT !.turn = TRUE] \in RecordsOf(Told)
      BY <1>2, <3>1, Believable
    <3> QED
      BY <1>1, <1>2, <2>5, <3>2, Written DEF HandleEnqueueUserMessage
  <2>6. CASE OnStreamCompleted
    <3>1. Said(GetOrCreate(Told)) \in RecordsOf(Told)
      BY <1>2, Believable
    <3>2. [Said(GetOrCreate(Told)) EXCEPT !.turn = FALSE] \in RecordsOf(Told)
      BY <1>2, <3>1, Believable
    <3>3. PICK n \in Nat :
            AmendAndSave(Told, Requeued([Said(GetOrCreate(Told)) EXCEPT !.turn = FALSE], n))
      BY <2>6, TurnOver
    <3>4. Requeued([Said(GetOrCreate(Told)) EXCEPT !.turn = FALSE], n) \in RecordsOf(Told)
      BY <1>2, <3>2, Believable
    <3> QED
      BY <1>1, <1>2, <3>3, <3>4, Written
  <2>10. CASE HandleEnqueueUserMessage /\ GetOrCreate(Told).turn
    <3>1. PICK n \in Nat : Amend(Told, Requeued(GetOrCreate(Told), n)) /\ store' = store
      BY <2>10, TextQueued
    <3>2. Requeued(GetOrCreate(Told), n) \in RecordsOf(Told)
      BY <1>2, Believable
    <3> QED
      BY <1>1, <1>2, <3>1, <3>2, Amended, Untouched
  <2>7. CASE OnLoadRequested /\ Stored(Told)
    <3>1. FromRow(store[Told]) \in RecordsOf(Told)
      BY <1>2, <2>7, Found, BelievableNew
    <3> QED
      BY <1>1, <1>2, <2>7, <3>1, Written DEF OnLoadRequested
  <2>8. CASE OnSessionForkRequested /\ Stored(Parent[Told])
    <3>1. RowsOf(Parent[Told]) = RowsOf(Told) /\ Parent[Told] \in Sessions
      BY <1>2, Found
    <3>2. FromRow(store[Parent[Told]]) \in RecordsOf(Told)
      BY <1>2, <2>8, <3>1, Found, BelievableNew
    <3> QED
      BY <1>1, <1>2, <2>8, <3>2, Written DEF OnSessionForkRequested
  <2>9. /\ HandlePersistSession /\ ~Open(Told) => UNCHANGED <<mem, store>>
        /\ HandleMarkSessionInteracted /\ ~Open(Told) => UNCHANGED <<mem, store>>
        /\ OnLoadRequested /\ ~Stored(Told) => UNCHANGED <<mem, store>>
        /\ OnSessionForkRequested /\ ~Stored(Parent[Told]) => UNCHANGED <<mem, store>>
    BY DEF HandlePersistSession, HandleMarkSessionInteracted, OnLoadRequested,
           OnSessionForkRequested
  <2> QED
    BY <2>1, <2>2, <2>3, <2>4, <2>5, <2>6, <2>7, <2>8, <2>9, <2>10
<1> QED
  BY <1>3, <1>4, <1>5, <1>6 DEF LifeInv

\* A spawned command, or the refusal of one.
LEMMA Spawned ==
  ASSUME LifeInv, workspace' = workspace, box # <<>>, NEW kind \in Outcomes, NEW s \in Sessions,
         NEW m \in Honest, Spawn(kind, s, <<m>>), mishaps' = mishaps
  PROVE  BoxOK' /\ ScriptsOK' /\ LeftOK'
<1>1. /\ scripts \in Seq(Commands)
      /\ child \in 0..Len(scripts) /\ left \in [Kinds -> Nat]
      /\ mishaps \subseteq {"rash", "crash"}
  BY DEF LifeInv, ScriptsOK, LeftOK
<1>2. CASE box' = Tail(box) /\ left' = left
           /\ scripts' = Append(scripts, [kind |-> kind, s |-> s, st |-> "runs"])
           /\ child' = Len(scripts) + 1
  <2>1. [kind |-> kind, s |-> s, st |-> "runs"]
          \in Commands
    BY DEF Commands
  <2>2. ScriptsOK'
    BY <1>1, <1>2, <2>1 DEF ScriptsOK
  <2> QED
    BY <1>2, <2>2, Mailed, Untouched
<1>3. CASE box' = Tail(box) \o <<m>> /\ left["spawn"] > 0
           /\ left' = [left EXCEPT !["spawn"] = @ - 1]
           /\ UNCHANGED <<scripts, child>>
  <2>1. "spawn" \in Kinds
    BY DEF Kinds
  <2>2. LeftOK'
    BY <1>3, <2>1, Spent
  <2> QED
    BY <1>3, <2>2, Mailed, Untouched
<1> QED
  BY <1>2, <1>3 DEF Spawn

LEMMA TeardownBegun ==
  ASSUME LifeInv, box # <<>>, Open(Told), NEW kind \in Outcomes, BeginTeardown(kind, Told)
  PROVE  LifeInv'
<1>1. workspace' = workspace /\ mishaps' = mishaps /\ Told \in Sessions
  BY Taken DEF BeginTeardown
<1>2. mem[Told] \in RecordsOf(Told)
  BY <1>1, Found
<1>3. [mem[Told] EXCEPT !.busy = @ + 1] \in RecordsOf(Told)
  BY <1>1, <1>2, Believable
<1>4. Said([mem[Told] EXCEPT !.busy = @ + 1]) \in RecordsOf(Told)
  BY <1>1, <1>3, Believable
<1>5. MemOK' /\ StoreOK'
  BY <1>1, <1>4, Written DEF BeginTeardown
<1>6. Finish(kind, Told, FALSE) \in Honest
  BY <1>1, Honesty
<1>7. BoxOK' /\ ScriptsOK' /\ LeftOK'
  BY <1>1, <1>6, Spawned DEF BeginTeardown
<1>8. BridgeOK' /\ WorldOK'
  BY <1>1, Untouched DEF BeginTeardown
<1> QED
  BY <1>5, <1>7, <1>8 DEF LifeInv

LEMMA TreeArchived ==
  ASSUME LifeInv, workspace' = workspace, talking' = talking, queue' = queue, archiving = {},
         NEW r \in Sessions, ArchiveTree(r)
  PROVE  WorldOK'
<1>1. archiving' \subseteq Sessions
  BY DEF ArchiveTree, Closure
<1> QED
  BY <1>1 DEF LifeInv, WorldOK, queue

\* The handlers that start, count and kill scripts.
LEMMA ScriptHandlersKeep ==
  ASSUME LifeInv,
         \/ HandleRunSessionSetup \/ HandleFinishSessionSetup \/ HandleRunSessionTeardown
         \/ HandleCancelLifecycleCommand \/ HandleFinishSessionTeardown
  PROVE  LifeInv'
<1>1. box # <<>>
  BY DEF HandleRunSessionSetup, HandleFinishSessionSetup, HandleRunSessionTeardown,
         HandleCancelLifecycleCommand, HandleFinishSessionTeardown, Heads
<1>2. Told \in Sessions /\ (Open(Told) => mem[Told] \in RecordsOf(Told))
  BY <1>1, Taken, Found
<1>3. "PushChatEntry" \in Requests /\ Message("PushChatEntry", Told) \in Honest
  BY <1>2, Honesty DEF Requests
<1>4. Open(Told) => Released(mem[Told]) \in RecordsOf(Told)
  BY <1>2, Believable
<1>5. CASE HandleRunSessionSetup
  <2>1. workspace' = workspace /\ mishaps' = mishaps
    BY <1>5 DEF HandleRunSessionSetup
  <2>2. BoxOK' /\ ScriptsOK' /\ LeftOK'
    <3>1. "setup" \in Outcomes
      BY DEF Outcomes
    <3> QED
      BY <1>1, <1>2, <1>3, <1>5, <2>1, <3>1, Spawned DEF HandleRunSessionSetup
  <2>3. MemOK'
    <3>1. Open(Told) => [mem[Told] EXCEPT !.busy = @ + 1] \in RecordsOf(Told)
      BY <1>2, Believable
    <3> QED
      BY <1>2, <1>5, <2>1, <3>1, Amended, Untouched DEF HandleRunSessionSetup
  <2>4. StoreOK' /\ BridgeOK' /\ WorldOK'
    BY <1>5, <2>1, Untouched DEF HandleRunSessionSetup
  <2> QED
    BY <2>2, <2>3, <2>4 DEF LifeInv
<1>6. CASE HandleFinishSessionSetup
  <2>1. workspace' = workspace
    BY <1>6 DEF HandleFinishSessionSetup
  <2>2. BoxOK'
    BY <1>1, <1>3, <1>6, <2>1, Mailed DEF HandleFinishSessionSetup
  <2>3. Open(Told) /\ Head(box).ok => AfterSetup(Released(mem[Told])) \in RecordsOf(Told)
    <3>1. Head(box).kind \in Outcomes
      BY <1>6 DEF HandleFinishSessionSetup, Heads, Outcomes
    <3> QED
      BY <1>1, <1>2, <1>4, <3>1, Taken, Believable
  <2>4. MemOK'
    BY <1>2, <1>4, <1>6, <2>1, <2>3, Amended, Untouched DEF HandleFinishSessionSetup
  <2>5. ScriptsOK'
    BY <1>6 DEF HandleFinishSessionSetup, LifeInv, ScriptsOK
  <2>6. StoreOK' /\ BridgeOK' /\ WorldOK' /\ LeftOK'
    BY <1>6, <2>1, Untouched DEF HandleFinishSessionSetup, user
  <2> QED
    BY <2>2, <2>4, <2>5, <2>6 DEF LifeInv
<1>7. CASE HandleRunSessionTeardown
  <2>1. CASE Own(Told) /\ BeginTeardown("None", Told)
    BY <1>1, <2>1, TeardownBegun DEF Own, Outcomes
  <2>2. CASE Done /\ UNCHANGED <<mem, store, user, idle>>
    <3>1. workspace' = workspace
      BY <2>2 DEF idle
    <3> QED
      BY <1>1, <2>2, <3>1, Untouched, Mailed DEF Done, user, idle, LifeInv
  <2> QED
    BY <1>7, <2>1, <2>2 DEF HandleRunSessionTeardown
<1>8. CASE HandleCancelLifecycleCommand
  <2>1. workspace' = workspace
    BY <1>8 DEF HandleCancelLifecycleCommand
  <2>2. ScriptsOK'
    <3>1. /\ scripts \in Seq(Commands)
          /\ child \in 0..Len(scripts)
      BY DEF LifeInv, ScriptsOK
    <3>2. CASE child # 0 /\ Works(child)
      <4>1. child \in 1..Len(scripts)
        BY <3>1, <3>2
      <4>2. scripts[child] \in Commands
        BY <3>1, <4>1, Nth
      <4>3. [scripts[child] EXCEPT !.st = "killed"]
              \in Commands
        BY <4>2, Restated
      <4>4. scripts' = [scripts EXCEPT ![child] = [scripts[child] EXCEPT !.st = "killed"]]
        BY <1>8, <3>2 DEF HandleCancelLifecycleCommand
      <4>5. scripts' \in Seq(Commands)
        BY <3>1, <4>1, <4>3, <4>4, Changed
      <4> QED
        BY <1>8, <4>5 DEF HandleCancelLifecycleCommand, ScriptsOK
    <3>3. CASE ~(child # 0 /\ Works(child))
      BY <1>8, <3>1, <3>3 DEF HandleCancelLifecycleCommand, ScriptsOK
    <3> QED
      BY <3>2, <3>3
  <2>3. BoxOK'
    BY <1>1, <1>8, <2>1, Mailed DEF HandleCancelLifecycleCommand, Done
  <2>4. MemOK' /\ StoreOK' /\ BridgeOK' /\ WorldOK' /\ LeftOK'
    BY <1>8, <2>1, Untouched DEF HandleCancelLifecycleCommand, user
  <2> QED
    BY <2>2, <2>3, <2>4 DEF LifeInv
<1>9. CASE HandleFinishSessionTeardown
  <2> DEFINE rec == AfterTeardown(Released(mem[Told]))
  <2>1. workspace' = workspace /\ talking' = talking /\ queue' = queue /\ archiving = {}
    BY <1>9 DEF HandleFinishSessionTeardown, Heads
  <2>2. Open(Told) => rec \in RecordsOf(Told)
    BY <1>2, <1>4, Believable
  <2>3. ScriptsOK'
    BY <1>9 DEF HandleFinishSessionTeardown, LifeInv, ScriptsOK
  <2>4. BridgeOK' /\ LeftOK'
    BY <1>9, <2>1, Untouched DEF HandleFinishSessionTeardown, user
  <2>5. CASE ~Open(Told) /\ Done /\ UNCHANGED <<mem, store, archiving>>
    BY <1>1, <2>1, <2>3, <2>4, <2>5, Untouched, Mailed DEF Done, LifeInv
  <2>6. CASE /\ Open(Told) /\ Amend(Told, Released(mem[Told]))
             /\ box' = Append(Tail(box), Message("PushChatEntry", Told))
             /\ UNCHANGED <<store, archiving>>
    BY <1>1, <1>2, <1>3, <1>4, <2>1, <2>3, <2>4, <2>6, Untouched, Mailed, Amended DEF LifeInv
  <2>7. CASE /\ Open(Told) /\ AmendAndSave(Told, rec)
             /\ box' = Append(Tail(box), Message("PushChatEntry", Told))
             /\ UNCHANGED archiving
    BY <1>1, <1>2, <1>3, <2>1, <2>2, <2>3, <2>4, <2>7, Untouched, Mailed, Written DEF LifeInv
  <2>8. CASE Open(Told) /\ Done /\ PutAway(Told, rec) /\ UNCHANGED archiving
    BY <1>1, <1>2, <2>1, <2>2, <2>3, <2>4, <2>8, Untouched, Mailed, Written DEF LifeInv, Done
  <2>9. CASE Open(Told) /\ Done /\ AmendAndSave(Told, rec) /\ ArchiveTree(Told)
    BY <1>1, <1>2, <2>1, <2>2, <2>3, <2>4, <2>9, TreeArchived, Mailed, Written DEF LifeInv, Done
  <2> QED
    BY <1>9, <2>5, <2>6, <2>7, <2>8, <2>9 DEF HandleFinishSessionTeardown
<1> QED
  BY <1>5, <1>6, <1>7, <1>8, <1>9

\* The handlers that put sessions away.
LEMMA ArchiversKeep ==
  ASSUME LifeInv,
         \/ HandleCloseSession \/ HandleArchiveSession \/ HandleArchiveSessionTree
         \/ HandleTeardownSessionTree
  PROVE  LifeInv'
<1>1. box # <<>> /\ archiving = {}
  BY DEF HandleCloseSession, HandleArchiveSession, HandleArchiveSessionTree,
         HandleTeardownSessionTree, Heads
<1>2. Told \in Sessions /\ (Open(Told) => mem[Told] \in RecordsOf(Told))
  BY <1>1, Taken, Found
<1>3. ASSUME Done, UNCHANGED <<mem, store, user, idle>>
      PROVE  LifeInv'
  <2>1. workspace' = workspace
    BY <1>3 DEF idle
  <2> QED
    BY <1>1, <1>3, <2>1, Untouched, Mailed DEF Done, user, idle, LifeInv
<1>4. ASSUME Open(Told), Done, PutAway(Told, mem[Told]), UNCHANGED <<user, idle>>
      PROVE  LifeInv'
  <2>1. workspace' = workspace
    BY <1>4 DEF idle
  <2> QED
    BY <1>1, <1>2, <1>4, <2>1, Untouched, Mailed, Written DEF Done, user, idle, LifeInv
<1>5. ASSUME Done, UNCHANGED <<mem, store, user, scripts, child, talking, queue, workspace>>,
             ArchiveTree(Told)
      PROVE  LifeInv'
  BY <1>1, <1>2, <1>5, Untouched, Mailed, TreeArchived DEF Done, user, LifeInv
<1>6. ASSUME Open(Told), NEW kind \in {"Close", "CloseTree"}, BeginTeardown(kind, Told)
      PROVE  LifeInv'
  BY <1>1, <1>6, TeardownBegun DEF Outcomes
<1>7. CASE HandleCloseSession
  BY <1>3, <1>4, <1>6, <1>7 DEF HandleCloseSession, Due, Own
<1>8. CASE HandleArchiveSession
  BY <1>3, <1>4, <1>8 DEF HandleArchiveSession
<1>9. CASE HandleArchiveSessionTree
  BY <1>5, <1>9 DEF HandleArchiveSessionTree
<1>10. CASE HandleTeardownSessionTree
  BY <1>3, <1>5, <1>6, <1>10 DEF HandleTeardownSessionTree
<1> QED
  BY <1>7, <1>8, <1>9, <1>10

LEMMA ArchiveNextKeeps ==
  ASSUME LifeInv, NEW s \in archiving, ArchiveNext(s)
  PROVE  LifeInv'
<1>1. workspace' = workspace /\ s \in Sessions
  BY DEF ArchiveNext, LifeInv, WorldOK
<1>2. WorldOK'
  BY DEF ArchiveNext, LifeInv, WorldOK
<1>3. BoxOK' /\ BridgeOK' /\ ScriptsOK' /\ LeftOK'
  BY <1>1, Untouched DEF ArchiveNext, user
<1>4. MemOK' /\ StoreOK'
  <2>1. CASE Kept(s) /\ PutAway(s, mem[s])
    <3>1. mem[s] \in RecordsOf(s)
      BY <1>1, <2>1, Found DEF Kept
    <3> QED
      BY <1>1, <2>1, <3>1, Written
  <2>2. CASE /\ mem' = [mem EXCEPT ![s] = NoSession]
             /\ store' = IF Stored(s) THEN [store EXCEPT ![s].archived = TRUE] ELSE store
    <3>1. MemOK'
      BY <1>1, <2>2, Amended DEF Amend
    <3>2. CASE Stored(s)
      <4>1. store[s] \in RowsOf(s)
        BY <1>1, <3>2, Found
      <4>2. [store[s] EXCEPT !.archived = TRUE] \in RowsOf(s)
        BY <4>1 DEF RowsOf, Rows
      <4>3. store' = [store EXCEPT ![s] = [store[s] EXCEPT !.archived = TRUE]]
        BY <2>2, <3>2
      <4> QED
        BY <1>1, <3>1, <4>2, <4>3, Stowed
    <3>3. CASE ~Stored(s)
      BY <1>1, <2>2, <3>1, <3>3, Untouched
    <3> QED
      BY <3>2, <3>3
  <2> QED
    BY <2>1, <2>2 DEF ArchiveNext
<1> QED
  BY <1>2, <1>3, <1>4 DEF LifeInv

-----------------------------------------------------------------------------
(* Scripts that end, crashes, and the whole. *)

LEMMA BeliefsGrow ==
  ASSUME LifeInv, \A s \in Sessions : Ran(s) => Ran(s)'
  PROVE  /\ mem' = mem => MemOK'
         /\ store' = store => StoreOK'
         /\ Honest \subseteq Honest'
         /\ \A s \in Sessions : RecordsOf(s) \subseteq RecordsOf(s)'
<1>1. /\ \A s \in Sessions : RecordsOf(s) \subseteq RecordsOf(s)' /\ RowsOf(s) \subseteq RowsOf(s)'
      /\ Honest \subseteq Honest'
  <2>1. \A s \in Sessions : RecordsOf(s) \subseteq RecordsOf(s)' /\ RowsOf(s) \subseteq RowsOf(s)'
    BY DEF RecordsOf, RowsOf
  <2>2. \A m \in Messages : m.s \in Sessions
    BY DEF Messages, Asked
  <2>3. Honest \subseteq Honest'
    BY <2>2 DEF Honest
  <2> QED
    BY <2>1, <2>3
<1>2. mem' = mem => MemOK'
  BY <1>1 DEF LifeInv, MemOK
<1>3. store' = store => StoreOK'
  BY <1>1 DEF LifeInv, StoreOK
<1> QED
  BY <1>1, <1>2, <1>3

LEMMA ScriptEndKeeps ==
  ASSUME LifeInv, NEW i \in DOMAIN scripts,
         ScriptReportsKill(i) \/ \E ok \in BOOLEAN : ScriptEnds(i, ok)
  PROVE  LifeInv'
<1>1. scripts \in Seq(Commands) /\ child \in 0..Len(scripts) /\ i \in 1..Len(scripts)
  BY DEF LifeInv, ScriptsOK
<1>2. scripts[i] \in Commands
  BY <1>1, Nth
<1>3. scripts[i].kind \in Outcomes /\ scripts[i].s \in Sessions
  BY <1>2, Restated
<1>4. ScriptsOK'
  <2>1. [scripts[i] EXCEPT !.st = "ended"] \in Commands
    BY <1>2, Restated
  <2>2. scripts' = [scripts EXCEPT ![i] = [scripts[i] EXCEPT !.st = "ended"]] /\ child' = child
    BY DEF ScriptReportsKill, ScriptEnds
  <2>3. scripts' \in Seq(Commands) /\ Len(scripts') = Len(scripts)
    BY <1>1, <2>1, <2>2, Changed
  <2> QED
    BY <1>1, <2>2, <2>3 DEF ScriptsOK
<1>5. LeftOK'
  <2>1. CASE UNCHANGED <<left, mishaps>>
    BY <2>1 DEF LifeInv, LeftOK
  <2>2. CASE left["fail"] > 0 /\ left' = [left EXCEPT !["fail"] = @ - 1] /\ mishaps' = mishaps
    BY <2>2, Spent DEF Kinds
  <2> QED
    BY <2>1, <2>2 DEF ScriptReportsKill, ScriptEnds, user
<1>6. PICK ok \in BOOLEAN :
        /\ box' = Append(box, Finish(scripts[i].kind, scripts[i].s, ok))
        /\ workspace' = IF ok THEN [workspace EXCEPT ![Parent[scripts[i].s]] = Effect(scripts[i].kind)]
                        ELSE workspace
  BY DEF ScriptReportsKill, ScriptEnds
<1>7. UNCHANGED <<mem, store, bridge, archiving, talking, queue>>
  BY DEF ScriptReportsKill, ScriptEnds, user
<1>8. Effect(scripts[i].kind) \in {"up", "down"}
  BY DEF Effect
<1>9. /\ \A s \in Sessions : Parent[s] \in Sessions
      /\ workspace \in [Sessions -> {"none", "up", "down"}]
  BY SessionsAssumption DEF LifeInv, WorldOK
<1>10. /\ workspace' \in [Sessions -> {"none", "up", "down"}]
       /\ \A s \in Sessions : Ran(s) => Ran(s)'
  <2>1. PICK w \in Sessions : w = Parent[scripts[i].s]
    BY <1>3, <1>9
  <2>2. PICK e \in {"up", "down"} : e = Effect(scripts[i].kind)
    BY <1>8
  <2>3. CASE ok
    <3>1. workspace' = [workspace EXCEPT ![w] = e]
      BY <1>6, <2>1, <2>2, <2>3
    <3>2. workspace' \in [Sessions -> {"none", "up", "down"}]
      BY <1>9, <3>1
    <3>3. \A v \in Sessions : workspace[v] # "none" => workspace'[v] # "none"
      BY <1>9, <3>1
    <3> QED
      BY <1>9, <3>2, <3>3 DEF Ran
  <2>4. CASE ~ok
    BY <1>6, <1>9, <2>4 DEF Ran
  <2> QED
    BY <2>3, <2>4
<1>11. BoxOK'
  <2> DEFINE m == Finish(scripts[i].kind, scripts[i].s, ok)
  <2>1. m \in Messages /\ m.s = scripts[i].s /\ m.ok = ok
    BY <1>3 DEF Finish, Messages
  <2>2. m \in Honest'
    <3>1. PICK f \in Messages : f = m
      BY <2>1
    <3>2. PICK t \in Sessions : t = scripts[i].s
      BY <1>3
    <3>3. f.s = t /\ f.ok = ok /\ (ok => workspace'[Parent[t]] # "none")
      <4>1. ok => workspace'[Parent[scripts[i].s]] # "none"
        BY <1>3, <1>6, <1>8, <1>9
      <4> QED
        BY <2>1, <3>1, <3>2, <4>1
    <3>4. f \in Honest'
      BY <3>3 DEF Honest, Ran
    <3> QED
      BY <3>1, <3>4
  <2>3. Honest \subseteq Honest' /\ box \in Seq(Honest)
    BY <1>10, BeliefsGrow DEF LifeInv, BoxOK
  <2>4. box \in Seq(Honest')
    BY <2>3
  <2> HIDE DEF m
  <2>5. box' = Append(box, m)
    BY <1>6 DEF m
  <2> QED
    BY <2>2, <2>4, <2>5 DEF BoxOK
<1>12. MemOK' /\ StoreOK'
  BY <1>7, <1>10, BeliefsGrow
<1>13. BridgeOK' /\ WorldOK'
  BY <1>7, <1>10 DEF LifeInv, BridgeOK, WorldOK, queue
<1> QED
  BY <1>4, <1>5, <1>11, <1>12, <1>13 DEF LifeInv

LEMMA TasksKeep ==
  ASSUME LifeInv, Tasks
  PROVE  LifeInv'
<1>1. ASSUME NEW m \in BagToSet(bridge), BridgePublish(m)
      PROVE  LifeInv'
  <2>1. m \in Asked /\ BridgeOK'
    BY <1>1, Removed DEF BridgePublish, BridgeOK, LifeInv
  <2>2. workspace' = workspace
    BY <1>1 DEF BridgePublish, idle
  <2>3. m \in Honest
    BY <2>1, Honesty DEF Asked
  <2>4. BoxOK'
    BY <1>1, <2>2, <2>3, Mailed DEF BridgePublish
  <2> QED
    BY <1>1, <2>1, <2>2, <2>4, Untouched DEF BridgePublish, idle, LifeInv
<1>2. ASSUME NEW s \in talking, TurnEnds(s)
      PROVE  LifeInv'
  <2>1. workspace' = workspace /\ s \in Sessions
    BY <1>2 DEF TurnEnds, LifeInv, WorldOK
  <2>2. Message("StreamCompleted", s) \in Honest
    BY <2>1, Honesty DEF Requests
  <2>3. BoxOK'
    BY <1>2, <2>1, <2>2, Mailed DEF TurnEnds
  <2>4. WorldOK'
    BY <1>2 DEF TurnEnds, LifeInv, WorldOK, queue
  <2> QED
    BY <1>2, <2>1, <2>3, <2>4, Untouched DEF TurnEnds, user, LifeInv
<1> QED
  BY <1>1, <1>2, ScriptEndKeeps DEF Tasks

\* The queue actor makes a session that is not there, and changes no belief.
LEMMA QueueKeeps ==
  ASSUME LifeInv, QueueActor
  PROVE  LifeInv'
<1>1. ASSUME NEW s \in Sessions, PopOnIdle(s)
      PROVE  LifeInv'
  <2>1. workspace' = workspace /\ GetOrCreate(s) \in RecordsOf(s)
    BY <1>1, Found DEF PopOnIdle
  <2>2. PICK n \in Nat : Amend(s, Requeued(GetOrCreate(s), n))
    BY <1>1, PoppedIs
  <2>3. MemOK'
    BY <2>1, <2>2, Believable, Amended
  <2>4. WorldOK'
    <3>1. idles \in [Sessions -> Nat] /\ idles[s] - 1 \in Nat
      BY <1>1 DEF PopOnIdle, LifeInv, WorldOK
    <3>2. idles' \in [Sessions -> Nat]
      BY <1>1, <3>1 DEF PopOnIdle
    <3> QED
      BY <1>1, <3>2 DEF PopOnIdle, LifeInv, WorldOK
  <2>5. StoreOK' /\ BoxOK' /\ BridgeOK' /\ ScriptsOK' /\ LeftOK'
    BY <1>1, <2>1, Untouched DEF PopOnIdle, user
  <2> QED
    BY <2>3, <2>4, <2>5 DEF LifeInv
<1>2. CASE DispatchPopped
  <2>1. /\ hand \in Sessions /\ GetOrCreate(hand) \in RecordsOf(hand)
        /\ workspace' = workspace
    BY <1>2, Found DEF DispatchPopped, LifeInv, WorldOK
  <2>2. Said(GetOrCreate(hand)) \in RecordsOf(hand)
    BY <2>1, Believable
  <2>3. [Said(GetOrCreate(hand)) EXCEPT !.turn = TRUE] \in RecordsOf(hand)
    BY <2>1, <2>2, Believable
  <2>4. MemOK'
    BY <1>2, <2>1, <2>3, Amended DEF DispatchPopped
  <2>5. Message("PersistSession", hand) \in Honest
    BY <2>1, Honesty DEF Requests
  <2>6. BoxOK'
    BY <1>2, <2>1, <2>5, Mailed DEF DispatchPopped
  <2>7. WorldOK'
    BY <1>2, <2>1 DEF DispatchPopped, LifeInv, WorldOK
  <2>8. StoreOK' /\ BridgeOK' /\ ScriptsOK' /\ LeftOK'
    BY <1>2, <2>1, Untouched DEF DispatchPopped, user
  <2> QED
    BY <2>4, <2>6, <2>7, <2>8 DEF LifeInv
<1> QED
  BY <1>1, <1>2 DEF QueueActor

LEMMA CrashKeeps ==
  ASSUME LifeInv, CrashAndRestart
  PROVE  LifeInv'
<1>1. /\ workspace' \in [Sessions -> {"none", "up", "down"}]
      /\ \A w \in Sessions : workspace'[w] = workspace[w] \/ workspace'[w] \in {"up", "down"}
  BY DEF CrashAndRestart, Effect
<1>2. \A s \in Sessions : Ran(s) => Ran(s)'
  BY <1>1, SessionsAssumption DEF Ran
<1>3. /\ store' = store => StoreOK'
      /\ \A s \in Sessions : RecordsOf(s) \subseteq RecordsOf(s)'
  BY <1>2, BeliefsGrow
<1>4. StoreOK'
  BY <1>3 DEF CrashAndRestart
<1>5. MemOK'
  <2>1. \A s \in Sessions : Stored(s) => FromRow(store[s]) \in RecordsOf(s)'
    BY <1>3, Found, BelievableNew
  <2>2. mem' = [s \in Sessions |-> IF Stored(s) /\ ~store[s].archived THEN FromRow(store[s])
                                   ELSE NoSession]
    BY DEF CrashAndRestart
  <2>3. \A s \in Sessions : mem'[s] \in RecordsOf(s)' \cup {NoSession}
    BY <2>1, <2>2
  <2>4. DOMAIN mem' = Sessions /\ mem' = [s \in Sessions |-> mem'[s]]
    BY <2>2
  <2> QED
    BY <2>3, <2>4 DEF MemOK
<1>6. BoxOK' /\ ScriptsOK'
  BY DEF CrashAndRestart, BoxOK, ScriptsOK
<1>7. BridgeOK'
  BY DEF CrashAndRestart, BridgeOK, EmptyBag, SetToBag, IsABag
<1>8. WorldOK'
  BY <1>1 DEF CrashAndRestart, WorldOK
<1>9. LeftOK'
  BY DEF CrashAndRestart, LifeInv, LeftOK, Kinds
<1> QED
  BY <1>4, <1>5, <1>6, <1>7, <1>8, <1>9 DEF LifeInv

LEMMA LifeInit ==
  ASSUME Init
  PROVE  LifeInv
<1>1. MemOK /\ StoreOK
  BY DEF Init, MemOK, StoreOK
<1>2. BoxOK /\ ScriptsOK /\ WorldOK
  BY DEF Init, BoxOK, ScriptsOK, WorldOK
<1>3. BridgeOK
  BY DEF Init, BridgeOK, EmptyBag, SetToBag, IsABag
<1>4. LeftOK
  BY SessionsAssumption DEF Init, LeftOK
<1> QED
  BY <1>1, <1>2, <1>3, <1>4 DEF LifeInv

LEMMA LifeStep ==
  ASSUME LifeInv, [Next]_vars
  PROVE  LifeInv'
<1>1. CASE UNCHANGED vars
  <2>1. workspace' = workspace
    BY <1>1 DEF vars
  <2> QED
    BY <1>1, <2>1, Untouched DEF vars, LifeInv
<1>2. CASE SessionActor
  BY <1>2, PersistenceKeeps, ScriptHandlersKeep, ArchiversKeep, ArchiveNextKeeps
     DEF SessionActor
<1> QED
  BY <1>1, <1>2, UserKeeps, TasksKeep, QueueKeeps, CrashKeeps DEF Next

LEMMA LifeInvariant == Spec => []LifeInv
<1>1. Init => LifeInv
  BY LifeInit
<1>2. LifeInv /\ [Next]_vars => LifeInv'
  BY LifeStep
<1> QED
  BY <1>1, <1>2, PTL DEF Spec

\* Every variable holds a value of its kind, and only what the session actor
\* subscribes to is in its mailbox.
THEOREM LifeTypeCorrect == Spec => []LifeTypeOK
<1>1. LifeInv => LifeTypeOK
  <2> SUFFICES ASSUME LifeInv
               PROVE  LifeTypeOK
    OBVIOUS
  <2>1. mem \in [Sessions -> Records \cup {NoSession}]
    <3>1. \A s \in Sessions : mem[s] \in Records \cup {NoSession}
      BY DEF LifeInv, MemOK, RecordsOf
    <3> QED
      BY <3>1 DEF LifeInv, MemOK
  <2>2. store \in [Sessions -> Rows \cup {NoSession}]
    <3>1. \A s \in Sessions : store[s] \in Rows \cup {NoSession}
      BY DEF LifeInv, StoreOK, RowsOf
    <3> QED
      BY <3>1 DEF LifeInv, StoreOK
  <2>3. box \in Seq(Messages)
    <3>1. Honest \subseteq Messages
      BY DEF Honest
    <3> QED
      BY <3>1 DEF LifeInv, BoxOK
  <2> QED
    BY <2>1, <2>2, <2>3 DEF LifeInv, BridgeOK, ScriptsOK, Commands, WorldOK, LeftOK, LifeTypeOK
<1> QED
  BY <1>1, LifeInvariant, PTL

\* Whatever is killed, cancelled, forked, loaded or lost in a crash, a script state is
\* only ever stored of a session whose workspace a script has touched.
THEOREM StoredRan == Spec => []StoredScriptsRan
<1>1. LifeInv => StoredScriptsRan
  BY DEF LifeInv, StoreOK, RowsOf, Ran, Stored, StoredScriptsRan
<1> QED
  BY <1>1, LifeInvariant, PTL

-----------------------------------------------------------------------------
(* The archive cascade. *)

\* A cascade only has members that no script keeps busy, and no turn but one that the
\* queue actor began behind the guard.
ArchivesTheIdle ==
  \A s \in archiving : Open(s) => mem[s].busy = 0 /\ (mem[s].turn => s \in overtaken)

LEMMA CascadeChosen ==
  ASSUME NEW r, ArchiveTree(r)
  PROVE  ArchivesTheIdle'
BY DEF ArchiveTree, ArchivesTheIdle, TreeIsIdle, IsIdle

LEMMA CascadeStep ==
  ASSUME LifeInv, ArchivesTheIdle, [Next]_vars
  PROVE  ArchivesTheIdle'
<1>1. ASSUME archiving' = {}
      PROVE  ArchivesTheIdle'
  BY <1>1 DEF ArchivesTheIdle
<1>2. ASSUME archiving' = archiving, overtaken' = overtaken, mem' = mem
      PROVE  ArchivesTheIdle'
  BY <1>2 DEF ArchivesTheIdle, Open, IsIdle
<1>3. DOMAIN mem = Sessions /\ archiving \subseteq Sessions
  BY DEF LifeInv, MemOK, WorldOK
<1>4. ASSUME NEW s \in Sessions, User(s)
      PROVE  ArchivesTheIdle'
  <2>1. archiving' = archiving /\ overtaken' = overtaken
    BY <1>4 DEF User, CreateSession, ForkFromEntry, SubmitMessage, LoadSession, EscConfirm,
                RerunSetup, Teardown, Key, TreeKey, idle, queue
  <2>2. CASE mem' = mem
    BY <1>2, <2>1, <2>2
  <2>3. ASSUME NEW rec, IsIdle(rec), Amend(s, rec)
        PROVE  ArchivesTheIdle'
    <3>1. mem' = [mem EXCEPT ![s] = rec]
      BY <2>3 DEF Amend
    <3>2. \A t \in Sessions : mem'[t] = IF t = s THEN rec ELSE mem[t]
      BY <1>3, <3>1
    <3> QED
      BY <1>3, <2>1, <2>3, <3>2 DEF ArchivesTheIdle, Open, IsIdle
  <2>4. CASE CreateSession(s)
    BY <2>3, <2>4, MadeRecords DEF CreateSession
  <2>5. CASE EscConfirm(s)
    <3>1. mem[s] \in Records
      BY <1>4, <2>5, Found, Believable DEF EscConfirm
    <3>2. IsIdle([mem[s] EXCEPT !.busy = 0, !.turn = FALSE, !.queued = 0])
      BY <3>1, RecordOps
    <3> QED
      BY <2>3, <2>5, <3>2 DEF EscConfirm
  <2>6. ~CreateSession(s) /\ ~EscConfirm(s) => mem' = mem
    BY <1>4 DEF User, ForkFromEntry, SubmitMessage, LoadSession, RerunSetup, Teardown, Key,
                TreeKey
  <2> QED
    BY <2>2, <2>4, <2>5, <2>6
<1>5. CASE Tasks
  BY <1>2, <1>5 DEF Tasks, BridgePublish, ScriptReportsKill, ScriptEnds, TurnEnds, idle, queue
<1>6. CASE CrashAndRestart
  BY <1>1, <1>6 DEF CrashAndRestart
<1>7. CASE UNCHANGED vars
  BY <1>2, <1>7 DEF vars, queue
<1>8. CASE \/ HandlePushChatEntry \/ HandlePersistSession \/ HandleMarkSessionInteracted
           \/ HandleEnqueueUserMessage \/ OnStreamCompleted
           \/ HandleRunSessionSetup \/ HandleFinishSessionSetup
           \/ HandleRunSessionTeardown \/ HandleCloseSession \/ HandleArchiveSession
           \/ HandleCancelLifecycleCommand \/ OnLoadRequested \/ OnSessionForkRequested
  <2>1. archiving = {} /\ archiving' = archiving
    BY <1>8 DEF HandlePushChatEntry, HandlePersistSession, HandleMarkSessionInteracted,
         HandleEnqueueUserMessage, OnStreamCompleted, HandleRunSessionSetup,
         HandleFinishSessionSetup, HandleRunSessionTeardown, HandleCloseSession,
         HandleArchiveSession, HandleCancelLifecycleCommand, OnLoadRequested,
         OnSessionForkRequested, BeginTeardown, Heads, idle
  <2> QED
    BY <1>1, <2>1
<1>9. CASE HandleFinishSessionTeardown \/ HandleArchiveSessionTree \/ HandleTeardownSessionTree
  <2>1. archiving = {} /\ (archiving' = archiving \/ ArchiveTree(Told))
    BY <1>9 DEF HandleFinishSessionTeardown, HandleArchiveSessionTree,
                HandleTeardownSessionTree, BeginTeardown, Heads, idle
  <2> QED
    BY <1>1, <2>1, CascadeChosen
<1>10. ASSUME NEW s \in archiving, ArchiveNext(s)
       PROVE  ArchivesTheIdle'
  <2>1. /\ archiving' = archiving \ {s} /\ overtaken' = overtaken \ {s}
        /\ \A t \in Sessions \ {s} : mem'[t] = mem[t]
    BY <1>3, <1>10 DEF ArchiveNext, PutAway
  <2> QED
    BY <1>3, <2>1 DEF ArchivesTheIdle, Open
<1>11. ASSUME NEW s \in Sessions, NEW rec \in Records, Amend(s, rec), archiving' = archiving,
              rec.busy = GetOrCreate(s).busy, overtaken \subseteq overtaken',
              s \in archiving /\ rec.turn => GetOrCreate(s).turn \/ s \in overtaken'
       PROVE  ArchivesTheIdle'
  <2>1. \A t \in Sessions : mem'[t] = IF t = s THEN rec ELSE mem[t]
    BY <1>3, <1>11 DEF Amend
  <2>2. ASSUME NEW t \in archiving, Open(t)'
        PROVE  mem'[t].busy = 0 /\ (mem'[t].turn => t \in overtaken')
    <3>1. CASE t # s
      BY <1>3, <1>11, <2>1, <2>2, <3>1 DEF ArchivesTheIdle, Open
    <3>2. CASE t = s /\ Open(s)
      BY <1>3, <1>11, <2>1, <2>2, <3>2 DEF ArchivesTheIdle, GetOrCreate
    <3>3. CASE t = s /\ ~Open(s)
      BY <1>3, <1>11, <2>1, <2>2, <3>3, MadeRecords DEF GetOrCreate, Ghost, Created
    <3> QED
      BY <3>1, <3>2, <3>3
  <2> QED
    BY <1>11, <2>2 DEF ArchivesTheIdle
<1>12. ASSUME NEW s \in Sessions, PopOnIdle(s)
       PROVE  ArchivesTheIdle'
  <2>1. PICK n \in Nat : Amend(s, Requeued(GetOrCreate(s), n))
    BY <1>12, PoppedIs
  <2>2. /\ Requeued(GetOrCreate(s), n) \in Records
        /\ Requeued(GetOrCreate(s), n).busy = GetOrCreate(s).busy
        /\ Requeued(GetOrCreate(s), n).turn = GetOrCreate(s).turn
    BY <1>12, PoppedIs, QueueOps
  <2> QED
    BY <1>11, <1>12, <2>1, <2>2 DEF PopOnIdle
<1>13. CASE DispatchPopped
  <2>1. hand \in Sessions /\ GetOrCreate(hand) \in Records
    BY <1>13, Found, Believable DEF DispatchPopped, LifeInv, WorldOK
  <2>2. /\ [Said(GetOrCreate(hand)) EXCEPT !.turn = TRUE] \in Records
        /\ [Said(GetOrCreate(hand)) EXCEPT !.turn = TRUE].busy = GetOrCreate(hand).busy
    BY <2>1, RecordOps
  <2>3. /\ archiving' = archiving /\ overtaken \subseteq overtaken'
        /\ hand \in archiving => hand \in overtaken'
        /\ Amend(hand, [Said(GetOrCreate(hand)) EXCEPT !.turn = TRUE])
    BY <1>13 DEF DispatchPopped
  <2> QED
    BY <1>11, <2>1, <2>2, <2>3
<1> QED
  BY <1>4, <1>5, <1>6, <1>7, <1>8, <1>9, <1>10, <1>12, <1>13 DEF Next, SessionActor, QueueActor

\* However long a teardown takes before it and whatever is submitted, pressed or
\* loaded during it, the cascade never removes a session that is busy, and none in a
\* turn but where the queue actor began that turn behind the cascade's guard.
THEOREM BusySpared == Spec => TreeSparesTheBusy
<1>1. Init => ArchivesTheIdle
  BY DEF Init, ArchivesTheIdle
<1>2. LifeInv /\ ArchivesTheIdle /\ [Next]_vars => ArchivesTheIdle'
  BY CascadeStep
<1>3. ArchivesTheIdle =>
        [\A s \in archiving : Open(s) /\ ~Open(s)' /\ archiving' = archiving \ {s}
            => mem[s].busy = 0 /\ (mem[s].turn => s \in overtaken)]_vars
  BY DEF ArchivesTheIdle
<1> QED
  BY <1>1, <1>2, <1>3, LifeInvariant, PTL DEF Spec, TreeSparesTheBusy

-----------------------------------------------------------------------------
(* The busy counts. *)

\* The commands of s that have not ended, and the endings of s on their way.
Commanded(q, s) == {i \in DOMAIN q : q[i].s = s /\ q[i].st # "ended"}
Ending(b, s) == {i \in DOMAIN b : b[i].s = s /\ b[i].kind \in Outcomes}

Ends(m, s) == IF m.s = s /\ m.kind \in Outcomes THEN 1 ELSE 0

Owned == \A s \in Sessions : Open(s) => mem[s].busy <= Outstanding(s)

LEMMA OutstandingIs ==
  ASSUME NEW s
  PROVE  /\ Outstanding(s) = Cardinality(Commanded(scripts, s)) + Cardinality(Ending(box, s))
         /\ Outstanding(s)' = Cardinality(Commanded(scripts', s)) + Cardinality(Ending(box', s))
BY DEF Outstanding, Commanded, Ending

LEMMA Finite ==
  ASSUME NEW S, NEW q \in Seq(S), NEW s
  PROVE  /\ IsFiniteSet(Commanded(q, s)) /\ Cardinality(Commanded(q, s)) \in Nat
         /\ IsFiniteSet(Ending(q, s)) /\ Cardinality(Ending(q, s)) \in Nat
<1>1. DOMAIN q = 1..Len(q) /\ Len(q) \in Nat
  OBVIOUS
<1>2. IsFiniteSet(1..Len(q))
  BY <1>1, FS_Interval
<1>3. Commanded(q, s) \in SUBSET (1..Len(q)) /\ Ending(q, s) \in SUBSET (1..Len(q))
  BY <1>1 DEF Commanded, Ending
<1> QED
  BY <1>2, <1>3, FS_Subset, FS_CardinalityType

LEMMA EndingAppended ==
  ASSUME NEW S, NEW b \in Seq(S), NEW m \in S, NEW s
  PROVE  Cardinality(Ending(Append(b, m), s)) = Cardinality(Ending(b, s)) + Ends(m, s)
<1>1. /\ DOMAIN b = 1..Len(b) /\ Len(b) \in Nat
      /\ DOMAIN Append(b, m) = 1..(Len(b) + 1)
      /\ \A i \in 1..Len(b) : Append(b, m)[i] = b[i]
      /\ Append(b, m)[Len(b) + 1] = m
  OBVIOUS
<1>2. IsFiniteSet(Ending(b, s)) /\ Cardinality(Ending(b, s)) \in Nat
  BY Finite
<1>3. CASE m.s = s /\ m.kind \in Outcomes
  <2>1. Ending(Append(b, m), s) = Ending(b, s) \cup {Len(b) + 1}
    BY <1>1, <1>3 DEF Ending
  <2>2. Len(b) + 1 \notin Ending(b, s)
    BY <1>1 DEF Ending
  <2> QED
    BY <1>2, <1>3, <2>1, <2>2, FS_AddElement DEF Ends
<1>4. CASE ~(m.s = s /\ m.kind \in Outcomes)
  <2>1. Ending(Append(b, m), s) = Ending(b, s)
    BY <1>1, <1>4 DEF Ending
  <2> QED
    BY <1>2, <1>4, <2>1 DEF Ends
<1> QED
  BY <1>3, <1>4

LEMMA EndingTaken ==
  ASSUME NEW S, NEW b \in Seq(S), b # <<>>, NEW s
  PROVE  Cardinality(Ending(Tail(b), s)) = Cardinality(Ending(b, s)) - Ends(Head(b), s)
<1> DEFINE Rest == Ending(b, s) \ {1}
           f == [i \in Ending(Tail(b), s) |-> i + 1]
<1>1. /\ DOMAIN b = 1..Len(b) /\ Len(b) \in Nat /\ Len(b) # 0 /\ Head(b) = b[1]
      /\ DOMAIN Tail(b) = 1..(Len(b) - 1)
      /\ \A i \in 1..(Len(b) - 1) : Tail(b)[i] = b[i + 1]
      /\ Tail(b) \in Seq(S)
  OBVIOUS
<1>2. /\ IsFiniteSet(Ending(b, s)) /\ Cardinality(Ending(b, s)) \in Nat
      /\ IsFiniteSet(Ending(Tail(b), s)) /\ Cardinality(Ending(Tail(b), s)) \in Nat
  BY <1>1, Finite
<1>3. f \in Bijection(Ending(Tail(b), s), Rest)
  <2>1. \A i \in Ending(Tail(b), s) : i \in 1..(Len(b) - 1) /\ i + 1 \in Rest
    BY <1>1 DEF Ending
  <2>2. \A j \in Rest : j - 1 \in Ending(Tail(b), s) /\ (j - 1) + 1 = j
    BY <1>1 DEF Ending
  <2>3. f \in [Ending(Tail(b), s) -> Rest]
    BY <2>1
  <2>4. \A i, j \in Ending(Tail(b), s) : f[i] = f[j] => i = j
    BY <2>1
  <2>5. \A j \in Rest : \E i \in Ending(Tail(b), s) : f[i] = j
    BY <2>2
  <2> HIDE DEF f, Rest
  <2>6. IsInjective(f)
    BY <2>3, <2>4 DEF IsInjective
  <2> QED
    BY <2>3, <2>5, <2>6 DEF Bijection, Injection, Surjection
<1> HIDE DEF f
<1>4. Cardinality(Rest) = Cardinality(Ending(Tail(b), s))
  BY <1>2, <1>3, FS_Bijection DEF ExistsBijection
<1>5. 1 \in Ending(b, s) <=> Head(b).s = s /\ Head(b).kind \in Outcomes
  BY <1>1 DEF Ending
<1>6. Cardinality(Rest) = IF 1 \in Ending(b, s) THEN Cardinality(Ending(b, s)) - 1
                          ELSE Cardinality(Ending(b, s))
  BY <1>2, FS_RemoveElement
<1> QED
  BY <1>2, <1>4, <1>5, <1>6 DEF Ends

LEMMA CommandStarted ==
  ASSUME NEW q \in Seq(Commands), NEW c \in Commands, c.st = "runs", NEW s
  PROVE  Cardinality(Commanded(Append(q, c), s))
           = Cardinality(Commanded(q, s)) + IF c.s = s THEN 1 ELSE 0
<1>1. /\ DOMAIN q = 1..Len(q) /\ Len(q) \in Nat
      /\ DOMAIN Append(q, c) = 1..(Len(q) + 1)
      /\ \A i \in 1..Len(q) : Append(q, c)[i] = q[i]
      /\ Append(q, c)[Len(q) + 1] = c
  OBVIOUS
<1>2. IsFiniteSet(Commanded(q, s)) /\ Cardinality(Commanded(q, s)) \in Nat
  BY Finite
<1>3. CASE c.s = s
  <2>1. Commanded(Append(q, c), s) = Commanded(q, s) \cup {Len(q) + 1}
    BY <1>1, <1>3 DEF Commanded
  <2>2. Len(q) + 1 \notin Commanded(q, s)
    BY <1>1 DEF Commanded
  <2> QED
    BY <1>2, <1>3, <2>1, <2>2, FS_AddElement
<1>4. CASE c.s # s
  <2>1. Commanded(Append(q, c), s) = Commanded(q, s)
    BY <1>1, <1>4 DEF Commanded
  <2> QED
    BY <1>2, <1>4, <2>1
<1> QED
  BY <1>3, <1>4

LEMMA CommandRestated ==
  ASSUME NEW q \in Seq(Commands), NEW i \in 1..Len(q), q[i].st # "ended",
         NEW st \in {"killed", "ended"}, NEW s
  PROVE  Cardinality(Commanded([q EXCEPT ![i].st = st], s))
           = Cardinality(Commanded(q, s)) - IF st = "ended" /\ q[i].s = s THEN 1 ELSE 0
<1> DEFINE p == [q EXCEPT ![i].st = st]
<1>1. /\ DOMAIN q = 1..Len(q) /\ Len(q) \in Nat /\ q[i] \in Commands
  BY Nth
<1>2. /\ DOMAIN p = DOMAIN q /\ p[i].s = q[i].s /\ p[i].st = st
      /\ \A j \in DOMAIN q \ {i} : p[j] = q[j]
  BY <1>1 DEF Commands
<1> HIDE DEF p
<1>3. IsFiniteSet(Commanded(q, s)) /\ Cardinality(Commanded(q, s)) \in Nat
  BY Finite
<1>4. CASE st = "ended" /\ q[i].s = s
  <2>1. Commanded(p, s) = Commanded(q, s) \ {i} /\ i \in Commanded(q, s)
    BY <1>1, <1>2, <1>4 DEF Commanded
  <2> QED
    BY <1>3, <1>4, <2>1, FS_RemoveElement DEF p
<1>5. CASE ~(st = "ended" /\ q[i].s = s)
  <2>1. Commanded(p, s) = Commanded(q, s)
    BY <1>1, <1>2, <1>5 DEF Commanded
  <2> QED
    BY <1>3, <1>5, <2>1 DEF p
<1> QED
  BY <1>4, <1>5

LEMMA EndingUnmoved ==
  ASSUME NEW S, NEW b \in Seq(S), NEW m \in S, NEW s, Ends(m, s) = 0
  PROVE  Cardinality(Ending(Append(b, m), s)) = Cardinality(Ending(b, s))
<1>1. Cardinality(Ending(b, s)) \in Nat
  BY Finite
<1> QED
  BY <1>1, EndingAppended

LEMMA Natural ==
  ASSUME LifeInv, LifeInv', NEW s \in Sessions
  PROVE  /\ Outstanding(s) \in Nat /\ Outstanding(s)' \in Nat
         /\ Cardinality(Commanded(scripts, s)) \in Nat /\ Cardinality(Ending(box, s)) \in Nat
         /\ Open(s) => mem[s] \in Records /\ mem[s].busy \in Nat
         /\ Open(s)' => mem'[s].busy \in Nat
<1>1. /\ scripts \in Seq(Commands) /\ box \in Seq(Honest)
      /\ scripts' \in Seq(Commands) /\ box' \in Seq(Honest')
  BY DEF LifeInv, ScriptsOK, BoxOK
<1>2. /\ Cardinality(Commanded(scripts, s)) \in Nat /\ Cardinality(Ending(box, s)) \in Nat
      /\ Cardinality(Commanded(scripts', s)) \in Nat /\ Cardinality(Ending(box', s)) \in Nat
  BY <1>1, Finite
<1>3. Outstanding(s) \in Nat /\ Outstanding(s)' \in Nat
  BY <1>2, OutstandingIs
<1>4. /\ Open(s) => mem[s] \in Records
      /\ Open(s)' => mem'[s] \in Records
  BY DEF LifeInv, MemOK, RecordsOf, Open
<1>5. \A rec \in Records : rec.busy \in Nat
  BY DEF Records
<1> QED
  BY <1>2, <1>3, <1>4, <1>5

LEMMA InBox ==
  ASSUME LifeInv
  PROVE  /\ box \in Seq(Messages) /\ (box # <<>> => Tail(box) \in Seq(Messages))
         /\ \A m \in Asked : m \in Messages /\ m.kind \notin Outcomes /\ m.kind \in Requests
<1>1. box \in Seq(Messages)
  <2>1. Honest \subseteq Messages
    BY DEF Honest
  <2> QED
    BY <2>1 DEF LifeInv, BoxOK
<1>2. \A m \in Asked : m \in Messages /\ m.kind \notin Outcomes /\ m.kind \in Requests
  BY DEF Asked, Messages, Requests, Outcomes
<1> QED
  BY <1>1, <1>2

\* A message of no script leaves or joins the mailbox.
LEMMA SameOutstanding ==
  ASSUME LifeInv, scripts' = scripts, NEW s,
         \/ box' = box
         \/ box # <<>> /\ Head(box).kind \notin Outcomes /\ box' = Tail(box)
         \/ \E m \in Asked : box' = Append(box, m)
         \/ /\ box # <<>> /\ Head(box).kind \notin Outcomes
            /\ \E m \in Asked : box' = Append(Tail(box), m)
  PROVE  Outstanding(s)' = Outstanding(s)
<1>1. /\ box \in Seq(Messages) /\ (box # <<>> => Tail(box) \in Seq(Messages))
      /\ \A m \in Asked : m \in Messages /\ Ends(m, s) = 0
  BY InBox DEF Ends
<1>2. IsFiniteSet(Ending(box, s)) /\ Cardinality(Ending(box, s)) \in Nat
  BY <1>1, Finite
<1>3. box # <<>> /\ Head(box).kind \notin Outcomes =>
        Cardinality(Ending(Tail(box), s)) = Cardinality(Ending(box, s))
  BY <1>1, <1>2, EndingTaken DEF Ends
<1>4. \A m \in Asked : Cardinality(Ending(Append(box, m), s)) = Cardinality(Ending(box, s))
  BY <1>1, <1>2, EndingAppended
<1>5. ASSUME box # <<>>, NEW m \in Asked
      PROVE  Cardinality(Ending(Append(Tail(box), m), s)) = Cardinality(Ending(Tail(box), s))
  <2>1. PICK q \in Seq(Messages) : q = Tail(box)
    BY <1>1, <1>5
  <2>2. Cardinality(Ending(Append(q, m), s)) = Cardinality(Ending(q, s))
    BY <1>1, EndingUnmoved
  <2> QED
    BY <2>1, <2>2
<1>6. Cardinality(Ending(box', s)) = Cardinality(Ending(box, s))
  <2>1. CASE box' = box
    BY <2>1
  <2>2. CASE box # <<>> /\ Head(box).kind \notin Outcomes /\ box' = Tail(box)
    BY <1>3, <2>2
  <2>3. ASSUME NEW m \in Asked, box' = Append(box, m)
        PROVE  Cardinality(Ending(box', s)) = Cardinality(Ending(box, s))
    BY <1>4, <2>3
  <2>4. ASSUME NEW m \in Asked, box # <<>>, Head(box).kind \notin Outcomes,
               box' = Append(Tail(box), m)
        PROVE  Cardinality(Ending(box', s)) = Cardinality(Ending(box, s))
    BY <1>3, <1>5, <2>4
  <2> QED
    BY <2>1, <2>2, <2>3, <2>4
<1> QED
  BY <1>6, OutstandingIs

\* Nobody is busier than before.
Calm(s) == Open(s)' => mem'[s].busy = 0 \/ (Open(s) /\ mem'[s].busy <= mem[s].busy)

LEMMA CalmIfAmended ==
  ASSUME LifeInv, LifeInv', NEW s \in Sessions,
         NEW rec, mem' = [mem EXCEPT ![s] = rec],
         rec = NoSession \/ rec.busy = 0 \/ (Open(s) /\ rec.busy <= mem[s].busy)
  PROVE  \A t \in Sessions : Calm(t)
<1>1. \A t \in Sessions : mem'[t] = IF t = s THEN rec ELSE mem[t]
  BY DEF LifeInv, MemOK
<1>2. \A t \in Sessions : Open(t) => mem[t].busy <= mem[t].busy
  BY Natural
<1> QED
  BY <1>1, <1>2 DEF Calm, Open

LEMMA CalmIfSame ==
  ASSUME LifeInv, LifeInv', mem' = mem
  PROVE  \A t \in Sessions : Calm(t)
<1>1. \A t \in Sessions : Open(t) => mem[t].busy <= mem[t].busy
  BY Natural
<1> QED
  BY <1>1 DEF Calm, Open

LEMMA StaysOwned ==
  ASSUME LifeInv, LifeInv', Owned, \A t \in Sessions : Calm(t),
         \A t \in Sessions : Outstanding(t)' = Outstanding(t)
  PROVE  Owned'
<1>1. \A t \in Sessions : /\ Outstanding(t) \in Nat
                          /\ Open(t) => mem[t].busy \in Nat
                          /\ Open(t)' => mem'[t].busy \in Nat
  BY Natural
<1>2. SUFFICES ASSUME NEW t \in Sessions, Open(t)'
               PROVE  mem'[t].busy <= Outstanding(t)
  BY DEF Owned
<1>3. Open(t) => mem[t].busy <= Outstanding(t)
  BY DEF Owned
<1>4. mem'[t].busy = 0 \/ (Open(t) /\ mem'[t].busy <= mem[t].busy)
  BY <1>2 DEF Calm
<1> QED
  BY <1>1, <1>2, <1>3, <1>4

\* The ending of a script is handled: one less is outstanding, and released.
LEMMA EndHandled ==
  ASSUME LifeInv, LifeInv', Owned, box # <<>>, Head(box).kind \in Outcomes, scripts' = scripts,
         box' = Tail(box) \/ \E m \in Asked : box' = Append(Tail(box), m),
         \/ ~Open(Told) /\ mem' = mem
         \/ mem' = [mem EXCEPT ![Told] = NoSession]
         \/ /\ Open(Told)
            /\ \E rec \in Records : /\ mem' = [mem EXCEPT ![Told] = rec]
                                    /\ rec.busy = Released(mem[Told]).busy
  PROVE  Owned'
<1>1. SUFFICES ASSUME NEW t \in Sessions, Open(t)'
               PROVE  mem'[t].busy <= Outstanding(t)'
  BY DEF Owned
<1>2. /\ Outstanding(t) \in Nat /\ Outstanding(t)' \in Nat
      /\ Open(t) => mem[t] \in Records /\ mem[t].busy \in Nat
      /\ Cardinality(Commanded(scripts, t)) \in Nat /\ Cardinality(Ending(box, t)) \in Nat
  BY Natural
<1>3. /\ box \in Seq(Messages) /\ Tail(box) \in Seq(Messages)
      /\ \A m \in Asked : m \in Messages /\ Ends(m, t) = 0
  BY InBox DEF Ends
<1>4. Cardinality(Ending(Tail(box), t)) \in Nat
  BY <1>3, Finite
<1>5. Cardinality(Ending(box', t)) = Cardinality(Ending(Tail(box), t))
  <2>1. PICK q \in Seq(Messages) : q = Tail(box)
    BY <1>3
  <2>2. ASSUME NEW m \in Asked, box' = Append(q, m)
        PROVE  Cardinality(Ending(box', t)) = Cardinality(Ending(q, t))
    BY <1>3, <2>2, EndingUnmoved
  <2> QED
    BY <2>1, <2>2
<1>6. Outstanding(t)' = Outstanding(t) - IF t = Told THEN 1 ELSE 0
  <2>1. Ends(Head(box), t) = IF t = Told THEN 1 ELSE 0
    BY DEF Ends, Told
  <2>2. Cardinality(Ending(Tail(box), t)) = Cardinality(Ending(box, t)) - Ends(Head(box), t)
    BY <1>3, EndingTaken
  <2> QED
    BY <1>2, <1>5, <2>1, <2>2, OutstandingIs
<1>7. Open(t) => mem[t].busy <= Outstanding(t)
  BY DEF Owned
<1>8. DOMAIN mem = Sessions
  BY DEF LifeInv, MemOK
<1>9. CASE t # Told
  <2>1. mem'[t] = mem[t]
    BY <1>8, <1>9
  <2> QED
    BY <1>1, <1>2, <1>6, <1>7, <1>9, <2>1 DEF Open
<1>10. CASE t = Told
  <2>1. PICK rec \in Records : /\ Open(t) /\ mem' = [mem EXCEPT ![t] = rec]
                               /\ rec.busy = Released(mem[t]).busy
    BY <1>1, <1>8, <1>10 DEF Open
  <2>2. mem'[t].busy = IF mem[t].busy = 0 THEN 0 ELSE mem[t].busy - 1
    BY <1>2, <1>8, <2>1, RecordOps
  <2> QED
    BY <1>2, <1>6, <1>7, <1>10, <2>1, <2>2
<1> QED
  BY <1>9, <1>10

\* A script is begun on behalf of an open session, or refused with an ending.
LEMMA Begun ==
  ASSUME LifeInv, LifeInv', Owned, Told \in Sessions, Open(Told),
         NEW rec \in Records, mem' = [mem EXCEPT ![Told] = rec],
         rec.busy = mem[Told].busy + 1,
         \A t \in Sessions : Outstanding(t)' = Outstanding(t) + IF t = Told THEN 1 ELSE 0
  PROVE  Owned'
<1>1. SUFFICES ASSUME NEW t \in Sessions, Open(t)'
               PROVE  mem'[t].busy <= Outstanding(t)'
  BY DEF Owned
<1>2. /\ Outstanding(t) \in Nat
      /\ Open(t) => mem[t].busy \in Nat
  BY Natural
<1>3. mem'[t] = IF t = Told THEN rec ELSE mem[t]
  BY DEF LifeInv, MemOK
<1>4. Outstanding(t)' = Outstanding(t) + IF t = Told THEN 1 ELSE 0
  OBVIOUS
<1>5. Open(t) => mem[t].busy <= Outstanding(t)
  BY DEF Owned
<1> QED
  BY <1>1, <1>2, <1>3, <1>4, <1>5 DEF Open

LEMMA SpawnCounts ==
  ASSUME LifeInv, LifeInv', box # <<>>, Head(box).kind \notin Outcomes,
         NEW kind \in Outcomes, NEW s \in Sessions,
         NEW m \in Messages, Spawn(kind, s, <<m>>), NEW t \in Sessions
  PROVE  \/ /\ scripts' # scripts
            /\ Outstanding(t)' = Outstanding(t) + IF t = s THEN 1 ELSE 0
         \/ /\ scripts' = scripts
            /\ Outstanding(t)' = Outstanding(t) + Ends(m, t)
<1> DEFINE c == [kind |-> kind, s |-> s, st |-> "runs"]
<1>1. /\ Cardinality(Commanded(scripts, t)) \in Nat /\ Cardinality(Ending(box, t)) \in Nat
  BY Natural
<1>2. box \in Seq(Messages) /\ Tail(box) \in Seq(Messages)
  BY InBox
<1>3. Cardinality(Ending(Tail(box), t)) = Cardinality(Ending(box, t))
  BY <1>1, <1>2, EndingTaken DEF Ends
<1>4. CASE box' = Tail(box) /\ scripts' = Append(scripts, c)
  <2>1. c \in Commands /\ c.st = "runs" /\ c.s = s
    BY DEF Commands
  <2>2. scripts \in Seq(Commands)
    BY DEF LifeInv, ScriptsOK
  <2> HIDE DEF c
  <2>3. scripts' # scripts
    <3>1. Len(scripts') = Len(scripts) + 1 /\ Len(scripts) \in Nat
      BY <1>4, <2>1, <2>2
    <3> QED
      BY <3>1
  <2>4. Cardinality(Commanded(scripts', t))
          = Cardinality(Commanded(scripts, t)) + IF s = t THEN 1 ELSE 0
    BY <1>4, <2>1, <2>2, CommandStarted
  <2> QED
    BY <1>1, <1>3, <1>4, <2>3, <2>4, OutstandingIs
<1>5. CASE box' = Tail(box) \o <<m>> /\ scripts' = scripts
  <2>1. box' = Append(Tail(box), m)
    BY <1>2, <1>5
  <2>2. Cardinality(Ending(box', t)) = Cardinality(Ending(Tail(box), t)) + Ends(m, t)
    BY <1>2, <2>1, EndingAppended
  <2>3. Ends(m, t) \in Nat
    BY DEF Ends
  <2> QED
    BY <1>1, <1>3, <1>5, <2>2, <2>3, OutstandingIs
<1> QED
  BY <1>4, <1>5 DEF Spawn

LEMMA TeardownOwned ==
  ASSUME LifeInv, LifeInv', Owned, box # <<>>, Head(box).kind \notin Outcomes, Open(Told),
         NEW kind \in Outcomes, BeginTeardown(kind, Told)
  PROVE  Owned'
<1>1. Told \in Sessions /\ mem[Told] \in Records
  BY Taken, Natural
<1>2. PICK rec \in Records : /\ rec = Said([mem[Told] EXCEPT !.busy = @ + 1])
                             /\ rec.busy = mem[Told].busy + 1
  <2>1. PICK one \in Records : /\ one = [mem[Told] EXCEPT !.busy = @ + 1]
                               /\ one.busy = mem[Told].busy + 1
    BY <1>1, RecordOps
  <2>2. Said(one) \in Records /\ Said(one).busy = one.busy
    BY RecordOps
  <2> QED
    BY <2>1, <2>2
<1>3. mem' = [mem EXCEPT ![Told] = rec]
  BY <1>2 DEF BeginTeardown, AmendAndSave, Amend
<1>4. /\ Finish(kind, Told, FALSE) \in Messages
      /\ \A t : Ends(Finish(kind, Told, FALSE), t) = IF t = Told THEN 1 ELSE 0
  BY <1>1 DEF Finish, Messages, Ends
<1>5. Spawn(kind, Told, <<Finish(kind, Told, FALSE)>>)
  BY DEF BeginTeardown
<1>6. \A t \in Sessions : Outstanding(t)' = Outstanding(t) + IF t = Told THEN 1 ELSE 0
  BY <1>1, <1>4, <1>5, SpawnCounts
<1> QED
  BY <1>1, <1>2, <1>3, <1>6, Begun

LEMMA UserOwns ==
  ASSUME LifeInv, LifeInv', Owned, NEW s \in Sessions, User(s)
  PROVE  Owned'
<1>1. box' = box /\ scripts' = scripts
  BY DEF User, CreateSession, ForkFromEntry, SubmitMessage, LoadSession, EscConfirm,
         RerunSetup, Teardown, Key, TreeKey, idle
<1>2. \A t \in Sessions : Outstanding(t)' = Outstanding(t)
  BY <1>1, SameOutstanding
<1>3. \A t \in Sessions : Calm(t)
  <2>1. CASE CreateSession(s)
    BY <2>1, CalmIfAmended, MadeRecords DEF CreateSession, Amend
  <2>2. CASE EscConfirm(s)
    <3>1. mem[s] \in Records
      BY <2>2, Natural DEF EscConfirm
    <3>2. [mem[s] EXCEPT !.busy = 0, !.turn = FALSE, !.queued = 0].busy = 0
      BY <3>1, RecordOps
    <3> QED
      BY <2>2, <3>2, CalmIfAmended DEF EscConfirm, Amend
  <2>3. ~CreateSession(s) /\ ~EscConfirm(s) => mem' = mem
    BY DEF User, ForkFromEntry, SubmitMessage, LoadSession, RerunSetup, Teardown, Key, TreeKey
  <2> QED
    BY <2>1, <2>2, <2>3, CalmIfSame
<1> QED
  BY <1>2, <1>3, StaysOwned

LEMMA PersistenceOwns ==
  ASSUME LifeInv, LifeInv', Owned,
         \/ HandlePushChatEntry \/ HandlePersistSession \/ HandleMarkSessionInteracted
         \/ HandleEnqueueUserMessage \/ OnStreamCompleted \/ OnLoadRequested
         \/ OnSessionForkRequested
  PROVE  Owned'
<1>1. box # <<>> /\ box' = Tail(box) /\ scripts' = scripts
  BY DEF HandlePushChatEntry, HandlePersistSession, HandleMarkSessionInteracted,
         HandleEnqueueUserMessage, OnStreamCompleted, OnLoadRequested,
         OnSessionForkRequested, Heads, Done, idle
<1>2. Head(box).kind \notin Outcomes
  BY DEF HandlePushChatEntry, HandlePersistSession, HandleMarkSessionInteracted,
         HandleEnqueueUserMessage, OnStreamCompleted, OnLoadRequested,
         OnSessionForkRequested, Heads, Outcomes
<1>3. \A t \in Sessions : Outstanding(t)' = Outstanding(t)
  BY <1>1, <1>2, SameOutstanding
<1>4. Told \in Sessions
  BY <1>1, Taken
<1>5. /\ GetOrCreate(Told) \in Records
      /\ GetOrCreate(Told).busy = 0 \/ (Open(Told) /\ GetOrCreate(Told).busy <= mem[Told].busy)
  <2>1. CASE Open(Told)
    BY <1>4, <2>1, Natural DEF GetOrCreate
  <2>2. CASE ~Open(Told)
    BY <2>2, MadeRecords DEF GetOrCreate
  <2> QED
    BY <2>1, <2>2
<1>6. ASSUME NEW rec \in Records, Amend(Told, rec),
             rec.busy = 0 \/ (Open(Told) /\ rec.busy <= mem[Told].busy)
      PROVE  \A t \in Sessions : Calm(t)
  BY <1>4, <1>6, CalmIfAmended DEF Amend
<1>7. PICK said \in Records : /\ said = Said(GetOrCreate(Told))
                              /\ said.busy = GetOrCreate(Told).busy
  BY <1>5, RecordOps
<1>8. \A t \in Sessions : Calm(t)
  <2>1. CASE UNCHANGED mem
    BY <2>1, CalmIfSame
  <2>2. CASE HandlePushChatEntry
    BY <1>5, <1>6, <1>7, <2>2 DEF HandlePushChatEntry, AmendAndSave
  <2>3. CASE HandleMarkSessionInteracted /\ Open(Told)
    <3>1. mem[Told] \in Records /\ mem[Told].busy \in Nat
      BY <1>4, <2>3, Natural
    <3>2. PICK rec \in Records : /\ rec = [mem[Told] EXCEPT !.kept = TRUE]
                                 /\ rec.busy = mem[Told].busy
      BY <3>1, RecordOps
    <3>3. rec.busy <= mem[Told].busy
      BY <3>1, <3>2
    <3> QED
      BY <1>6, <2>3, <3>2, <3>3 DEF HandleMarkSessionInteracted, AmendAndSave
  <2>4. CASE HandleEnqueueUserMessage /\ ~GetOrCreate(Told).turn
    <3>1. PICK rec \in Records : /\ rec = [said EXCEPT !.turn = TRUE]
                                 /\ rec.busy = said.busy
      BY RecordOps
    <3> QED
      BY <1>5, <1>6, <1>7, <2>4, <3>1 DEF HandleEnqueueUserMessage, AmendAndSave
  <2>5. CASE OnStreamCompleted
    <3>1. PICK rec \in Records : /\ rec = [said EXCEPT !.turn = FALSE]
                                 /\ rec.busy = said.busy
      BY RecordOps
    <3>2. PICK n \in Nat : Amend(Told, Requeued(rec, n))
      BY <1>7, <2>5, <3>1, TurnOver DEF AmendAndSave
    <3>3. Requeued(rec, n) \in Records /\ Requeued(rec, n).busy = rec.busy
      BY QueueOps
    <3> QED
      BY <1>5, <1>6, <1>7, <3>1, <3>2, <3>3
  <2>6. CASE HandleEnqueueUserMessage /\ GetOrCreate(Told).turn
    <3>1. PICK n \in Nat : Amend(Told, Requeued(GetOrCreate(Told), n))
      BY <2>6, TextQueued
    <3>2. /\ Requeued(GetOrCreate(Told), n) \in Records
          /\ Requeued(GetOrCreate(Told), n).busy = GetOrCreate(Told).busy
      BY <1>5, QueueOps
    <3> QED
      BY <1>5, <1>6, <3>1, <3>2
  <2>7. CASE OnLoadRequested /\ Stored(Told)
    <3>1. store[Told] \in Rows
      BY <1>4, <2>7, Found DEF RowsOf
    <3> QED
      BY <1>6, <2>7, <3>1, MadeRecords DEF OnLoadRequested, AmendAndSave
  <2>8. CASE OnSessionForkRequested /\ Stored(Parent[Told])
    <3>1. Parent[Told] \in Sessions
      BY <1>4, Found
    <3>2. store[Parent[Told]] \in Rows
      BY <2>8, <3>1, Found DEF RowsOf
    <3> QED
      BY <1>6, <2>8, <3>2, MadeRecords DEF OnSessionForkRequested, AmendAndSave
  <2>9. /\ HandlePersistSession => UNCHANGED mem
        /\ HandleMarkSessionInteracted /\ ~Open(Told) => UNCHANGED mem
        /\ OnLoadRequested /\ ~Stored(Told) => UNCHANGED mem
        /\ OnSessionForkRequested /\ ~Stored(Parent[Told]) => UNCHANGED mem
    BY DEF HandlePersistSession, HandleMarkSessionInteracted, OnLoadRequested,
           OnSessionForkRequested
  <2> QED
    BY <2>1, <2>2, <2>3, <2>4, <2>5, <2>6, <2>7, <2>8, <2>9
<1> QED
  BY <1>3, <1>8, StaysOwned

LEMMA SetupOwns ==
  ASSUME LifeInv, LifeInv', Owned, HandleRunSessionSetup
  PROVE  Owned'
<1>1. /\ box # <<>> /\ Head(box).kind \notin Outcomes /\ "setup" \in Outcomes
      /\ "PushChatEntry" \in Requests
  BY DEF HandleRunSessionSetup, Heads, Outcomes, Requests
<1>2. Told \in Sessions
  BY <1>1, Taken
<1>3. /\ Message("PushChatEntry", Told) \in Messages
      /\ \A t : Ends(Message("PushChatEntry", Told), t) = 0
  BY <1>1, <1>2, InBox DEF Message, Asked, Ends, Outcomes
<1>4. Spawn("setup", Told, <<Message("PushChatEntry", Told)>>)
  BY DEF HandleRunSessionSetup
<1>5. \A t \in Sessions :
        \/ /\ scripts' # scripts
           /\ Outstanding(t)' = Outstanding(t) + IF t = Told THEN 1 ELSE 0
        \/ scripts' = scripts /\ Outstanding(t)' = Outstanding(t)
  <2> TAKE t \in Sessions
  <2>1. Outstanding(t) \in Nat
    BY Natural
  <2> QED
    BY <1>1, <1>2, <1>3, <1>4, <2>1, SpawnCounts
<1>6. CASE Open(Told) /\ scripts' # scripts
  <2>1. mem[Told] \in Records
    BY <1>2, <1>6, Natural
  <2>2. PICK rec \in Records : /\ rec = [mem[Told] EXCEPT !.busy = @ + 1]
                               /\ rec.busy = mem[Told].busy + 1
    BY <2>1, RecordOps
  <2> QED
    BY <1>2, <1>5, <1>6, <2>2, Begun DEF HandleRunSessionSetup, Amend
<1>7. CASE ~(Open(Told) /\ scripts' # scripts)
  <2>1. mem' = mem
    BY <1>7 DEF HandleRunSessionSetup
  <2>2. \A t \in Sessions : /\ Outstanding(t) \in Nat
                            /\ Outstanding(t)' = Outstanding(t)
                                 \/ Outstanding(t)' = Outstanding(t) + 1
                            /\ Open(t) => mem[t].busy \in Nat
    BY <1>5, Natural
  <2> QED
    BY <2>1, <2>2 DEF Owned, Open
<1> QED
  BY <1>6, <1>7

LEMMA FinishOwns ==
  ASSUME LifeInv, LifeInv', Owned, HandleFinishSessionSetup \/ HandleFinishSessionTeardown
  PROVE  Owned'
<1>1. box # <<>> /\ Head(box).kind \in Outcomes /\ scripts' = scripts
  BY DEF HandleFinishSessionSetup, HandleFinishSessionTeardown, Heads, Outcomes
<1>2. Told \in Sessions
  BY <1>1, Taken
<1>3. Message("PushChatEntry", Told) \in Asked
  BY <1>2 DEF Message, Asked, Requests
<1>4. box' = Tail(box) \/ \E m \in Asked : box' = Append(Tail(box), m)
  BY <1>3 DEF HandleFinishSessionSetup, HandleFinishSessionTeardown, Done
<1>5. Open(Told) =>
        \E rel, up, down \in Records :
          /\ rel = Released(mem[Told]) /\ up = AfterSetup(rel) /\ down = AfterTeardown(rel)
          /\ up.busy = rel.busy /\ down.busy = rel.busy
  <2> HAVE Open(Told)
  <2>1. mem[Told] \in Records
    BY <1>2, Natural
  <2>2. PICK rel \in Records : rel = Released(mem[Told])
    BY <2>1, RecordOps
  <2> QED
    BY <2>2, ScriptOps
<1>6. \/ ~Open(Told) /\ mem' = mem
      \/ mem' = [mem EXCEPT ![Told] = NoSession]
      \/ /\ Open(Told)
         /\ \E rec \in Records : /\ mem' = [mem EXCEPT ![Told] = rec]
                                 /\ rec.busy = Released(mem[Told]).busy
  <2>1. CASE ~Open(Told)
    BY <2>1 DEF HandleFinishSessionSetup, HandleFinishSessionTeardown
  <2>2. CASE Open(Told)
    <3>1. PICK rel, up, down \in Records :
            /\ rel = Released(mem[Told]) /\ up = AfterSetup(rel) /\ down = AfterTeardown(rel)
            /\ up.busy = rel.busy /\ down.busy = rel.busy
      BY <1>5, <2>2
    <3>2. \/ mem' = [mem EXCEPT ![Told] = NoSession]
          \/ mem' = [mem EXCEPT ![Told] = rel]
          \/ mem' = [mem EXCEPT ![Told] = up]
          \/ mem' = [mem EXCEPT ![Told] = down]
      BY <2>2, <3>1 DEF HandleFinishSessionSetup, HandleFinishSessionTeardown, Amend,
                        AmendAndSave, PutAway
    <3> QED
      BY <2>2, <3>1, <3>2
  <2> QED
    BY <2>1, <2>2
<1> QED
  BY <1>1, <1>4, <1>6, EndHandled

LEMMA RequestOwns ==
  ASSUME LifeInv, LifeInv', Owned,
         \/ HandleRunSessionTeardown \/ HandleCloseSession \/ HandleArchiveSession
         \/ HandleArchiveSessionTree \/ HandleTeardownSessionTree
  PROVE  Owned'
<1>1. box # <<>> /\ Head(box).kind \notin Outcomes
  BY DEF HandleRunSessionTeardown, HandleCloseSession, HandleArchiveSession,
         HandleArchiveSessionTree, HandleTeardownSessionTree, Heads, Outcomes
<1>2. Told \in Sessions
  BY <1>1, Taken
<1>3. ASSUME NEW kind \in Outcomes, Open(Told), BeginTeardown(kind, Told)
      PROVE  Owned'
  BY <1>1, <1>3, TeardownOwned
<1>4. ASSUME Done, scripts' = scripts, mem' = mem \/ mem' = [mem EXCEPT ![Told] = NoSession]
      PROVE  Owned'
  <2>1. \A t \in Sessions : Outstanding(t)' = Outstanding(t)
    BY <1>1, <1>4, SameOutstanding DEF Done
  <2>2. \A t \in Sessions : Calm(t)
    BY <1>2, <1>4, CalmIfSame, CalmIfAmended
  <2> QED
    BY <2>1, <2>2, StaysOwned
<1>5. \/ \E kind \in Outcomes : Open(Told) /\ BeginTeardown(kind, Told)
      \/ /\ Done /\ scripts' = scripts
         /\ mem' = mem \/ mem' = [mem EXCEPT ![Told] = NoSession]
  <2>1. {"None", "Close", "CloseTree"} \subseteq Outcomes
    BY DEF Outcomes
  <2>2. CASE HandleRunSessionTeardown
    BY <2>1, <2>2 DEF HandleRunSessionTeardown, Own, idle
  <2>3. CASE HandleCloseSession
    BY <2>1, <2>3 DEF HandleCloseSession, Due, Own, PutAway, idle
  <2>4. CASE HandleArchiveSession
    BY <2>4 DEF HandleArchiveSession, PutAway, idle
  <2>5. CASE HandleArchiveSessionTree
    BY <2>5 DEF HandleArchiveSessionTree
  <2>6. CASE HandleTeardownSessionTree
    BY <2>1, <2>6 DEF HandleTeardownSessionTree, idle
  <2> QED
    BY <2>2, <2>3, <2>4, <2>5, <2>6
<1> QED
  BY <1>3, <1>4, <1>5

LEMMA CancelOwns ==
  ASSUME LifeInv, LifeInv', Owned, HandleCancelLifecycleCommand
  PROVE  Owned'
<1>1. box # <<>> /\ Head(box).kind \notin Outcomes /\ box' = Tail(box) /\ mem' = mem
  BY DEF HandleCancelLifecycleCommand, Heads, Done, Outcomes
<1>2. \A t \in Sessions : Calm(t)
  BY <1>1, CalmIfSame
<1>3. CASE scripts' = scripts
  <2>1. \A t \in Sessions : Outstanding(t)' = Outstanding(t)
    BY <1>1, <1>3, SameOutstanding
  <2> QED
    BY <1>2, <2>1, StaysOwned
<1>4. CASE child # 0 /\ Works(child) /\ scripts' = [scripts EXCEPT ![child].st = "killed"]
  <2>1. scripts \in Seq(Commands) /\ child \in 0..Len(scripts)
    BY DEF LifeInv, ScriptsOK
  <2>2. child \in 1..Len(scripts) /\ scripts[child].st # "ended"
    BY <1>4, <2>1 DEF Works
  <2>3. \A t \in Sessions : Outstanding(t)' = Outstanding(t)
    <3> TAKE t \in Sessions
    <3>1. /\ Cardinality(Commanded(scripts, t)) \in Nat /\ Cardinality(Ending(box, t)) \in Nat
      BY Natural
    <3>2. Cardinality(Commanded(scripts', t)) = Cardinality(Commanded(scripts, t))
      <4>1. Cardinality(Commanded(scripts', t))
              = Cardinality(Commanded(scripts, t))
                - IF "killed" = "ended" /\ scripts[child].s = t THEN 1 ELSE 0
        BY <1>4, <2>1, <2>2, CommandRestated
      <4> QED
        BY <3>1, <4>1
    <3>3. Cardinality(Ending(box', t)) = Cardinality(Ending(box, t))
      BY <1>1, <3>1, InBox, EndingTaken DEF Ends
    <3> QED
      BY <3>2, <3>3, OutstandingIs
  <2> QED
    BY <1>2, <2>3, StaysOwned
<1> QED
  BY <1>3, <1>4 DEF HandleCancelLifecycleCommand

LEMMA ArchiveNextOwns ==
  ASSUME LifeInv, LifeInv', Owned, NEW s \in archiving, ArchiveNext(s)
  PROVE  Owned'
<1>1. /\ box' = box /\ scripts' = scripts /\ s \in Sessions
      /\ mem' = [mem EXCEPT ![s] = NoSession]
  BY DEF ArchiveNext, PutAway, LifeInv, WorldOK
<1>2. \A t \in Sessions : Outstanding(t)' = Outstanding(t)
  BY <1>1, SameOutstanding
<1>3. \A t \in Sessions : Calm(t)
  BY <1>1, CalmIfAmended
<1> QED
  BY <1>2, <1>3, StaysOwned

LEMMA TasksOwn ==
  ASSUME LifeInv, LifeInv', Owned, Tasks
  PROVE  Owned'
<1>1. mem' = mem
  BY DEF Tasks, BridgePublish, ScriptReportsKill, ScriptEnds, TurnEnds
<1>2. \A t \in Sessions : Calm(t)
  BY <1>1, CalmIfSame
<1>3. ASSUME NEW m \in BagToSet(bridge), BridgePublish(m)
      PROVE  Owned'
  <2>1. m \in Asked
    BY <1>3, Removed DEF BridgePublish, LifeInv
  <2>2. \A t \in Sessions : Outstanding(t)' = Outstanding(t)
    BY <1>3, <2>1, SameOutstanding DEF BridgePublish, idle
  <2> QED
    BY <1>2, <2>2, StaysOwned
<1>4. ASSUME NEW s \in talking, TurnEnds(s)
      PROVE  Owned'
  <2>1. Message("StreamCompleted", s) \in Asked
    BY <1>4 DEF Message, Asked, Requests, LifeInv, WorldOK
  <2>2. \A t \in Sessions : Outstanding(t)' = Outstanding(t)
    BY <1>4, <2>1, SameOutstanding DEF TurnEnds
  <2> QED
    BY <1>2, <2>2, StaysOwned
<1>5. ASSUME NEW i \in DOMAIN scripts, NEW ok \in BOOLEAN,
             scripts[i].st # "ended", scripts' = [scripts EXCEPT ![i].st = "ended"],
             box' = Append(box, Finish(scripts[i].kind, scripts[i].s, ok))
      PROVE  Owned'
  <2>1. scripts \in Seq(Commands) /\ i \in 1..Len(scripts)
    BY DEF LifeInv, ScriptsOK
  <2>2. scripts[i].kind \in Outcomes /\ scripts[i].s \in Sessions
    BY <2>1, Nth, Restated
  <2>3. PICK m \in Messages : /\ m = Finish(scripts[i].kind, scripts[i].s, ok)
                              /\ m.s = scripts[i].s /\ m.kind \in Outcomes
    <3>1. /\ Finish(scripts[i].kind, scripts[i].s, ok) \in Messages
          /\ Finish(scripts[i].kind, scripts[i].s, ok).s = scripts[i].s
          /\ Finish(scripts[i].kind, scripts[i].s, ok).kind = scripts[i].kind
      BY <2>2 DEF Finish, Messages
    <3> QED
      BY <2>2, <3>1
  <2>4. \A t \in Sessions : Outstanding(t)' = Outstanding(t)
    <3> TAKE t \in Sessions
    <3>1. /\ Cardinality(Commanded(scripts, t)) \in Nat /\ Cardinality(Ending(box, t)) \in Nat
      BY Natural
    <3>2. Cardinality(Commanded(scripts', t))
            = Cardinality(Commanded(scripts, t)) - IF scripts[i].s = t THEN 1 ELSE 0
      BY <1>5, <2>1, CommandRestated
    <3>3. Cardinality(Ending(box', t)) = Cardinality(Ending(box, t)) + Ends(m, t)
      BY <1>5, <2>3, InBox, EndingAppended
    <3>4. Ends(m, t) = IF scripts[i].s = t THEN 1 ELSE 0
      BY <2>3 DEF Ends
    <3> QED
      BY <3>1, <3>2, <3>3, <3>4, OutstandingIs
  <2> QED
    BY <1>2, <2>4, StaysOwned
<1>6. ASSUME NEW i \in DOMAIN scripts,
             ScriptReportsKill(i) \/ \E ok \in BOOLEAN : ScriptEnds(i, ok)
      PROVE  Owned'
  BY <1>5, <1>6 DEF ScriptReportsKill, ScriptEnds, Works
<1> QED
  BY <1>3, <1>4, <1>6 DEF Tasks

LEMMA QueueOwns ==
  ASSUME LifeInv, LifeInv', Owned, QueueActor
  PROVE  Owned'
<1>1. ASSUME NEW s \in Sessions, NEW rec \in Records,
             rec.busy = GetOrCreate(s).busy, Amend(s, rec)
      PROVE  \A t \in Sessions : Calm(t)
  <2>1. rec.busy = 0 \/ (Open(s) /\ rec.busy <= mem[s].busy)
    <3>1. CASE Open(s)
      BY <1>1, <3>1, Natural DEF GetOrCreate
    <3>2. CASE ~Open(s)
      BY <1>1, <3>2, MadeRecords DEF GetOrCreate
    <3> QED
      BY <3>1, <3>2
  <2> QED
    BY <1>1, <2>1, CalmIfAmended DEF Amend
<1>2. ASSUME NEW s \in Sessions, PopOnIdle(s)
      PROVE  Owned'
  <2>1. PICK n \in Nat : Amend(s, Requeued(GetOrCreate(s), n))
    BY <1>2, PoppedIs
  <2>2. /\ Requeued(GetOrCreate(s), n) \in Records
        /\ Requeued(GetOrCreate(s), n).busy = GetOrCreate(s).busy
    BY <1>2, PoppedIs, QueueOps
  <2>3. \A t \in Sessions : Outstanding(t)' = Outstanding(t)
    BY <1>2, SameOutstanding DEF PopOnIdle
  <2> QED
    BY <1>1, <2>1, <2>2, <2>3, StaysOwned
<1>3. CASE DispatchPopped
  <2>1. /\ hand \in Sessions /\ GetOrCreate(hand) \in Records
        /\ scripts' = scripts /\ box' = Append(box, Message("PersistSession", hand))
    BY <1>3, Found DEF DispatchPopped, LifeInv, WorldOK, RecordsOf
  <2>2. Message("PersistSession", hand) \in Asked
    BY <2>1 DEF Message, Asked, Requests
  <2>3. PICK said \in Records : /\ said = Said(GetOrCreate(hand))
                                /\ said.busy = GetOrCreate(hand).busy
    BY <2>1, RecordOps
  <2>4. PICK rec \in Records : /\ rec = [said EXCEPT !.turn = TRUE]
                               /\ rec.busy = said.busy
    BY RecordOps
  <2>5. Amend(hand, rec)
    BY <1>3, <2>3, <2>4 DEF DispatchPopped
  <2>6. \A t \in Sessions : Outstanding(t)' = Outstanding(t)
    BY <2>1, <2>2, SameOutstanding
  <2> QED
    BY <1>1, <2>1, <2>3, <2>4, <2>5, <2>6, StaysOwned
<1> QED
  BY <1>2, <1>3 DEF QueueActor

LEMMA CrashOwns ==
  ASSUME LifeInv, LifeInv', CrashAndRestart
  PROVE  Owned'
<1>1. SUFFICES ASSUME NEW t \in Sessions, Open(t)'
               PROVE  mem'[t].busy <= Outstanding(t)'
  BY DEF Owned
<1>2. mem'[t] = FromRow(store[t]) /\ Stored(t)
  BY <1>1 DEF CrashAndRestart, Open
<1>3. store[t] \in Rows
  BY <1>2, Found DEF RowsOf
<1>4. mem'[t].busy = 0
  BY <1>2, <1>3, MadeRecords
<1>5. Outstanding(t)' \in Nat
  BY Natural
<1> QED
  BY <1>4, <1>5

LEMMA OwnedStep ==
  ASSUME LifeInv, LifeInv', Owned, [Next]_vars
  PROVE  Owned'
<1>1. CASE UNCHANGED vars
  <2>1. mem' = mem /\ box' = box /\ scripts' = scripts
    BY <1>1 DEF vars
  <2>2. \A t \in Sessions : Outstanding(t)' = Outstanding(t)
    BY <2>1, SameOutstanding
  <2> QED
    BY <2>1, <2>2, CalmIfSame, StaysOwned
<1>2. CASE SessionActor
  BY <1>2, PersistenceOwns, SetupOwns, FinishOwns, RequestOwns, CancelOwns, ArchiveNextOwns
     DEF SessionActor
<1> QED
  BY <1>1, <1>2, UserOwns, QueueOwns, TasksOwn, CrashOwns DEF Next

\* Whatever is cancelled, killed, closed, loaded again or restarted meanwhile, the busy
\* count of a session never exceeds the commands and endings that will release it.
THEOREM NeverBusyForGood == Spec => []BusyIsOwned
<1>1. Init => Owned
  BY DEF Init, Owned, Open
<1>2. LifeInv /\ LifeInv' /\ Owned /\ [Next]_vars => Owned'
  BY OwnedStep
<1>3. LifeInv /\ Owned => BusyIsOwned
  <2> SUFFICES ASSUME LifeInv, Owned, NEW s \in Sessions, Open(s)
               PROVE  mem[s].busy \in 0..Outstanding(s)
    BY DEF BusyIsOwned
  <2>1. mem[s].busy \in Nat
    BY DEF LifeInv, MemOK, RecordsOf, Records, Open
  <2>2. scripts \in Seq(Commands) /\ box \in Seq(Honest)
    BY DEF LifeInv, ScriptsOK, BoxOK
  <2>3. Outstanding(s) \in Nat
    BY <2>2, Finite, OutstandingIs
  <2>4. mem[s].busy <= Outstanding(s)
    BY DEF Owned
  <2> QED
    BY <2>1, <2>3, <2>4
<1> QED
  BY <1>1, <1>2, <1>3, LifeInvariant, PTL DEF Spec

-----------------------------------------------------------------------------
(* At rest the store is what memory is.                                       *)
(*                                                                            *)
(* Whatever changes what a row would hold either saves at once or has a       *)
(* message on its way whose handler saves; and a row that is not archived is  *)
(* that of a session memory keeps.                                            *)

\* A chat entry for s is on its way, or the wish to save it has reached the mailbox:
\* the handler will save the session.
Saving(s) ==
  \/ \E i \in DOMAIN box : box[i].kind \in {"PushChatEntry", "PersistSession"} /\ box[i].s = s
  \/ Message("PushChatEntry", s) \in DOMAIN bridge

Safe(s) ==
  /\ Kept(s) => Saving(s) \/ (Stored(s) /\ store[s] = Row(mem[s], FALSE))
  /\ Stored(s) /\ ~store[s].archived => Kept(s)
AllSafe == \A s \in Sessions : Safe(s)

\* Who is kept and what a row would hold, after each change of a record.
Alike(r, rec) == r \in Records /\ r.kept = rec.kept /\ Row(r, FALSE) = Row(rec, FALSE)

LEMMA RecordRows ==
  ASSUME NEW rec \in Records
  PROVE  /\ rec.kept \in BOOLEAN /\ Alike(rec, rec)
         /\ Said(rec) \in Records /\ Said(rec).kept = rec.kept
         /\ Alike(Released(rec), rec)
         /\ Alike([rec EXCEPT !.busy = @ + 1], rec)
         /\ Alike([rec EXCEPT !.busy = 0, !.turn = FALSE, !.queued = 0], rec)
         /\ \A b \in BOOLEAN : Alike([rec EXCEPT !.turn = b], rec)
         /\ \A n \in Nat : Alike(Requeued(rec, n), rec)
         /\ [rec EXCEPT !.kept = TRUE] \in Records /\ [rec EXCEPT !.kept = TRUE].kept
         /\ AfterSetup(rec) \in Records /\ AfterSetup(rec).kept = rec.kept
         /\ AfterTeardown(rec) \in Records /\ AfterTeardown(rec).kept = rec.kept
         /\ \A archived \in BOOLEAN : /\ Row(rec, archived) \in Rows
                                      /\ Row(rec, archived).archived = archived
<1> USE DEF Records
<1>1. rec.kept \in BOOLEAN /\ Alike(rec, rec)
  BY DEF Alike
<1>2. Said(rec) \in Records /\ Said(rec).kept = rec.kept
  BY DEF Said
<1>3. Alike(Released(rec), rec)
  BY DEF Alike, Released, Row
<1>4. Alike([rec EXCEPT !.busy = @ + 1], rec)
  BY DEF Alike, Row
<1>5. Alike([rec EXCEPT !.busy = 0, !.turn = FALSE, !.queued = 0], rec)
  BY DEF Alike, Row
<1>6. \A b \in BOOLEAN : Alike([rec EXCEPT !.turn = b], rec)
  BY DEF Alike, Row
<1>7. \A n \in Nat : Alike(Requeued(rec, n), rec)
  BY DEF Alike, Requeued, Row
<1>8. [rec EXCEPT !.kept = TRUE] \in Records /\ [rec EXCEPT !.kept = TRUE].kept
  OBVIOUS
<1>9. /\ AfterSetup(rec) \in Records /\ AfterSetup(rec).kept = rec.kept
      /\ AfterTeardown(rec) \in Records /\ AfterTeardown(rec).kept = rec.kept
  BY DEF AfterSetup, AfterTeardown
<1>10. \A archived \in BOOLEAN : /\ Row(rec, archived) \in Rows
                                 /\ Row(rec, archived).archived = archived
  BY DEF Row, Rows
<1> QED
  BY <1>1, <1>2, <1>3, <1>4, <1>5, <1>6, <1>7, <1>8, <1>9, <1>10

\* A row that is not archived is that of the session it is loaded as.
LEMMA RowsLoaded ==
  /\ Created \in Records /\ Created.kept /\ Ghost \in Records /\ ~Ghost.kept
  /\ \A row \in Rows : /\ FromRow(row) \in Records /\ FromRow(row).kept
                       /\ ~row.archived => Row(FromRow(row), FALSE) = row
<1>1. Created \in Records /\ Created.kept /\ Ghost \in Records /\ ~Ghost.kept
  BY DEF Created, Ghost, Records
<1>2. ASSUME NEW row \in Rows
      PROVE  /\ FromRow(row).kept /\ FromRow(row).script = row.script
             /\ FromRow(row).ghost = row.ghost /\ FromRow(row).size = row.size
  BY DEF FromRow, Created, Rows
<1>3. ASSUME NEW row \in Rows, ~row.archived
      PROVE  Row(FromRow(row), FALSE) = row
  <2>1. row = [script |-> row.script, ghost |-> row.ghost, size |-> row.size, archived |-> FALSE]
    BY <1>3 DEF Rows
  <2> QED
    BY <1>2, <2>1 DEF Row
<1> QED
  BY <1>1, <1>2, <1>3, MadeRecords

\* No session and no row is the absence of one.
LEMMA Present ==
  ASSUME LifeInv, NEW s \in Sessions
  PROVE  /\ Open(s) => mem[s] \in Records
         /\ GetOrCreate(s) \in Records /\ (Kept(s) => GetOrCreate(s).kept)
         /\ Stored(s) => store[s] \in Rows
         /\ DOMAIN mem = Sessions /\ DOMAIN store = Sessions
         /\ mem = [mem EXCEPT ![s] = mem[s]]
<1>1. /\ Open(s) => mem[s] \in Records
      /\ Stored(s) => store[s] \in Rows
  BY Found DEF RecordsOf, RowsOf
<1>2. GetOrCreate(s) \in Records /\ (Kept(s) => GetOrCreate(s).kept)
  BY <1>1, RowsLoaded DEF GetOrCreate, Kept
<1>3. /\ DOMAIN mem = Sessions /\ DOMAIN store = Sessions
      /\ mem = [mem EXCEPT ![s] = mem[s]]
  BY DEF LifeInv, MemOK, StoreOK
<1> QED
  BY <1>1, <1>2, <1>3

LEMMA Unmoved ==
  ASSUME AllSafe, mem' = mem, store' = store, \A t \in Sessions : Saving(t) => Saving(t)'
  PROVE  AllSafe'
BY DEF AllSafe, Safe, Kept, Open, Stored

\* A record that is saved as it changes is safe.
LEMMA Rewritten ==
  ASSUME LifeInv, AllSafe, NEW s \in Sessions, NEW rec \in Records, Kept(s) => rec.kept,
         AmendAndSave(s, rec) \/ PutAway(s, rec),
         \A t \in Sessions \ {s} : Saving(t) => Saving(t)'
  PROVE  AllSafe'
<1>1. DOMAIN mem = Sessions /\ DOMAIN store = Sessions
  BY Present
<1>2. ASSUME NEW t \in Sessions \ {s}
      PROVE  Safe(t)'
  <2>1. mem'[t] = mem[t] /\ store'[t] = store[t]
    BY <1>1, <1>2 DEF AmendAndSave, PutAway, Amend, Save
  <2> QED
    BY <1>2, <2>1 DEF AllSafe, Safe, Kept, Open, Stored
<1>3. Safe(s)'
  <2>1. /\ rec # NoSession
        /\ \A archived \in BOOLEAN : /\ Row(rec, archived) # NoSession
                                     /\ Row(rec, archived).archived = archived
    <3>1. \A archived \in BOOLEAN : /\ Row(rec, archived) \in Rows
                                    /\ Row(rec, archived).archived = archived
      BY RecordRows
    <3>2. \A row \in Rows : row # NoSession
      BY NoSessionAssumption
    <3> QED
      BY <3>1, <3>2, NoSessionAssumption
  <2>2. CASE AmendAndSave(s, rec) /\ rec.kept
    <3>1. mem'[s] = rec /\ store'[s] = Row(rec, FALSE)
      BY <1>1, <2>2 DEF AmendAndSave, Amend, Save
    <3> QED
      BY <2>1, <2>2, <3>1 DEF Safe, Kept, Open, Stored
  <2>3. CASE AmendAndSave(s, rec) /\ ~rec.kept
    <3>1. mem'[s] = rec /\ store' = store
      BY <1>1, <2>3 DEF AmendAndSave, Amend, Save
    <3> QED
      BY <2>1, <2>3, <3>1 DEF AllSafe, Safe, Kept, Open, Stored
  <2>4. CASE PutAway(s, rec) /\ rec.kept
    <3>1. mem'[s] = NoSession /\ store'[s] = Row(rec, TRUE)
      BY <1>1, <2>4 DEF PutAway, Save
    <3> QED
      BY <2>1, <3>1 DEF Safe, Kept, Open, Stored
  <2>5. CASE PutAway(s, rec) /\ ~rec.kept
    <3>1. mem'[s] = NoSession /\ store' = store
      BY <1>1, <2>5 DEF PutAway, Save
    <3> QED
      BY <2>1, <2>5, <3>1 DEF AllSafe, Safe, Kept, Open, Stored
  <2> QED
    BY <2>2, <2>3, <2>4, <2>5
<1> QED
  BY <1>2, <1>3 DEF AllSafe

\* So is one that is not saved, if its row would be the same or a save will follow.
LEMMA Adjusted ==
  ASSUME LifeInv, AllSafe, NEW s \in Sessions, Open(s), NEW rec \in Records,
         rec.kept = mem[s].kept, Row(rec, FALSE) = Row(mem[s], FALSE) \/ Saving(s)',
         Amend(s, rec), store' = store, \A t \in Sessions : Saving(t) => Saving(t)'
  PROVE  AllSafe'
<1>1. DOMAIN mem = Sessions
  BY Present
<1>2. ASSUME NEW t \in Sessions \ {s}
      PROVE  Safe(t)'
  <2>1. mem'[t] = mem[t]
    BY <1>1, <1>2 DEF Amend
  <2> QED
    BY <1>2, <2>1 DEF AllSafe, Safe, Kept, Open, Stored
<1>3. Safe(s)'
  <2>1. mem'[s] = rec /\ rec # NoSession
    BY <1>1, NoSessionAssumption DEF Amend
  <2> QED
    BY <2>1 DEF AllSafe, Safe, Kept, Open, Stored
<1> QED
  BY <1>2, <1>3 DEF AllSafe

LEMMA Touched ==
  ASSUME LifeInv, AllSafe, NEW s \in Sessions, NEW rec \in Records,
         rec.kept = GetOrCreate(s).kept,
         Row(rec, FALSE) = Row(GetOrCreate(s), FALSE) \/ Saving(s)',
         Amend(s, rec), store' = store, \A t \in Sessions : Saving(t) => Saving(t)'
  PROVE  AllSafe'
<1>1. CASE Open(s)
  BY <1>1, Adjusted DEF GetOrCreate
<1>2. CASE ~Open(s)
  <2>1. ~rec.kept
    BY <1>2, RowsLoaded DEF GetOrCreate
  <2>2. \A t \in Sessions : mem'[t] = IF t = s THEN rec ELSE mem[t]
    BY Present DEF Amend
  <2> QED
    BY <1>2, <2>1, <2>2 DEF AllSafe, Safe, Kept, Open, Stored
<1> QED
  BY <1>1, <1>2

\* A chat entry on its way stays on its way until the session actor takes it.
LEMMA StillSaving ==
  ASSUME LifeInv, NEW t, DOMAIN bridge \subseteq DOMAIN bridge',
         \/ box' = box
         \/ \E m \in Messages : box' = Append(box, m)
         \/ /\ box # <<>> /\ ~(Head(box).kind \in {"PushChatEntry", "PersistSession"} /\ Told = t)
            /\ \/ box' = Tail(box)
               \/ \E m \in Messages : box' = Append(Tail(box), m)
  PROVE  Saving(t) => Saving(t)'
<1>1. box \in Seq(Messages)
  BY InBox
<1>2. SUFFICES ASSUME NEW i \in 1..Len(box), box[i].kind \in {"PushChatEntry", "PersistSession"},
                      box[i].s = t
               PROVE  \E j \in 1..Len(box') : box'[j] = box[i]
  BY <1>1 DEF Saving
<1>3. CASE box' = box
  BY <1>3
<1>4. CASE \E m \in Messages : box' = Append(box, m)
  BY <1>1, <1>4
<1>5. CASE /\ box # <<>> /\ ~(Head(box).kind \in {"PushChatEntry", "PersistSession"} /\ Told = t)
           /\ \/ box' = Tail(box)
              \/ \E m \in Messages : box' = Append(Tail(box), m)
  <2>1. i # 1
    BY <1>1, <1>2, <1>5 DEF Told
  <2>2. PICK q \in Seq(Messages) : q = Tail(box)
    BY <1>5, InBox
  <2>3. i - 1 \in 1..Len(q) /\ q[i - 1] = box[i]
    BY <1>1, <1>5, <2>1, <2>2
  <2>4. CASE box' = q
    BY <2>3, <2>4
  <2>5. ASSUME NEW m \in Messages, box' = Append(q, m)
        PROVE  i - 1 \in 1..Len(box') /\ box'[i - 1] = q[i - 1]
    BY <2>2, <2>3, <2>5
  <2> QED
    BY <1>5, <2>2, <2>3, <2>4, <2>5
<1> QED
  BY <1>3, <1>4, <1>5

LEMMA Announced ==
  ASSUME NEW q \in Seq(Messages), NEW s \in Sessions,
         NEW k \in {"PushChatEntry", "PersistSession"}, box' = Append(q, Message(k, s))
  PROVE  Saving(s)'
<1>1. Message(k, s) \in Messages /\ Message(k, s).kind = k /\ Message(k, s).s = s
  BY DEF Message, Messages, Asked, Requests
<1>2. Len(q) + 1 \in DOMAIN box' /\ box'[Len(q) + 1] = Message(k, s)
  BY <1>1
<1> QED
  BY <1>1, <1>2 DEF Saving

LEMMA UserSaves ==
  ASSUME LifeInv, AllSafe, NEW s \in Sessions, User(s)
  PROVE  AllSafe'
<1>1. box' = box /\ store' = store
  BY DEF User, CreateSession, ForkFromEntry, SubmitMessage, LoadSession, EscConfirm,
         RerunSetup, Teardown, Key, TreeKey, idle
<1>2. ASSUME NEW kinds \in SUBSET Requests, Publish(kinds, s)
      PROVE  /\ \A t \in Sessions : Saving(t) => Saving(t)'
             /\ "PushChatEntry" \in kinds => Saving(s)'
  <2>1. DOMAIN bridge' = DOMAIN bridge \cup {Message(k, s) : k \in kinds}
    BY <1>2, Published DEF LifeInv
  <2> QED
    BY <1>1, <2>1, StillSaving DEF Saving
<1>3. CASE CreateSession(s)
  <2>1. {"PersistSession", "PushChatEntry", "RunSessionSetup"} \in SUBSET Requests
    BY DEF Requests
  <2>2. Saving(s)' /\ \A t \in Sessions : Saving(t) => Saving(t)'
    BY <1>2, <1>3, <2>1 DEF CreateSession
  <2>3. ~Stored(s) /\ \A t \in Sessions : mem'[t] = IF t = s THEN Created ELSE mem[t]
    BY <1>3, Present DEF CreateSession, Amend
  <2> QED
    BY <1>1, <2>2, <2>3 DEF AllSafe, Safe, Kept, Open, Stored
<1>4. CASE EscConfirm(s)
  <2>1. Open(s) /\ mem[s] \in Records
    BY <1>4, Present DEF EscConfirm
  <2>2. PICK rec \in Records : /\ rec = [mem[s] EXCEPT !.busy = 0, !.turn = FALSE, !.queued = 0]
                               /\ rec.kept = mem[s].kept
                               /\ Row(rec, FALSE) = Row(mem[s], FALSE)
    <3>1. Alike([mem[s] EXCEPT !.busy = 0, !.turn = FALSE, !.queued = 0], mem[s])
      BY <2>1, RecordRows
    <3> QED
      BY <3>1 DEF Alike
  <2>3. \A t \in Sessions : Saving(t) => Saving(t)'
    <3>1. {"CancelLifecycleCommand"} \in SUBSET Requests
      BY DEF Requests
    <3> QED
      BY <1>1, <1>2, <1>4, <3>1 DEF EscConfirm, Saving
  <2> QED
    BY <1>1, <1>4, <2>1, <2>2, <2>3, Adjusted DEF EscConfirm
<1>5. CASE ~CreateSession(s) /\ ~EscConfirm(s)
  <2>1. mem' = mem
    BY <1>5
       DEF User, ForkFromEntry, SubmitMessage, LoadSession, RerunSetup, Teardown, Key, TreeKey
  <2>2. \E kinds \in SUBSET Requests : Publish(kinds, s)
    <3>1. \A kinds \in {{"SessionForkRequested"}, {"EnqueueUserMessage", "MarkSessionInteracted"},
                        {"SessionLoadRequested"}, {"PushChatEntry", "RunSessionSetup"},
                        {"RunSessionTeardown"}, {"CloseSession"}, {"ArchiveSession"},
                        {"TeardownSessionTree"}, {"ArchiveSessionTree"}} :
            kinds \in SUBSET Requests
      BY DEF Requests
    <3> HIDE DEF Publish
    <3> QED
      BY <1>5, <3>1 DEF User, ForkFromEntry, SubmitMessage, LoadSession, RerunSetup, Teardown,
                        Key, TreeKey
  <2> QED
    BY <1>1, <1>2, <2>1, <2>2, Unmoved
<1> QED
  BY <1>3, <1>4, <1>5

\* The handlers that save what they were told.
LEMMA PersistenceSaves ==
  ASSUME LifeInv, AllSafe,
         \/ HandlePushChatEntry \/ HandlePersistSession \/ HandleMarkSessionInteracted
         \/ HandleEnqueueUserMessage \/ OnStreamCompleted \/ OnLoadRequested
         \/ OnSessionForkRequested
  PROVE  AllSafe'
<1>1. box # <<>> /\ box' = Tail(box) /\ bridge' = bridge
  BY DEF HandlePushChatEntry, HandlePersistSession, HandleMarkSessionInteracted,
         HandleEnqueueUserMessage, OnStreamCompleted, OnLoadRequested,
         OnSessionForkRequested, Heads, Done, user
<1>2. /\ Told \in Sessions
      /\ GetOrCreate(Told) \in Records /\ (Kept(Told) => GetOrCreate(Told).kept)
  BY <1>1, Taken, Present
<1>3. /\ \A t \in Sessions \ {Told} : Saving(t) => Saving(t)'
      /\ Head(box).kind \notin {"PushChatEntry", "PersistSession"} => \A t \in Sessions : Saving(t) => Saving(t)'
  BY <1>1, StillSaving
<1>4. ASSUME NEW rec \in Records, Kept(Told) => rec.kept, AmendAndSave(Told, rec)
      PROVE  AllSafe'
  BY <1>2, <1>3, <1>4, Rewritten
<1>5. PICK said \in Records : said = Said(GetOrCreate(Told)) /\ (Kept(Told) => said.kept)
  BY <1>2, RecordRows
<1>6. \A b \in BOOLEAN : \E rec \in Records : /\ rec = [said EXCEPT !.turn = b]
                                              /\ Kept(Told) => rec.kept
  <2>1. \A b \in BOOLEAN : Alike([said EXCEPT !.turn = b], said)
    BY RecordRows
  <2> QED
    BY <1>5, <2>1 DEF Alike
<1>7. CASE /\ UNCHANGED <<mem, store>>
           /\ Head(box).kind \notin {"PushChatEntry", "PersistSession"} \/ ~Open(Told)
  BY <1>3, <1>7 DEF AllSafe, Safe, Kept, Open, Stored
<1>8. CASE HandlePushChatEntry
  BY <1>4, <1>5, <1>8 DEF HandlePushChatEntry
<1>9. CASE HandlePersistSession /\ Open(Told)
  <2>1. mem[Told] \in Records /\ mem = [mem EXCEPT ![Told] = mem[Told]]
    BY <1>2, <1>9, Present
  <2>2. AmendAndSave(Told, mem[Told])
    BY <1>9, <2>1 DEF HandlePersistSession, AmendAndSave, Amend
  <2> QED
    BY <1>4, <2>1, <2>2 DEF Kept
<1>10. CASE HandleMarkSessionInteracted /\ Open(Told)
  <2>1. mem[Told] \in Records
    BY <1>2, <1>10, Present
  <2>2. PICK rec \in Records : rec = [mem[Told] EXCEPT !.kept = TRUE] /\ rec.kept
    BY <2>1, RecordRows
  <2> QED
    BY <1>4, <1>10, <2>2 DEF HandleMarkSessionInteracted
<1>11. CASE HandleEnqueueUserMessage /\ ~GetOrCreate(Told).turn
  <2>1. PICK rec \in Records : rec = [said EXCEPT !.turn = TRUE] /\ (Kept(Told) => rec.kept)
    BY <1>6
  <2> QED
    BY <1>4, <1>5, <1>11, <2>1 DEF HandleEnqueueUserMessage
<1>12. CASE OnStreamCompleted
  <2>1. PICK rec \in Records : rec = [said EXCEPT !.turn = FALSE] /\ (Kept(Told) => rec.kept)
    BY <1>6
  <2>2. PICK n \in Nat : AmendAndSave(Told, Requeued(rec, n))
    BY <1>5, <1>12, <2>1, TurnOver
  <2>3. Requeued(rec, n) \in Records /\ Requeued(rec, n).kept = rec.kept
    BY QueueOps
  <2> QED
    BY <1>4, <2>1, <2>2, <2>3
<1>13. CASE OnLoadRequested /\ Stored(Told)
  <2>1. store[Told] \in Rows
    BY <1>2, <1>13, Present
  <2>2. FromRow(store[Told]) \in Records /\ FromRow(store[Told]).kept
    BY <2>1, RowsLoaded
  <2> QED
    BY <1>4, <1>13, <2>2 DEF OnLoadRequested
<1>14. CASE OnSessionForkRequested /\ Stored(Parent[Told])
  <2>1. Parent[Told] \in Sessions
    BY <1>2, SessionsAssumption
  <2>2. store[Parent[Told]] \in Rows
    BY <1>14, <2>1, Present
  <2>3. FromRow(store[Parent[Told]]) \in Records /\ FromRow(store[Parent[Told]]).kept
    BY <2>2, RowsLoaded
  <2> QED
    BY <1>4, <1>14, <2>3 DEF OnSessionForkRequested
<1>15. CASE HandleEnqueueUserMessage /\ GetOrCreate(Told).turn
  <2>1. PICK n \in Nat : Amend(Told, Requeued(GetOrCreate(Told), n)) /\ UNCHANGED store
    BY <1>15, TextQueued
  <2>2. PICK rec \in Records : /\ rec = Requeued(GetOrCreate(Told), n)
                               /\ rec.kept = GetOrCreate(Told).kept
                               /\ Row(rec, FALSE) = Row(GetOrCreate(Told), FALSE)
    <3>1. Alike(Requeued(GetOrCreate(Told), n), GetOrCreate(Told))
      BY <1>2, RecordRows
    <3> QED
      BY <3>1 DEF Alike
  <2>3. Head(box).kind \notin {"PushChatEntry", "PersistSession"}
    BY <1>15 DEF HandleEnqueueUserMessage, Heads
  <2> QED
    BY <1>2, <1>3, <2>1, <2>2, <2>3, Touched
<1>16. /\ HandleMarkSessionInteracted \/ OnLoadRequested \/ OnSessionForkRequested =>
            Head(box).kind \notin {"PushChatEntry", "PersistSession"}
       /\ HandlePersistSession /\ ~Open(Told) => UNCHANGED <<mem, store>>
       /\ HandleMarkSessionInteracted /\ ~Open(Told) => UNCHANGED <<mem, store>>
       /\ OnLoadRequested /\ ~Stored(Told) => UNCHANGED <<mem, store>>
       /\ OnSessionForkRequested /\ ~Stored(Parent[Told]) => UNCHANGED <<mem, store>>
  BY DEF HandlePersistSession, HandleMarkSessionInteracted, OnLoadRequested,
         OnSessionForkRequested, Heads
<1> QED
  BY <1>7, <1>8, <1>9, <1>10, <1>11, <1>12, <1>13, <1>14, <1>15, <1>16

\* Whether a command starts or is refused, no chat entry but the one taken is lost.
LEMMA SpawnSaving ==
  ASSUME LifeInv, box # <<>>, Head(box).kind \notin {"PushChatEntry", "PersistSession"}, bridge' = bridge,
         NEW kind, NEW s, NEW m \in Messages, Spawn(kind, s, <<m>>)
  PROVE  \A t : Saving(t) => Saving(t)'
<1>1. \A q \in Seq(Messages) : q \o <<m>> = Append(q, m)
  OBVIOUS
<1>2. box' = Tail(box) \/ box' = Append(Tail(box), m)
  BY <1>1, InBox DEF Spawn
<1> QED
  BY <1>2, StillSaving

LEMMA TeardownSaves ==
  ASSUME LifeInv, AllSafe, box # <<>>, Head(box).kind \notin {"PushChatEntry", "PersistSession"}, Open(Told),
         NEW kind \in Outcomes, BeginTeardown(kind, Told)
  PROVE  AllSafe'
<1>1. Told \in Sessions
  BY Taken
<1>2. mem[Told] \in Records
  BY <1>1, Present
<1>3. PICK busy \in Records : /\ busy = [mem[Told] EXCEPT !.busy = @ + 1]
                              /\ busy.kept = mem[Told].kept
  <2>1. Alike([mem[Told] EXCEPT !.busy = @ + 1], mem[Told])
    BY <1>2, RecordRows
  <2> QED
    BY <2>1 DEF Alike
<1>4. Said(busy) \in Records /\ Said(busy).kept = busy.kept
  BY RecordRows
<1>5. Finish(kind, Told, FALSE) \in Messages
  BY <1>1 DEF Finish, Messages
<1>6. \A t \in Sessions : Saving(t) => Saving(t)'
  BY <1>5, SpawnSaving DEF BeginTeardown
<1> QED
  BY <1>1, <1>3, <1>4, <1>6, Rewritten DEF BeginTeardown, Kept

LEMMA SetupSaves ==
  ASSUME LifeInv, AllSafe, HandleRunSessionSetup
  PROVE  AllSafe'
<1>1. /\ box # <<>> /\ Head(box).kind \notin {"PushChatEntry", "PersistSession"}
      /\ bridge' = bridge /\ store' = store
      /\ Spawn("setup", Told, <<Message("PushChatEntry", Told)>>)
  BY DEF HandleRunSessionSetup, Heads
<1>2. Told \in Sessions
  BY <1>1, Taken
<1>3. Message("PushChatEntry", Told) \in Messages
  BY <1>2 DEF Message, Messages, Asked, Requests
<1>4. \A t \in Sessions : Saving(t) => Saving(t)'
  BY <1>1, <1>3, SpawnSaving
<1>5. CASE Open(Told) /\ scripts' # scripts
  <2>1. mem[Told] \in Records
    BY <1>2, <1>5, Present
  <2>2. Alike([mem[Told] EXCEPT !.busy = @ + 1], mem[Told])
    BY <2>1, RecordRows
  <2>3. PICK rec \in Records : /\ rec = [mem[Told] EXCEPT !.busy = @ + 1]
                               /\ rec.kept = mem[Told].kept
                               /\ Row(rec, FALSE) = Row(mem[Told], FALSE)
    BY <2>2 DEF Alike
  <2>4. Amend(Told, rec)
    BY <1>5, <2>3 DEF HandleRunSessionSetup
  <2> QED
    BY <1>1, <1>2, <1>4, <1>5, <2>3, <2>4, Adjusted
<1>6. CASE ~(Open(Told) /\ scripts' # scripts)
  BY <1>1, <1>4, <1>6, Unmoved DEF HandleRunSessionSetup
<1> QED
  BY <1>5, <1>6

\* The endings of scripts, which change a record and then say so in a chat entry.
LEMMA FinishSaves ==
  ASSUME LifeInv, AllSafe, HandleFinishSessionSetup \/ HandleFinishSessionTeardown
  PROVE  AllSafe'
<1>1. /\ box # <<>> /\ Head(box).kind \notin {"PushChatEntry", "PersistSession"} /\ bridge' = bridge
  BY DEF HandleFinishSessionSetup, HandleFinishSessionTeardown, Heads, user
<1>2. PICK s \in Sessions : s = Told
  BY <1>1, Taken
<1>3. Message("PushChatEntry", s) \in Messages
  BY <1>2 DEF Message, Messages, Asked, Requests
<1>4. box' = Tail(box) \/ box' = Append(Tail(box), Message("PushChatEntry", s))
  BY <1>2 DEF HandleFinishSessionSetup, HandleFinishSessionTeardown, Done
<1>5. /\ \A t \in Sessions : Saving(t) => Saving(t)'
      /\ box' = Append(Tail(box), Message("PushChatEntry", s)) => Saving(s)'
  <2>1. \A t \in Sessions : Saving(t) => Saving(t)'
    BY <1>1, <1>3, <1>4, StillSaving
  <2>2. ASSUME box' = Append(Tail(box), Message("PushChatEntry", s))
        PROVE  Saving(s)'
    <3>1. PICK q \in Seq(Messages) : q = Tail(box)
      BY <1>1, InBox
    <3>2. box' = Append(q, Message("PushChatEntry", s))
      BY <2>2, <3>1
    <3> QED
      BY <1>2, <3>2, Announced
  <2> QED
    BY <2>1, <2>2
<1>6. CASE ~Open(s)
  <2>1. mem' = mem /\ store' = store
    BY <1>2, <1>6 DEF HandleFinishSessionSetup, HandleFinishSessionTeardown
  <2> QED
    BY <1>5, <2>1, Unmoved
<1>7. CASE Open(s)
  <2>1. mem[s] \in Records
    BY <1>2, <1>7, Present
  <2>2. PICK rel \in Records : /\ rel = Released(mem[s]) /\ rel.kept = mem[s].kept
                               /\ Row(rel, FALSE) = Row(mem[s], FALSE)
    <3>1. Alike(Released(mem[s]), mem[s])
      BY <2>1, RecordRows
    <3> QED
      BY <3>1 DEF Alike
  <2>3. PICK up, down \in Records : /\ up = AfterSetup(rel) /\ up.kept = mem[s].kept
                                    /\ down = AfterTeardown(rel) /\ down.kept = mem[s].kept
    <3>1. /\ AfterSetup(rel) \in Records /\ AfterSetup(rel).kept = rel.kept
          /\ AfterTeardown(rel) \in Records /\ AfterTeardown(rel).kept = rel.kept
      BY RecordRows
    <3> QED
      BY <2>2, <3>1
  <2>5. \/ /\ Amend(s, rel) \/ Amend(s, up)
           /\ store' = store /\ box' = Append(Tail(box), Message("PushChatEntry", s))
        \/ AmendAndSave(s, down) \/ PutAway(s, down)
    <3>1. CASE HandleFinishSessionSetup
      BY <1>2, <1>7, <2>2, <2>3, <3>1 DEF HandleFinishSessionSetup
    <3>2. CASE HandleFinishSessionTeardown
      BY <1>2, <1>7, <2>2, <2>3, <3>2 DEF HandleFinishSessionTeardown
    <3> QED
      BY <3>1, <3>2
  <2>6. CASE /\ Amend(s, rel) \/ Amend(s, up)
             /\ store' = store /\ Saving(s)'
    <3>1. PICK rec \in Records : Amend(s, rec) /\ rec.kept = mem[s].kept
      BY <2>2, <2>3, <2>6
    <3> QED
      BY <1>2, <1>5, <1>7, <2>6, <3>1, Adjusted
  <2>7. CASE AmendAndSave(s, down) \/ PutAway(s, down)
    BY <1>2, <1>5, <2>3, <2>7, Rewritten DEF Kept
  <2> QED
    BY <1>5, <2>5, <2>6, <2>7
<1> QED
  BY <1>6, <1>7

LEMMA RequestSaves ==
  ASSUME LifeInv, AllSafe,
         \/ HandleRunSessionTeardown \/ HandleCloseSession \/ HandleArchiveSession
         \/ HandleArchiveSessionTree \/ HandleTeardownSessionTree \/ HandleCancelLifecycleCommand
  PROVE  AllSafe'
<1>1. box # <<>> /\ Head(box).kind \notin {"PushChatEntry", "PersistSession"}
  BY DEF HandleRunSessionTeardown, HandleCloseSession, HandleArchiveSession,
         HandleArchiveSessionTree, HandleTeardownSessionTree, HandleCancelLifecycleCommand,
         Heads
<1>2. Told \in Sessions
  BY <1>1, Taken
<1>3. ASSUME NEW kind \in Outcomes, Open(Told), BeginTeardown(kind, Told)
      PROVE  AllSafe'
  BY <1>1, <1>3, TeardownSaves
<1>4. ASSUME Done, bridge' = bridge,
             UNCHANGED <<mem, store>> \/ (Open(Told) /\ PutAway(Told, mem[Told]))
      PROVE  AllSafe'
  <2>1. \A t \in Sessions : Saving(t) => Saving(t)'
    BY <1>1, <1>4, StillSaving DEF Done
  <2> QED
    BY <1>2, <1>4, <2>1, Present, Unmoved, Rewritten DEF Kept
<1>5. \/ \E kind \in Outcomes : Open(Told) /\ BeginTeardown(kind, Told)
      \/ /\ Done /\ bridge' = bridge
         /\ UNCHANGED <<mem, store>> \/ (Open(Told) /\ PutAway(Told, mem[Told]))
  <2>1. {"None", "Close", "CloseTree"} \subseteq Outcomes
    BY DEF Outcomes
  <2>2. CASE HandleRunSessionTeardown
    BY <2>1, <2>2 DEF HandleRunSessionTeardown, Own, user
  <2>3. CASE HandleCloseSession
    BY <2>1, <2>3 DEF HandleCloseSession, Due, Own, user
  <2>4. CASE HandleArchiveSession
    BY <2>4 DEF HandleArchiveSession, user
  <2>5. CASE HandleArchiveSessionTree
    BY <2>5 DEF HandleArchiveSessionTree, user
  <2>6. CASE HandleTeardownSessionTree
    BY <2>1, <2>6 DEF HandleTeardownSessionTree, user
  <2>7. CASE HandleCancelLifecycleCommand
    BY <2>7 DEF HandleCancelLifecycleCommand, user
  <2> QED
    BY <2>2, <2>3, <2>4, <2>5, <2>6, <2>7
<1> QED
  BY <1>3, <1>4, <1>5

LEMMA ArchiveNextSaves ==
  ASSUME LifeInv, AllSafe, NEW s \in archiving, ArchiveNext(s)
  PROVE  AllSafe'
<1>1. s \in Sessions /\ box' = box /\ bridge' = bridge
  BY DEF ArchiveNext, user, LifeInv, WorldOK
<1>2. \A t \in Sessions : Saving(t) => Saving(t)'
  BY <1>1 DEF Saving
<1>3. CASE Kept(s)
  <2>1. mem[s] \in Records
    BY <1>1, <1>3, Present DEF Kept
  <2> QED
    BY <1>1, <1>2, <1>3, <2>1, Rewritten DEF ArchiveNext, Kept
<1>4. CASE ~Kept(s)
  <2>1. DOMAIN mem = Sessions /\ DOMAIN store = Sessions
    BY <1>1, Present
  <2>2. /\ mem' = [mem EXCEPT ![s] = NoSession]
        /\ store' = IF Stored(s) THEN [store EXCEPT ![s].archived = TRUE] ELSE store
    BY <1>4 DEF ArchiveNext
  <2>3. \A t \in Sessions \ {s} : mem'[t] = mem[t] /\ store'[t] = store[t]
    BY <2>1, <2>2
  <2>4. \A t \in Sessions \ {s} : Safe(t)'
    BY <1>2, <2>3 DEF AllSafe, Safe, Kept, Open, Stored
  <2>5. Safe(s)'
    <3>1. mem'[s] = NoSession
      BY <1>1, <2>1, <2>2
    <3>2. CASE Stored(s)
      <4>1. store[s] \in Rows
        BY <1>1, <3>2, Present
      <4>2. store'[s].archived
        BY <1>1, <2>1, <2>2, <3>2, <4>1 DEF Rows
      <4> QED
        BY <3>1, <4>2 DEF Safe, Kept, Open
    <3>3. CASE ~Stored(s)
      <4>1. store'[s] = NoSession
        BY <2>2, <3>3 DEF Stored
      <4> QED
        BY <3>1, <4>1 DEF Safe, Kept, Open, Stored
    <3> QED
      BY <3>2, <3>3
  <2> QED
    BY <2>4, <2>5 DEF AllSafe
<1> QED
  BY <1>3, <1>4

LEMMA TasksSave ==
  ASSUME LifeInv, AllSafe, Tasks
  PROVE  AllSafe'
<1>1. mem' = mem /\ store' = store
  BY DEF Tasks, BridgePublish, ScriptReportsKill, ScriptEnds, TurnEnds
<1>2. ASSUME NEW m \in BagToSet(bridge), BridgePublish(m)
      PROVE  AllSafe'
  <2>1. m \in Asked /\ DOMAIN bridge \ {m} \subseteq DOMAIN bridge'
    BY <1>2, Removed DEF BridgePublish, LifeInv
  <2>2. box \in Seq(Messages) /\ m \in Messages /\ box' = Append(box, m)
    BY <1>2, <2>1, InBox DEF BridgePublish
  <2>3. ASSUME NEW t \in Sessions, Saving(t)
        PROVE  Saving(t)'
    <3>1. CASE m = Message("PushChatEntry", t)
      BY <2>2, <2>3, <3>1, Announced
    <3>2. CASE Message("PushChatEntry", t) \in DOMAIN bridge /\ m # Message("PushChatEntry", t)
      BY <2>1, <3>2 DEF Saving
    <3>3. ASSUME NEW i \in 1..Len(box), box[i].kind \in {"PushChatEntry", "PersistSession"},
                 box[i].s = t
          PROVE  Saving(t)'
      <4>1. i \in DOMAIN box' /\ box'[i] = box[i]
        BY <2>2
      <4> QED
        BY <3>3, <4>1 DEF Saving
    <3> QED
      BY <2>2, <2>3, <3>1, <3>2, <3>3 DEF Saving
  <2> QED
    BY <1>1, <2>3, Unmoved
<1>3. ASSUME NEW m \in Messages, box' = Append(box, m), bridge' = bridge
      PROVE  AllSafe'
  BY <1>1, <1>3, StillSaving, Unmoved
<1>4. ASSUME NEW s \in talking, TurnEnds(s)
      PROVE  AllSafe'
  <2>1. Message("StreamCompleted", s) \in Messages
    BY <1>4 DEF Message, Messages, Asked, Requests, LifeInv, WorldOK
  <2> QED
    BY <1>3, <1>4, <2>1 DEF TurnEnds, user
<1>5. ASSUME NEW i \in DOMAIN scripts, NEW ok \in BOOLEAN, bridge' = bridge,
             box' = Append(box, Finish(scripts[i].kind, scripts[i].s, ok))
      PROVE  AllSafe'
  <2>1. scripts \in Seq(Commands) /\ i \in 1..Len(scripts)
    BY DEF LifeInv, ScriptsOK
  <2>2. scripts[i].kind \in Outcomes /\ scripts[i].s \in Sessions
    BY <2>1, Nth, Restated
  <2>3. Finish(scripts[i].kind, scripts[i].s, ok) \in Messages
    BY <2>2 DEF Finish, Messages
  <2> QED
    BY <1>3, <1>5, <2>3
<1>6. ASSUME NEW i \in DOMAIN scripts,
             ScriptReportsKill(i) \/ \E ok \in BOOLEAN : ScriptEnds(i, ok)
      PROVE  AllSafe'
  BY <1>5, <1>6 DEF ScriptReportsKill, ScriptEnds, user
<1> QED
  BY <1>2, <1>4, <1>6 DEF Tasks

\* A restart loads every row that is not archived, as it is.
LEMMA CrashSaves ==
  ASSUME LifeInv, CrashAndRestart
  PROVE  AllSafe'
<1>1. SUFFICES ASSUME NEW t \in Sessions PROVE Safe(t)'
  BY DEF AllSafe
<1>2. /\ store' = store
      /\ mem'[t] = IF Stored(t) /\ ~store[t].archived THEN FromRow(store[t]) ELSE NoSession
  BY DEF CrashAndRestart
<1>3. CASE Stored(t) /\ ~store[t].archived
  <2>1. store[t] \in Rows
    BY <1>3, Present
  <2>2. /\ FromRow(store[t]) # NoSession /\ FromRow(store[t]).kept
        /\ Row(FromRow(store[t]), FALSE) = store[t]
    BY <1>3, <2>1, RowsLoaded, NoSessionAssumption
  <2> QED
    BY <1>2, <1>3, <2>2 DEF Safe, Kept, Open, Stored
<1>4. CASE ~(Stored(t) /\ ~store[t].archived)
  BY <1>2, <1>4 DEF Safe, Kept, Open, Stored
<1> QED
  BY <1>3, <1>4

\* The queue actor asks for every text it says to be saved.
LEMMA QueueSaves ==
  ASSUME LifeInv, AllSafe, QueueActor
  PROVE  AllSafe'
<1>1. ASSUME NEW s \in Sessions, PopOnIdle(s)
      PROVE  AllSafe'
  <2>1. PICK n \in Nat : GetOrCreate(s) \in Records /\ Amend(s, Requeued(GetOrCreate(s), n))
    BY <1>1, PoppedIs
  <2>2. Alike(Requeued(GetOrCreate(s), n), GetOrCreate(s))
    BY <2>1, RecordRows
  <2>3. store' = store /\ box' = box /\ bridge' = bridge
    BY <1>1 DEF PopOnIdle, user
  <2>4. \A t \in Sessions : Saving(t) => Saving(t)'
    BY <2>3, StillSaving
  <2> QED
    BY <2>1, <2>2, <2>3, <2>4, Touched DEF Alike
<1>2. CASE DispatchPopped
  <2>1. PICK s \in Sessions :
        /\ s = hand /\ store' = store /\ bridge' = bridge
        /\ box' = Append(box, Message("PersistSession", s))
        /\ Amend(s, [Said(GetOrCreate(s)) EXCEPT !.turn = TRUE])
    BY <1>2 DEF DispatchPopped, user, LifeInv, WorldOK
  <2>2. PICK said \in Records : /\ said = Said(GetOrCreate(s))
                                /\ said.kept = GetOrCreate(s).kept
    BY <2>1, Present, RecordRows
  <2>3. PICK rec \in Records : rec = [said EXCEPT !.turn = TRUE] /\ rec.kept = said.kept
    <3>1. Alike([said EXCEPT !.turn = TRUE], said)
      BY RecordRows
    <3> QED
      BY <3>1 DEF Alike
  <2>4. box \in Seq(Messages) /\ Message("PersistSession", s) \in Messages
    BY <2>1, InBox DEF Message, Messages, Asked, Requests
  <2>5. Saving(s)'
    BY <2>1, <2>4, Announced
  <2>6. \A t \in Sessions : Saving(t) => Saving(t)'
    BY <2>1, <2>4, StillSaving
  <2> QED
    BY <2>1, <2>2, <2>3, <2>5, <2>6, Touched
<1> QED
  BY <1>1, <1>2 DEF QueueActor

LEMMA SafeStep ==
  ASSUME LifeInv, AllSafe, [Next]_vars
  PROVE  AllSafe'
<1>1. CASE UNCHANGED vars
  BY <1>1, Unmoved DEF vars, Saving
<1>2. CASE SessionActor
  BY <1>2, PersistenceSaves, SetupSaves, FinishSaves, RequestSaves, ArchiveNextSaves
     DEF SessionActor
<1> QED
  BY <1>1, <1>2, UserSaves, QueueSaves, TasksSave, CrashSaves DEF Next

\* However sessions were created, forked, torn down, cancelled, archived, loaded and
\* restarted, and however the requests for them crossed: when nothing is on its way, a
\* restart brings back the sessions that are open, as they are.
THEOREM RestSaved == Spec => []RestIsSaved
<1>1. Init => AllSafe
  BY DEF Init, AllSafe, Safe, Kept, Open, Stored
<1>2. AllSafe => RestIsSaved
  <2> SUFFICES ASSUME AllSafe, AtRest, NEW s \in Sessions
               PROVE  /\ Kept(s) => Stored(s) /\ store[s] = Row(mem[s], FALSE)
                      /\ Stored(s) /\ ~store[s].archived => Open(s)
    BY DEF RestIsSaved
  <2>1. ~Saving(s)
    <3>1. Message("PushChatEntry", s).s = s
      BY DEF Message
    <3> QED
      BY <3>1 DEF AtRest, InFlight, Concerns, Saving, BagToSet
  <2> QED
    BY <2>1 DEF AllSafe, Safe, Kept
<1>3. LifeInv /\ AllSafe /\ [Next]_vars => AllSafe'
  BY SafeStep
<1> QED
  BY <1>1, <1>2, <1>3, LifeInvariant, PTL DEF Spec

-----------------------------------------------------------------------------
(* With a user who waits, what is on its way for a session is in order.       *)
(*                                                                            *)
(* Everything on its way is a thing with a place of its own: the n-th copy of *)
(* a message of the bridge, the n-th message of the mailbox or command, a     *)
(* member the cascade has left, a turn that is being answered, the n-th end of *)
(* a turn the queue actor has to hear of, the text it has popped.  A cancel is *)
(* no such thing: any number of them may linger, as none touches a record.    *)

Thing(at, n, kind, s) == [at |-> at, n |-> n, kind |-> kind, s |-> s]

PostedOf(bag) == UNION {{Thing("bridge", n, m.kind, m.s) : n \in 1..bag[m]} : m \in DOMAIN bag}
BoxedOf(b) == {Thing("box", i, b[i].kind, b[i].s) : i \in DOMAIN b}
ScriptedOf(q) ==
  {Thing("script", i, q[i].kind, q[i].s) : i \in {j \in DOMAIN q : q[j].st # "ended"}}
TreeOf(members) == {Thing("tree", 0, "archiving", s) : s \in members}
IdlesOf(told) == UNION {{Thing("idle", n, "Idle", s) : n \in 1..told[s]} : s \in Sessions}
TurnsOf(ss, told, h) ==
  {Thing("turn", 0, "talking", s) : s \in ss} \cup IdlesOf(told)
    \cup {Thing("hand", 0, "popped", s) : s \in {h} \cap Sessions}

Posted == PostedOf(bridge)
Boxed == BoxedOf(box)
Scripted == ScriptedOf(scripts)
Doomed == TreeOf(archiving)
Asking == TurnsOf(talking, idles, hand)

Counts(x) == x.kind # "CancelLifecycleCommand"
Live == {x \in Posted \cup Boxed \cup Scripted \cup Doomed \cup Asking : Counts(x)}

\* What may be on its way for a session at the same time: the parts of a creation
\* and of a submitted text, but one setup; anything else is alone.
Light == {"PersistSession", "PushChatEntry", "RunSessionSetup", "setup", "EnqueueUserMessage",
          "MarkSessionInteracted", "talking", "StreamCompleted", "Idle", "popped"}
Setups == {"RunSessionSetup", "setup"}
Fits(k, l) == k \in Light /\ l \in Light /\ ~(k \in Setups /\ l \in Setups)

Lone ==
  \A s \in Sessions, x, y \in Live :
    x # y /\ Concerns(x, s) /\ Concerns(y, s) => Fits(x.kind, y.kind)

\* What is on its way to a session finds it open, but for a load, a fork and the
\* cascade; a fork finds nothing.
Absent == {"archiving", "SessionLoadRequested", "SessionForkRequested"}
Attended == \A x \in Live : x.kind \notin Absent => Open(x.s)
ForkNew == \A x \in Live : x.kind = "SessionForkRequested" => ~Open(x.s) /\ ~Stored(x.s)

\* No session is a ghost, and no row is ahead of its session.
Grown(s) ==
  /\ Open(s) => mem[s].kept /\ ~mem[s].ghost
  /\ Stored(s) => ~store[s].ghost
  /\ Open(s) /\ Stored(s) => mem[s].size >= store[s].size

Orderly == Lone /\ Attended /\ ForkNew /\ \A s \in Sessions : Grown(s)
Patient == "rash" \notin mishaps => Orderly

\* Where a thing was before the mailbox moved up by d.
Came(d, y) == Thing(y.at, IF y.at = "box" THEN y.n + d ELSE y.n, y.kind, y.s)

\* The things after a step are new ones or were there, and those of used are gone.
Moved(d, used, new) == \A y \in Live' : y \in new \/ Came(d, y) \in Live \ used

LEMMA ThingIs ==
  \A at, n, k, s : /\ Thing(at, n, k, s).at = at /\ Thing(at, n, k, s).n = n
                   /\ Thing(at, n, k, s).kind = k /\ Thing(at, n, k, s).s = s
BY DEF Thing

LEMMA Placed ==
  ASSUME NEW b, NEW bag, NEW q, NEW members, NEW ss, NEW told, NEW h
  PROVE  /\ \A y \in PostedOf(bag) : y.at = "bridge"
         /\ \A y \in BoxedOf(b) : y.at = "box"
         /\ \A y \in ScriptedOf(q) : y.at = "script"
         /\ \A y \in TreeOf(members) : y.at = "tree" /\ y.kind = "archiving"
         /\ \A y \in TurnsOf(ss, told, h) :
              /\ y.at \in {"turn", "idle", "hand"} /\ y.kind \in {"talking", "Idle", "popped"}
              /\ y.kind = "talking" => y.s \in ss
              /\ y.kind = "popped" => y.s = h
<1>1. \A y \in IdlesOf(told) : y.at = "idle" /\ y.kind = "Idle"
  BY ThingIs DEF IdlesOf
<1> QED
  BY <1>1, ThingIs DEF PostedOf, BoxedOf, ScriptedOf, TreeOf, TurnsOf

\* A thing is its place, its kind and its session.
LEMMA Things ==
  ASSUME NEW b \in Seq(Messages), NEW bag, IsABag(bag), DOMAIN bag \subseteq Asked,
         NEW q \in Seq(Commands), NEW members \in SUBSET Sessions, NEW ss \in SUBSET Sessions,
         NEW told \in [Sessions -> Nat], NEW h
  PROVE  \A y \in PostedOf(bag) \cup BoxedOf(b) \cup ScriptedOf(q) \cup TreeOf(members)
               \cup TurnsOf(ss, told, h) :
           y.n \in Nat /\ y.s \in Sessions /\ y = Thing(y.at, y.n, y.kind, y.s)
<1>1. \A y \in PostedOf(bag) : y.n \in Nat /\ y.s \in Sessions /\ y = Thing(y.at, y.n, y.kind, y.s)
  <2>1. \A m \in DOMAIN bag : m.s \in Sessions
    BY DEF Asked
  <2> QED
    BY <2>1, ThingIs DEF PostedOf
<1>2. \A y \in BoxedOf(b) : y.n \in Nat /\ y.s \in Sessions /\ y = Thing(y.at, y.n, y.kind, y.s)
  <2>1. \A i \in DOMAIN b : b[i].s \in Sessions
    BY DEF Messages, Asked
  <2>2. \A i \in DOMAIN b : i \in Nat
    OBVIOUS
  <2> QED
    BY <2>1, <2>2, ThingIs DEF BoxedOf
<1>3. \A y \in ScriptedOf(q) : y.n \in Nat /\ y.s \in Sessions /\ y = Thing(y.at, y.n, y.kind, y.s)
  <2>1. \A i \in DOMAIN q : q[i].s \in Sessions
    <3>1. \A i \in DOMAIN q : q[i] \in Commands
      OBVIOUS
    <3> QED
      BY <3>1 DEF Commands
  <2>2. \A i \in DOMAIN q : i \in Nat
    OBVIOUS
  <2> QED
    BY <2>1, <2>2, ThingIs DEF ScriptedOf
<1>4. \A y \in TreeOf(members) : y.n \in Nat /\ y.s \in Sessions /\ y = Thing(y.at, y.n, y.kind, y.s)
  BY ThingIs DEF TreeOf
<1>5. \A y \in TurnsOf(ss, told, h) :
        y.n \in Nat /\ y.s \in Sessions /\ y = Thing(y.at, y.n, y.kind, y.s)
  <2>1. \A s \in Sessions : \A n \in 1..told[s] : n \in Nat
    OBVIOUS
  <2>2. \A y \in IdlesOf(told) : \E s \in Sessions : \E n \in 1..told[s] : y = Thing("idle", n, "Idle", s)
    BY DEF IdlesOf
  <2>3. \A y \in IdlesOf(told) : y.n \in Nat /\ y.s \in Sessions /\ y = Thing(y.at, y.n, y.kind, y.s)
    BY <2>1, <2>2, ThingIs
  <2> QED
    BY <2>3, ThingIs DEF TurnsOf
<1> QED
  BY <1>1, <1>2, <1>3, <1>4, <1>5

LEMMA LiveThings ==
  ASSUME LifeInv
  PROVE  \A y \in Live : y.n \in Nat /\ y.s \in Sessions /\ y = Thing(y.at, y.n, y.kind, y.s)
<1>1. /\ box \in Seq(Messages) /\ IsABag(bridge) /\ DOMAIN bridge \subseteq Asked
      /\ scripts \in Seq(Commands) /\ archiving \subseteq Sessions /\ talking \subseteq Sessions
      /\ idles \in [Sessions -> Nat]
  BY InBox DEF LifeInv, BridgeOK, ScriptsOK, WorldOK
<1> QED
  BY <1>1, Things DEF Live, Posted, Boxed, Scripted, Doomed, Asking

LEMMA LiveThingsNext ==
  ASSUME LifeInv'
  PROVE  \A y \in Live' : y.n \in Nat /\ y.s \in Sessions /\ y = Thing(y.at, y.n, y.kind, y.s)
<1>1. /\ box' \in Seq(Messages) /\ IsABag(bridge') /\ DOMAIN bridge' \subseteq Asked
      /\ scripts' \in Seq(Commands) /\ archiving' \subseteq Sessions /\ talking' \subseteq Sessions
      /\ idles' \in [Sessions -> Nat]
  <2>1. box' \in Seq(Honest')
    BY DEF LifeInv, BoxOK
  <2>2. Honest' \subseteq Messages
    BY DEF Honest
  <2> QED
    BY <2>1, <2>2 DEF LifeInv, BridgeOK, ScriptsOK, WorldOK
<1> QED
  BY <1>1, Things DEF Live, Posted, Boxed, Scripted, Doomed, Asking

LEMMA CameIs ==
  \A d, y : /\ Came(d, y).at = y.at /\ Came(d, y).kind = y.kind /\ Came(d, y).s = y.s
            /\ y.at # "box" => Came(d, y).n = y.n
            /\ y.at = "box" => Came(d, y).n = y.n + d
            /\ \A s : Concerns(Came(d, y), s) <=> Concerns(y, s)
            /\ Counts(Came(d, y)) <=> Counts(y)
BY ThingIs DEF Came, Concerns, Counts

\* Order is kept when what is new fits what was there and is not used up.
LEMMA Succession ==
  ASSUME LifeInv', Lone, NEW d \in {0, 1}, NEW used, NEW new, Moved(d, used, new),
         \A s \in Sessions, y \in new, z \in Live \ used :
           Concerns(y, s) /\ Concerns(z, s) => Fits(y.kind, z.kind),
         \A s \in Sessions, y, z \in new :
           y # z /\ Concerns(y, s) /\ Concerns(z, s) => Fits(y.kind, z.kind)
  PROVE  Lone'
<1> SUFFICES ASSUME NEW s \in Sessions, NEW y \in Live', NEW z \in Live', y # z,
                    Concerns(y, s), Concerns(z, s)
             PROVE  Fits(y.kind, z.kind)
  BY DEF Lone, Concerns
<1>1. \A v \in {y, z} : v \in new \/ Came(d, v) \in Live \ used
  BY DEF Moved
<1>2. \A v : Came(d, v).kind = v.kind /\ (Concerns(Came(d, v), s) <=> Concerns(v, s))
  BY CameIs
<1>3. \A k, l : Fits(k, l) => Fits(l, k)
  BY DEF Fits
<1>4. CASE y \in new /\ z \in new
  BY <1>4
<1>5. CASE y \in new /\ Came(d, z) \in Live \ used
  BY <1>2, <1>5
<1>6. CASE z \in new /\ Came(d, y) \in Live \ used
  BY <1>2, <1>3, <1>6
<1>7. CASE Came(d, y) \in Live \ used /\ Came(d, z) \in Live \ used
  <2>1. Came(d, y) # Came(d, z)
    <3>1. /\ y.n \in Nat /\ y = Thing(y.at, y.n, y.kind, y.s)
          /\ z.n \in Nat /\ z = Thing(z.at, z.n, z.kind, z.s)
      BY LiveThingsNext
    <3>2. CASE ~(y.at = z.at /\ y.kind = z.kind /\ y.s = z.s)
      BY <3>2, CameIs
    <3>3. CASE y.at = z.at /\ y.kind = z.kind /\ y.s = z.s
      <4>1. y.n # z.n
        BY <3>1, <3>3
      <4>2. y.n + d # z.n + d
        BY <3>1, <4>1
      <4> QED
        BY <3>3, <4>1, <4>2, CameIs
    <3> QED
      BY <3>2, <3>3
  <2> QED
    BY <1>2, <1>7, <2>1 DEF Lone
<1> QED
  BY <1>1, <1>4, <1>5, <1>6, <1>7

\* A thing takes the place of another: it fits what that one did.
Heir(y, x) == /\ \A k : Fits(x.kind, k) => Fits(y.kind, k)
              /\ \A s \in Sessions : Concerns(y, s) => Concerns(x, s)

\* One thing is used up and others take its place, while only its session changes.
LEMMA Stepped ==
  ASSUME LifeInv', Orderly, NEW d \in {0, 1}, NEW x \in Live, NEW new, Moved(d, {x}, new),
         \A y \in new : /\ Heir(y, x) /\ y.kind # "SessionForkRequested"
                        /\ y.kind \notin Absent => Open(y.s)',
         \A s \in Sessions, y, z \in new :
           y # z /\ Concerns(y, s) /\ Concerns(z, s) => Fits(y.kind, z.kind),
         \A t \in Sessions \ {x.s} : mem'[t] = mem[t] /\ store'[t] = store[t],
         Grown(x.s)', (Open(x.s) => Open(x.s)') \/ x.kind \notin Light
  PROVE  Orderly'
<1>1. /\ Lone /\ Attended /\ ForkNew /\ \A s \in Sessions : Grown(s)
  BY DEF Orderly
<1>2. Lone'
  <2>1. ASSUME NEW s \in Sessions, NEW y \in new, NEW z \in Live \ {x},
               Concerns(y, s), Concerns(z, s)
        PROVE  Fits(y.kind, z.kind)
    BY <1>1, <2>1 DEF Lone, Heir
  <2> QED
    BY <1>1, <2>1, Succession
<1>3. ASSUME NEW z \in Live \ {x}, z.s \in Sessions
      PROVE  /\ z.kind \notin Absent => Open(z.s)'
             /\ z.kind = "SessionForkRequested" => ~Open(z.s)' /\ ~Stored(z.s)'
  <2>1. CASE z.s # x.s
    BY <1>1, <1>3, <2>1 DEF Attended, ForkNew, Open, Stored
  <2>2. CASE z.s = x.s
    <3>1. Fits(x.kind, z.kind)
      BY <1>1, <1>3, <2>2 DEF Lone, Concerns
    <3> QED
      BY <1>1, <2>2, <3>1 DEF Fits, Light, Attended
  <2> QED
    BY <2>1, <2>2
<1>4. ASSUME NEW y \in Live'
      PROVE  /\ y.kind \notin Absent => Open(y.s)'
             /\ y.kind = "SessionForkRequested" => ~Open(y.s)' /\ ~Stored(y.s)'
  <2>1. y \in new \/ Came(d, y) \in Live \ {x}
    BY DEF Moved
  <2>2. Came(d, y).s = y.s /\ Came(d, y).kind = y.kind /\ y.s \in Sessions
    BY CameIs, LiveThingsNext
  <2> QED
    BY <1>3, <2>1, <2>2
<1>5. \A s \in Sessions : Grown(s)'
  BY <1>1 DEF Grown, Open, Stored
<1> QED
  BY <1>2, <1>4, <1>5 DEF Orderly, Attended, ForkNew

\* What starts anew, for sessions nothing is on its way to.
LEMMA Begins ==
  ASSUME LifeInv', Orderly, NEW new, Moved(0, {}, new), NEW s \in Sessions,
         \A t \in Sessions, y \in new, z \in Live : ~(Concerns(y, t) /\ Concerns(z, t)),
         \A t \in Sessions, y, z \in new :
           y # z /\ Concerns(y, t) /\ Concerns(z, t) => Fits(y.kind, z.kind),
         \A y \in new : /\ y.kind \notin Absent => Open(y.s)'
                        /\ y.kind = "SessionForkRequested" => ~Open(y.s)' /\ ~Stored(y.s)',
         store' = store, \A t \in Sessions \ {s} : mem'[t] = mem[t],
         (\A z \in Live : z.s # s) \/ mem' = mem, Grown(s)'
  PROVE  Orderly'
<1>1. Lone /\ Attended /\ ForkNew /\ \A t \in Sessions : Grown(t)
  BY DEF Orderly
<1>2. Lone'
  BY <1>1, Succession
<1>3. \A z \in Live : z.s \in Sessions => mem'[z.s] = mem[z.s] /\ store'[z.s] = store[z.s]
  OBVIOUS
<1>4. ASSUME NEW y \in Live'
      PROVE  /\ y.kind \notin Absent => Open(y.s)'
             /\ y.kind = "SessionForkRequested" => ~Open(y.s)' /\ ~Stored(y.s)'
  <2>1. y \in new \/ Came(0, y) \in Live
    BY DEF Moved
  <2>2. Came(0, y).s = y.s /\ Came(0, y).kind = y.kind /\ y.s \in Sessions
    BY CameIs, LiveThingsNext
  <2>3. CASE Came(0, y) \in Live
    <3>1. mem'[y.s] = mem[y.s] /\ store'[y.s] = store[y.s]
      BY <1>3, <2>2, <2>3
    <3> QED
      BY <1>1, <2>2, <2>3, <3>1 DEF Attended, ForkNew, Open, Stored
  <2> QED
    BY <2>1, <2>3
<1>5. \A t \in Sessions : Grown(t)'
  BY <1>1 DEF Grown, Open, Stored
<1> QED
  BY <1>2, <1>4, <1>5 DEF Orderly, Attended, ForkNew

\* The thing the session actor takes.
First == Thing("box", 1, Head(box).kind, Told)

LEMMA FirstLive ==
  ASSUME LifeInv, box # <<>>
  PROVE  /\ First.at = "box" /\ First.kind = Head(box).kind /\ First.s = Told
         /\ First \in Boxed /\ (Counts(First) => First \in Live)
<1>1. 1 \in DOMAIN box /\ box[1] = Head(box)
  BY InBox
<1>2. First \in Boxed
  BY <1>1 DEF First, Boxed, BoxedOf, Told
<1> QED
  BY <1>2, ThingIs DEF First, Live

\* The mailbox moves up, and may get an answer.
LEMMA BoxShifts ==
  ASSUME LifeInv, box # <<>>
  PROVE  /\ box' = Tail(box) => \A y \in Boxed' : Came(1, y) \in Boxed \ {First}
         /\ \A m \in Messages : box' = Append(Tail(box), m) =>
              \A y \in Boxed' : y = Thing("box", Len(box), m.kind, m.s)
                                \/ Came(1, y) \in Boxed \ {First}
<1>1. box \in Seq(Messages)
  BY InBox
<1>2. PICK q \in Seq(Messages) : q = Tail(box)
  BY InBox
<1>3. Len(q) + 1 = Len(box) /\ \A i \in 1..Len(q) : q[i] = box[i + 1] /\ i + 1 \in 1..Len(box)
  BY <1>1, <1>2
<1>4. ASSUME NEW i \in 1..Len(q)
      PROVE  Came(1, Thing("box", i, q[i].kind, q[i].s)) \in Boxed \ {First}
  <2>1. Came(1, Thing("box", i, q[i].kind, q[i].s)) = Thing("box", i + 1, box[i + 1].kind, box[i + 1].s)
    BY <1>3, ThingIs DEF Came
  <2>2. i + 1 \in DOMAIN box /\ i + 1 # 1
    BY <1>1, <1>3
  <2>3. Thing("box", i + 1, box[i + 1].kind, box[i + 1].s) # First
    BY <2>2, ThingIs DEF First
  <2> QED
    BY <2>1, <2>2, <2>3 DEF Boxed, BoxedOf
<1>5. CASE box' = Tail(box)
  <2>1. \A y \in Boxed' : \E i \in 1..Len(q) : y = Thing("box", i, q[i].kind, q[i].s)
    BY <1>2, <1>5 DEF Boxed, BoxedOf
  <2> QED
    BY <1>4, <2>1
<1>6. ASSUME NEW m \in Messages, box' = Append(Tail(box), m), NEW y \in Boxed'
      PROVE  y = Thing("box", Len(box), m.kind, m.s) \/ Came(1, y) \in Boxed \ {First}
  <2>1. box' = Append(q, m)
    BY <1>2, <1>6
  <2>2. PICK i \in DOMAIN box' : y = Thing("box", i, box'[i].kind, box'[i].s)
    BY DEF Boxed, BoxedOf
  <2>3. (i \in 1..Len(q) /\ box'[i] = q[i]) \/ (i = Len(q) + 1 /\ box'[i] = m)
    BY <2>1, <2>2
  <2>4. CASE i \in 1..Len(q) /\ box'[i] = q[i]
    BY <1>4, <2>2, <2>4
  <2>5. CASE i = Len(q) + 1 /\ box'[i] = m
    BY <1>3, <2>2, <2>5
  <2> QED
    BY <2>3, <2>4, <2>5
<1> QED
  BY <1>5, <1>6

\* What a handler leaves on its way.
LEMMA HandlerMoves ==
  ASSUME LifeInv, LifeInv', box # <<>>, bridge' = bridge, NEW new,
         \/ box' = Tail(box)
         \/ \E m \in Messages : /\ box' = Append(Tail(box), m)
                                /\ Thing("box", Len(box), m.kind, m.s) \in new,
         Scripted' \subseteq Scripted \cup new, Doomed' \subseteq Doomed \cup new,
         Asking' \subseteq Asking \cup new
  PROVE  Moved(1, {First}, new)
<1> SUFFICES ASSUME NEW y \in Live', y \notin new
             PROVE  Came(1, y) \in Live \ {First}
  BY DEF Moved
<1>1. y \in Posted' \cup Boxed' \cup Scripted' \cup Doomed' \cup Asking' /\ Counts(y)
  BY DEF Live, Counts
<1>2. CASE y \in Boxed'
  <2>1. Came(1, y) \in Boxed \ {First}
    BY <1>2, BoxShifts
  <2> QED
    BY <1>1, <2>1, CameIs DEF Live
<1>3. CASE y \notin Boxed'
  <2>1. y \in Posted \cup Scripted \cup Doomed \cup Asking
    BY <1>1, <1>3 DEF Posted
  <2>2. y.at # "box"
    BY <2>1, Placed DEF Posted, Scripted, Doomed, Asking
  <2>3. y = Thing(y.at, y.n, y.kind, y.s)
    BY LiveThingsNext
  <2>4. Came(1, y) = y /\ y # First
    BY <2>2, <2>3, ThingIs DEF Came, First
  <2> QED
    BY <1>1, <2>1, <2>4 DEF Live
<1> QED
  BY <1>2, <1>3

\* A step that does not move the mailbox up.
LEMMA Stays ==
  ASSUME LifeInv', NEW used, NEW new,
         Posted' \subseteq (Posted \ used) \cup new, Boxed' \subseteq (Boxed \ used) \cup new,
         Scripted' \subseteq (Scripted \ used) \cup new, Doomed' \subseteq (Doomed \ used) \cup new,
         Asking' \subseteq (Asking \ used) \cup new
  PROVE  Moved(0, used, new)
<1> SUFFICES ASSUME NEW y \in Live', y \notin new
             PROVE  Came(0, y) \in Live \ used
  BY DEF Moved
<1>1. y \in Posted' \cup Boxed' \cup Scripted' \cup Doomed' \cup Asking' /\ Counts(y)
  BY DEF Live, Counts
<1>2. y.n \in Nat /\ y = Thing(y.at, y.n, y.kind, y.s)
  BY LiveThingsNext
<1>3. Came(0, y) = y
  BY <1>2 DEF Came
<1> QED
  BY <1>1, <1>3 DEF Live

LEMMA SameThings ==
  /\ bridge' = bridge => Posted' = Posted
  /\ box' = box => Boxed' = Boxed
  /\ scripts' = scripts => Scripted' = Scripted
  /\ archiving' = archiving => Doomed' = Doomed
  /\ talking' = talking /\ queue' = queue => Asking' = Asking
BY DEF Posted, Boxed, Scripted, Doomed, Asking, queue

LEMMA BoxGrows ==
  ASSUME LifeInv, NEW m \in Messages, box' = Append(box, m)
  PROVE  Boxed' \subseteq Boxed \cup {Thing("box", Len(box) + 1, m.kind, m.s)}
<1>1. box \in Seq(Messages)
  BY InBox
<1> SUFFICES ASSUME NEW i \in DOMAIN box'
             PROVE  Thing("box", i, box'[i].kind, box'[i].s)
                      \in Boxed \cup {Thing("box", Len(box) + 1, m.kind, m.s)}
  BY DEF Boxed, BoxedOf
<1>2. (i \in DOMAIN box /\ box'[i] = box[i]) \/ (i = Len(box) + 1 /\ box'[i] = m)
  BY <1>1
<1> QED
  BY <1>2 DEF Boxed, BoxedOf

\* A command starts, is killed or ends.
LEMMA ScriptsMove ==
  ASSUME LifeInv
  PROVE  /\ \A c \in Commands : scripts' = Append(scripts, c) =>
              Scripted' \subseteq Scripted \cup {Thing("script", Len(scripts) + 1, c.kind, c.s)}
         /\ \A i \in DOMAIN scripts :
              /\ scripts' = [scripts EXCEPT ![i].st = "killed"] /\ scripts[i].st # "ended" =>
                   Scripted' \subseteq Scripted
              /\ scripts' = [scripts EXCEPT ![i].st = "ended"] =>
                   Scripted' \subseteq Scripted \ {Thing("script", i, scripts[i].kind, scripts[i].s)}
<1>1. scripts \in Seq(Commands)
  BY DEF LifeInv, ScriptsOK
<1>2. ASSUME NEW c \in Commands, scripts' = Append(scripts, c), NEW i \in DOMAIN scripts',
             scripts'[i].st # "ended"
      PROVE  Thing("script", i, scripts'[i].kind, scripts'[i].s)
               \in Scripted \cup {Thing("script", Len(scripts) + 1, c.kind, c.s)}
  <2>1. (i \in DOMAIN scripts /\ scripts'[i] = scripts[i]) \/ (i = Len(scripts) + 1 /\ scripts'[i] = c)
    BY <1>1, <1>2
  <2> QED
    BY <1>2, <2>1 DEF Scripted, ScriptedOf
<1>3. ASSUME NEW i \in DOMAIN scripts, NEW st \in {"killed", "ended"},
             scripts' = [scripts EXCEPT ![i].st = st]
      PROVE  /\ DOMAIN scripts' = DOMAIN scripts
             /\ scripts'[i].kind = scripts[i].kind /\ scripts'[i].s = scripts[i].s
             /\ scripts'[i].st = st
             /\ \A j \in DOMAIN scripts \ {i} : scripts'[j] = scripts[j]
  <2>1. \A j \in DOMAIN scripts : scripts[j] \in Commands
    BY <1>1
  <2>2. scripts[i] \in Commands
    BY <2>1
  <2>3. scripts' = [j \in DOMAIN scripts |-> IF j = i THEN [scripts[i] EXCEPT !.st = st] ELSE scripts[j]]
    BY <1>1, <1>3
  <2> QED
    BY <2>2, <2>3 DEF Commands
<1>4. ASSUME NEW i \in DOMAIN scripts, scripts' = [scripts EXCEPT ![i].st = "killed"],
             scripts[i].st # "ended"
      PROVE  Scripted' \subseteq Scripted
  BY <1>3, <1>4 DEF Scripted, ScriptedOf
<1>5. ASSUME NEW i \in DOMAIN scripts, scripts' = [scripts EXCEPT ![i].st = "ended"]
      PROVE  Scripted' \subseteq Scripted \ {Thing("script", i, scripts[i].kind, scripts[i].s)}
  <2>1. ASSUME NEW j \in DOMAIN scripts', scripts'[j].st # "ended"
        PROVE  /\ Thing("script", j, scripts'[j].kind, scripts'[j].s) \in Scripted
               /\ Thing("script", j, scripts'[j].kind, scripts'[j].s)
                    # Thing("script", i, scripts[i].kind, scripts[i].s)
    <3>1. j \in DOMAIN scripts /\ j # i /\ scripts'[j] = scripts[j]
      BY <1>3, <1>5, <2>1
    <3>2. Thing("script", j, scripts[j].kind, scripts[j].s) \in Scripted
      BY <2>1, <3>1 DEF Scripted, ScriptedOf
    <3> QED
      BY <3>1, <3>2, ThingIs
  <2> QED
    BY <2>1 DEF Scripted, ScriptedOf
<1>6. \A c \in Commands : scripts' = Append(scripts, c) =>
        Scripted' \subseteq Scripted \cup {Thing("script", Len(scripts) + 1, c.kind, c.s)}
  BY <1>2 DEF Scripted, ScriptedOf
<1> QED
  BY <1>4, <1>5, <1>6

Copies(m) == IF m \in DOMAIN bridge THEN bridge[m] ELSE 0
Fresh(kinds, s) == {Thing("bridge", Copies(Message(k, s)) + 1, k, s) : k \in kinds}

LEMMA PostedIs ==
  ASSUME NEW bag
  PROVE  \A y \in PostedOf(bag) : \E e \in DOMAIN bag : \E n \in 1..bag[e] :
           y = Thing("bridge", n, e.kind, e.s)
<1> SUFFICES ASSUME NEW y \in PostedOf(bag)
             PROVE  \E e \in DOMAIN bag : \E n \in 1..bag[e] : y = Thing("bridge", n, e.kind, e.s)
  OBVIOUS
<1>1. PICK e \in DOMAIN bag : y \in {Thing("bridge", n, e.kind, e.s) : n \in 1..bag[e]}
  BY DEF PostedOf
<1> QED
  BY <1>1

\* One copy more of each message is published.
LEMMA PostedGrows ==
  ASSUME LifeInv, NEW s \in Sessions, NEW kinds \in SUBSET Requests, Publish(kinds, s)
  PROVE  Posted' \subseteq Posted \cup Fresh(kinds, s)
<1> DEFINE sent == {Message(k, s) : k \in kinds}
           new == SetToBag(sent)
<1>1. new = [e \in sent |-> 1]
  BY DEF SetToBag
<1>2. DOMAIN new = sent /\ \A e \in sent : new[e] = 1
  BY <1>1
<1>3. bridge' = bridge (+) new
  BY DEF Publish
<1>4. \A e \in sent : \E k \in kinds : e = Message(k, s) /\ e.kind = k /\ e.s = s
  BY DEF Message
<1> HIDE DEF new, sent
<1>5. /\ DOMAIN bridge' = DOMAIN bridge \cup sent
      /\ \A e \in DOMAIN bridge' : bridge'[e] = Copies(e) + (IF e \in sent THEN 1 ELSE 0)
  BY <1>2, <1>3 DEF (+), Copies
<1>6. \A e : Copies(e) \in Nat
  BY DEF LifeInv, BridgeOK, IsABag, Copies
<1> SUFFICES ASSUME NEW m \in DOMAIN bridge', NEW n \in 1..bridge'[m]
             PROVE  Thing("bridge", n, m.kind, m.s) \in Posted \cup Fresh(kinds, s)
  BY DEF Posted, PostedOf
<1>7. CASE n <= Copies(m)
  <2>1. m \in DOMAIN bridge /\ bridge[m] \in Nat /\ Copies(m) = bridge[m]
    BY <1>6, <1>7 DEF Copies
  <2>2. n \in 1..bridge[m]
    BY <1>7, <2>1
  <2> QED
    BY <2>1, <2>2 DEF Posted, PostedOf
<1>8. CASE ~(n <= Copies(m))
  <2>1. bridge'[m] = Copies(m) + (IF m \in sent THEN 1 ELSE 0)
    BY <1>5
  <2>2. Copies(m) \in Nat
    BY <1>6
  <2>3. m \in sent /\ n = Copies(m) + 1
    BY <1>8, <2>1, <2>2
  <2>4. PICK k \in kinds : m = Message(k, s) /\ m.kind = k /\ m.s = s
    BY <1>4, <2>3
  <2> QED
    BY <2>3, <2>4 DEF Fresh
<1> QED
  BY <1>7, <1>8

\* One copy of a message leaves.
LEMMA PostedShrinks ==
  ASSUME LifeInv, NEW m \in BagToSet(bridge), bridge' = bridge (-) SetToBag({m})
  PROVE  /\ m \in Asked /\ Thing("bridge", bridge[m], m.kind, m.s) \in Posted
         /\ Posted' \subseteq Posted \ {Thing("bridge", bridge[m], m.kind, m.s)}
<1> DEFINE one == SetToBag({m})
           less == [e \in DOMAIN bridge |-> IF e \in DOMAIN one THEN bridge[e] - one[e] ELSE bridge[e]]
<1>1. IsABag(bridge) /\ DOMAIN bridge \subseteq Asked /\ m \in DOMAIN bridge
  BY DEF LifeInv, BridgeOK, BagToSet
<1>2. \A e \in DOMAIN bridge : bridge[e] \in Nat /\ bridge[e] > 0
  BY <1>1 DEF IsABag
<1>3. DOMAIN one = {m} /\ one[m] = 1
  BY DEF SetToBag
<1>4. bridge' = [e \in {d \in DOMAIN less : less[d] > 0} |-> less[e]]
  BY DEF (-)
<1> HIDE DEF one
<1>5. DOMAIN less = DOMAIN bridge /\ \A e \in DOMAIN bridge : less[e] = IF e = m THEN bridge[e] - 1 ELSE bridge[e]
  BY <1>3
<1> HIDE DEF less
<1>6. \A e \in DOMAIN bridge' : e \in DOMAIN bridge /\ bridge'[e] = less[e]
  BY <1>4, <1>5
<1>7. bridge[m] \in 1..bridge[m]
  BY <1>1, <1>2
<1>8. Thing("bridge", bridge[m], m.kind, m.s) \in Posted
  BY <1>1, <1>7 DEF Posted, PostedOf
<1>9. ASSUME NEW e \in DOMAIN bridge', NEW n \in 1..bridge'[e]
      PROVE  Thing("bridge", n, e.kind, e.s) \in Posted \ {Thing("bridge", bridge[m], m.kind, m.s)}
  <2>1. /\ e \in DOMAIN bridge /\ bridge[e] \in Nat
        /\ bridge'[e] = IF e = m THEN bridge[e] - 1 ELSE bridge[e]
    BY <1>2, <1>5, <1>6
  <2>2. n \in 1..bridge[e] /\ (e = m => n # bridge[m])
    BY <2>1
  <2>3. Thing("bridge", n, e.kind, e.s) \in Posted
    BY <2>1, <2>2 DEF Posted, PostedOf
  <2>4. e # m => ~(e.kind = m.kind /\ e.s = m.s)
    BY <1>1, <2>1 DEF Asked
  <2> QED
    BY <2>2, <2>3, <2>4, ThingIs
<1>10. Posted' \subseteq Posted \ {Thing("bridge", bridge[m], m.kind, m.s)}
  <2>1. \A y \in Posted' : \E e \in DOMAIN bridge' : \E n \in 1..bridge'[e] :
          y = Thing("bridge", n, e.kind, e.s)
    BY PostedIs DEF Posted
  <2>2. ASSUME NEW y \in Posted'
        PROVE  y \in Posted \ {Thing("bridge", bridge[m], m.kind, m.s)}
    <3>1. PICK e \in DOMAIN bridge' : \E n \in 1..bridge'[e] : y = Thing("bridge", n, e.kind, e.s)
      BY <2>1
    <3>2. PICK n \in 1..bridge'[e] : y = Thing("bridge", n, e.kind, e.s)
      BY <3>1
    <3> QED
      BY <1>9, <3>2
  <2> HIDE DEF Posted
  <2> QED
    BY <2>2
<1> QED
  BY <1>1, <1>8, <1>10

\* What is on its way to s is in flight for it.
LEMMA LiveInFlight ==
  ASSUME LifeInv, NEW s \in Sessions, NEW x \in Live, Concerns(x, s)
  PROVE  InFlight(s)
<1>1. \A v, w : v.kind = w.kind /\ v.s = w.s => (Concerns(v, s) <=> Concerns(w, s))
  BY DEF Concerns
<1>2. CASE x \in Posted
  <2>1. PICK m \in DOMAIN bridge : \E n \in 1..bridge[m] : x = Thing("bridge", n, m.kind, m.s)
    BY <1>2 DEF Posted, PostedOf
  <2>2. Concerns(m, s)
    BY <1>1, <2>1, ThingIs
  <2> QED
    BY <2>2 DEF InFlight, BagToSet
<1>3. CASE x \in Boxed
  <2>1. PICK i \in DOMAIN box : x = Thing("box", i, box[i].kind, box[i].s)
    BY <1>3 DEF Boxed, BoxedOf
  <2>2. Concerns(box[i], s)
    BY <1>1, <2>1, ThingIs
  <2> QED
    BY <2>2 DEF InFlight
<1>4. CASE x \in Scripted
  <2>1. PICK i \in DOMAIN scripts : /\ scripts[i].st # "ended"
                                    /\ x = Thing("script", i, scripts[i].kind, scripts[i].s)
    BY <1>4 DEF Scripted, ScriptedOf
  <2>2. Concerns(scripts[i], s)
    BY <1>1, <2>1, ThingIs
  <2> QED
    BY <2>1, <2>2 DEF InFlight
<1>5. CASE x \in Doomed \cup Asking
  <2>1. \/ x.s \in archiving \cup talking \cup {hand} /\ x.kind \in {"archiving", "talking", "popped"}
        \/ x.s \in Sessions /\ idles[x.s] > 0 /\ x.kind = "Idle"
    <3>1. CASE x \in Doomed
      BY <3>1, ThingIs DEF Doomed, TreeOf
    <3>2. CASE x \in IdlesOf(idles)
      <4>1. PICK t \in Sessions : \E n \in 1..idles[t] : x = Thing("idle", n, "Idle", t)
        BY <3>2 DEF IdlesOf
      <4>2. idles[t] \in Nat
        BY DEF LifeInv, WorldOK
      <4> QED
        BY <4>1, <4>2, ThingIs
    <3>3. CASE x \in Asking \ IdlesOf(idles)
      BY <3>3, ThingIs DEF Asking, TurnsOf
    <3> QED
      BY <1>5, <3>1, <3>2, <3>3
  <2>2. x.s = s
    BY <2>1 DEF Concerns
  <2> QED
    BY <2>1, <2>2 DEF InFlight
<1> QED
  BY <1>2, <1>3, <1>4, <1>5 DEF Live

\* The user waits.
LEMMA Waited ==
  ASSUME LifeInv, NEW k \in Kinds \ {"rash"}, NEW on \in SUBSET Sessions, Act(k, on),
         "rash" \notin mishaps'
  PROVE  /\ mishaps' = mishaps
         /\ \A s \in on : ~InFlight(s) /\ \A x \in Live : ~Concerns(x, s)
<1>1. \A s \in on : ~InFlight(s)
  BY DEF Act
<1>2. mishaps' = mishaps
  BY <1>1 DEF Act
<1> QED
  BY <1>1, <1>2, LiveInFlight

\* A record that differs in nothing a row or a later save depends on but the script.
Sized(r, rec) ==
  r \in Records /\ r.kept = rec.kept /\ r.ghost = rec.ghost /\ r.size = rec.size

LEMMA SameSizes ==
  ASSUME NEW rec \in Records
  PROVE  /\ Sized(Released(rec), rec)
         /\ Sized(AfterSetup(rec), rec) /\ Sized(AfterTeardown(rec), rec)
         /\ Sized([rec EXCEPT !.busy = @ + 1], rec)
         /\ \A b \in BOOLEAN : Sized([rec EXCEPT !.turn = b], rec)
         /\ \A n \in Nat : Sized(Requeued(rec, n), rec)
         /\ Sized([rec EXCEPT !.busy = 0, !.turn = FALSE, !.queued = 0], rec)
<1> USE DEF Records, Sized
<1>1. Sized(Released(rec), rec)
  BY DEF Released
<1>2. Sized(AfterSetup(rec), rec) /\ Sized(AfterTeardown(rec), rec)
  BY DEF AfterSetup, AfterTeardown
<1>3. Sized([rec EXCEPT !.busy = @ + 1], rec)
  OBVIOUS
<1>4. \A b \in BOOLEAN : Sized([rec EXCEPT !.turn = b], rec)
  OBVIOUS
<1>5. Sized([rec EXCEPT !.busy = 0, !.turn = FALSE, !.queued = 0], rec)
  <2>1. Alike([rec EXCEPT !.busy = 0, !.turn = FALSE, !.queued = 0], rec)
    BY RecordRows
  <2> DEFINE r == [rec EXCEPT !.busy = 0, !.turn = FALSE, !.queued = 0]
  <2>2. r \in Records /\ r.kept = rec.kept /\ Row(r, FALSE) = Row(rec, FALSE)
    BY <2>1 DEF Alike
  <2>3. \A x \in {r, rec} : Row(x, FALSE).size = x.size /\ Row(x, FALSE).ghost = x.ghost
    BY DEF Row
  <2> HIDE DEF r
  <2>4. Sized(r, rec)
    BY <2>2, <2>3
  <2> QED
    BY <2>4 DEF r
<1>6. \A n \in Nat : Sized(Requeued(rec, n), rec)
  BY QueueOps
<1> QED
  BY <1>1, <1>2, <1>3, <1>4, <1>5, <1>6

LEMMA RowSizes ==
  ASSUME NEW rec \in Records
  PROVE  /\ rec # NoSession /\ rec.size \in Nat
         /\ \A archived \in BOOLEAN : /\ Row(rec, archived).size = rec.size
                                      /\ Row(rec, archived).ghost = rec.ghost
                                      /\ Row(rec, archived) # NoSession
<1>1. \A archived \in BOOLEAN : Row(rec, archived) \in Rows
  BY RecordRows
<1>2. \A row \in Rows : row # NoSession
  BY NoSessionAssumption
<1>3. rec # NoSession /\ rec.size \in Nat
  BY NoSessionAssumption DEF Records
<1>4. \A archived : /\ Row(rec, archived).size = rec.size
                   /\ Row(rec, archived).ghost = rec.ghost
  BY DEF Row
<1> QED
  BY <1>1, <1>2, <1>3, <1>4

\* What a key publishes for sessions that nothing is on its way to.
LEMMA KeyOrders ==
  ASSUME LifeInv, LifeInv', Orderly, "rash" \notin mishaps', NEW s \in Sessions,
         NEW k \in Kinds \ {"rash"}, NEW on \in SUBSET Sessions, s \in on, Act(k, on),
         NEW kinds \in SUBSET Requests, Publish(kinds, s), UNCHANGED <<store, box, idle>>,
         mem' = mem \/ (Amend(s, Created) /\ ~Stored(s)),
         \A t \in Sessions, n \in kinds : Concerns(Message(n, s), t) => t \in on,
         \A n \in kinds : /\ n \notin Absent => Open(s)'
                          /\ n = "SessionForkRequested" => ~Open(s)' /\ ~Stored(s),
         \A m, n \in kinds : m # n => Fits(m, n)
  PROVE  Orderly'
<1>1. \A t \in on, x \in Live : ~Concerns(x, t)
  BY Waited
<1>2. /\ Posted' \subseteq Posted \cup Fresh(kinds, s) /\ Boxed' = Boxed /\ Scripted' = Scripted
      /\ Doomed' = Doomed /\ Asking' = Asking
  BY PostedGrows, SameThings DEF idle
<1>3. Moved(0, {}, Fresh(kinds, s))
  BY <1>2, Stays
<1>4. \A y \in Fresh(kinds, s) : /\ y.kind \in kinds /\ y.s = s
                                 /\ \A t : Concerns(y, t) <=> Concerns(Message(y.kind, s), t)
                                 /\ \A z \in Fresh(kinds, s) : y # z => y.kind # z.kind
  <2>1. \A n : Message(n, s).kind = n /\ Message(n, s).s = s
    BY DEF Message
  <2>2. ASSUME NEW n \in kinds, NEW y, y = Thing("bridge", Copies(Message(n, s)) + 1, n, s)
        PROVE  y.kind = n /\ y.s = s /\ \A t : Concerns(y, t) <=> Concerns(Message(y.kind, s), t)
    <3>1. y.kind = n /\ y.s = s
      BY <2>2, ThingIs
    <3> QED
      BY <2>1, <3>1 DEF Concerns
  <2> QED
    BY <2>2 DEF Fresh
<1>5. \A t \in Sessions, y \in Fresh(kinds, s), z \in Live : ~(Concerns(y, t) /\ Concerns(z, t))
  BY <1>1, <1>4
<1>6. \A z \in Live : z.s # s
  BY <1>1 DEF Concerns
<1>7. \A t \in Sessions \ {s} : mem'[t] = mem[t]
  BY Present DEF Amend
<1>8. Grown(s)'
  <2>1. CASE mem' = mem
    BY <2>1 DEF Orderly, Grown, Open, Stored
  <2>2. CASE Amend(s, Created) /\ ~Stored(s)
    <3>1. mem'[s] = Created
      BY <2>2, Present DEF Amend
    <3> QED
      BY <2>2, <3>1 DEF Grown, Created, Open, Stored
  <2> QED
    BY <2>1, <2>2
<1>9. \A y \in Fresh(kinds, s) :
        /\ y.kind \notin Absent => Open(y.s)'
        /\ y.kind = "SessionForkRequested" => ~Open(y.s)' /\ ~Stored(y.s)'
  BY <1>4 DEF Stored
<1> HIDE DEF Fresh, Fits, Concerns, Orderly, Grown
<1>10. \A t \in Sessions, y, z \in Fresh(kinds, s) :
         y # z /\ Concerns(y, t) /\ Concerns(z, t) => Fits(y.kind, z.kind)
  BY <1>4
<1> QED
  BY <1>3, <1>5, <1>6, <1>7, <1>8, <1>9, <1>10, Begins

\* No key but one for sessions the user has waited for, or ESC.
LEMMA UserOrders ==
  ASSUME LifeInv, LifeInv', Patient, NEW s \in Sessions, User(s)
  PROVE  Patient'
<1> SUFFICES ASSUME "rash" \notin mishaps'
             PROVE  Orderly'
  BY DEF Patient
<1>1. Orderly
  <2>1. \A k, on : Act(k, on) => mishaps \subseteq mishaps'
    BY DEF Act
  <2>2. mishaps \subseteq mishaps'
    BY <2>1 DEF User, CreateSession, ForkFromEntry, SubmitMessage, LoadSession, EscConfirm,
                RerunSetup, Teardown, Key, TreeKey
  <2> QED
    BY <2>2 DEF Patient
<1> HIDE DEF Orderly
<1>2. /\ "create" \in Kinds \ {"rash"} /\ "fork" \in Kinds \ {"rash"} /\ "submit" \in Kinds \ {"rash"}
      /\ "load" \in Kinds \ {"rash"} /\ "rerun" \in Kinds \ {"rash"}
      /\ "teardown" \in Kinds \ {"rash"} /\ "close" \in Kinds \ {"rash"}
      /\ "archive" \in Kinds \ {"rash"} /\ "closeTree" \in Kinds \ {"rash"}
      /\ "archiveTree" \in Kinds \ {"rash"}
  BY DEF Kinds
<1>3. \A n, t : Message(n, s).kind = n /\ Message(n, s).s = s
  BY DEF Message
<1>4. ASSUME NEW kinds \in SUBSET Requests, kinds \cap {"ArchiveSessionTree", "TeardownSessionTree"} = {},
             NEW t \in Sessions, NEW n \in kinds, Concerns(Message(n, s), t)
      PROVE  t = s
  <2>1. n # "CloseTree"
    BY <1>4 DEF Requests
  <2> QED
    BY <1>3, <1>4, <2>1 DEF Concerns
<1>5. CASE CreateSession(s)
  <2> DEFINE kinds == {"PersistSession", "PushChatEntry", "RunSessionSetup"}
  <2>1. kinds \in SUBSET Requests /\ \A m, n \in kinds : m # n => Fits(m, n)
    BY DEF Requests, Fits, Light, Setups
  <2>2. Open(s)'
    <3>1. mem'[s] = Created
      BY <1>5, Present DEF CreateSession, Amend
    <3> QED
      BY <3>1, RowsLoaded, NoSessionAssumption DEF Open
  <2>3. /\ Act("create", {s}) /\ Publish(kinds, s) /\ UNCHANGED <<store, box, idle>>
        /\ Amend(s, Created) /\ ~Stored(s)
    BY <1>5 DEF CreateSession
  <2>4. "SessionForkRequested" \notin kinds /\ kinds \cap {"ArchiveSessionTree", "TeardownSessionTree"} = {}
    OBVIOUS
  <2> HIDE DEF kinds
  <2> QED
    BY <1>1, <1>2, <1>4, <2>1, <2>2, <2>3, <2>4, KeyOrders
<1>6. CASE ForkFromEntry(s)
  <2> DEFINE kinds == {"SessionForkRequested"}
             on == {s, Parent[s]}
  <2>1. kinds \in SUBSET Requests /\ on \in SUBSET Sessions
    BY SessionsAssumption DEF Requests
  <2>2. /\ Act("fork", on) /\ Publish(kinds, s) /\ UNCHANGED <<store, box, idle>>
        /\ mem' = mem /\ ~Open(s) /\ ~Stored(s)
    BY <1>6 DEF ForkFromEntry
  <2>3. /\ \A n \in kinds : n \in Absent /\ ~Open(s)' /\ ~Stored(s)
        /\ \A m, n \in kinds : m # n => Fits(m, n)
    BY <2>2 DEF Absent, Open
  <2>4. s \in on /\ kinds \cap {"ArchiveSessionTree", "TeardownSessionTree"} = {}
    OBVIOUS
  <2> HIDE DEF kinds, on
  <2> QED
    BY <1>1, <1>2, <1>4, <2>1, <2>2, <2>3, <2>4, KeyOrders
<1>7. CASE SubmitMessage(s)
  <2> DEFINE kinds == {"EnqueueUserMessage", "MarkSessionInteracted"}
  <2>1. kinds \in SUBSET Requests /\ \A m, n \in kinds : m # n => Fits(m, n)
    BY DEF Requests, Fits, Light, Setups
  <2>2. /\ Act("submit", {s}) /\ Publish(kinds, s) /\ UNCHANGED <<store, box, idle>>
        /\ mem' = mem /\ Open(s)'
    BY <1>7 DEF SubmitMessage, Open
  <2>3. "SessionForkRequested" \notin kinds /\ kinds \cap {"ArchiveSessionTree", "TeardownSessionTree"} = {}
    OBVIOUS
  <2> HIDE DEF kinds
  <2> QED
    BY <1>1, <1>2, <1>4, <2>1, <2>2, <2>3, KeyOrders
<1>8. CASE LoadSession(s)
  <2> DEFINE kinds == {"SessionLoadRequested"}
  <2>1. kinds \in SUBSET Requests /\ \A m, n \in kinds : m # n => Fits(m, n)
    BY DEF Requests
  <2>2. /\ Act("load", {s}) /\ Publish(kinds, s) /\ UNCHANGED <<store, box, idle>> /\ mem' = mem
    BY <1>8 DEF LoadSession
  <2>3. /\ "SessionForkRequested" \notin kinds /\ kinds \subseteq Absent
        /\ kinds \cap {"ArchiveSessionTree", "TeardownSessionTree"} = {}
    BY DEF Absent
  <2> HIDE DEF kinds
  <2> QED
    BY <1>1, <1>2, <1>4, <2>1, <2>2, <2>3, KeyOrders
<1>9. ASSUME NEW k \in Kinds \ {"rash"}, NEW kinds \in SUBSET Requests, Key(k, s, kinds),
             kinds \cap {"ArchiveSessionTree", "TeardownSessionTree", "SessionForkRequested"} = {},
             \A m, n \in kinds : m # n => Fits(m, n)
      PROVE  Orderly'
  <2>1. /\ Act(k, {s}) /\ Publish(kinds, s) /\ UNCHANGED <<store, box, idle>>
        /\ mem' = mem /\ Open(s)'
    BY <1>9 DEF Key, Open
  <2>2. "SessionForkRequested" \notin kinds /\ kinds \cap {"ArchiveSessionTree", "TeardownSessionTree"} = {}
    BY <1>9
  <2> QED
    BY <1>1, <1>4, <1>9, <2>1, <2>2, KeyOrders
<1>10. ASSUME NEW k \in Kinds \ {"rash"}, NEW n \in {"ArchiveSessionTree", "TeardownSessionTree"},
              TreeKey(k, s, {n})
       PROVE  Orderly'
  <2> DEFINE kinds == {n}
             on == {x \in Sessions : s \in {x, Parent[x]}}
  <2>1. kinds \in SUBSET Requests /\ on \in SUBSET Sessions /\ s \in on
    BY DEF Requests
  <2>2. /\ Act(k, on) /\ Publish(kinds, s) /\ UNCHANGED <<store, box, idle>>
        /\ mem' = mem /\ Open(s)'
    BY <1>10 DEF TreeKey, Open
  <2>3. \A t \in Sessions, m \in kinds : Concerns(Message(m, s), t) => t \in on
    BY <1>3 DEF Concerns
  <2>4. "SessionForkRequested" \notin kinds /\ \A l, m \in kinds : l # m => Fits(l, m)
    OBVIOUS
  <2> HIDE DEF kinds, on
  <2> QED
    BY <1>1, <2>1, <2>2, <2>3, <2>4, KeyOrders
<1>11. CASE EscConfirm(s)
  <2>1. /\ Posted' \subseteq Posted \cup Fresh({"CancelLifecycleCommand"}, s)
        /\ Boxed' = Boxed /\ Scripted' = Scripted /\ Doomed' = Doomed /\ Asking' = Asking
    <3>1. {"CancelLifecycleCommand"} \in SUBSET Requests
      BY DEF Requests
    <3>2. CASE bridge' = bridge
      BY <1>11, <3>2, SameThings DEF EscConfirm, idle
    <3>3. CASE Publish({"CancelLifecycleCommand"}, s)
      BY <1>11, <3>1, <3>3, SameThings, PostedGrows DEF EscConfirm, idle
    <3> HIDE DEF Publish
    <3> QED
      BY <1>11, <3>2, <3>3 DEF EscConfirm
  <2>2. Moved(0, {}, Fresh({"CancelLifecycleCommand"}, s))
    BY <2>1, Stays
  <2>3. \A y \in Fresh({"CancelLifecycleCommand"}, s) : ~Counts(y)
    BY ThingIs DEF Fresh, Counts
  <2>4. Moved(0, {}, {})
    BY <2>2, <2>3 DEF Moved, Live, Counts
  <2>5. Open(s) /\ mem[s] \in Records /\ store' = store
    BY <1>11, Present DEF EscConfirm
  <2>6. /\ mem'[s].kept = mem[s].kept /\ mem'[s].ghost = mem[s].ghost
        /\ mem'[s].size = mem[s].size /\ mem'[s] # NoSession
        /\ \A t \in Sessions \ {s} : mem'[t] = mem[t]
    <3>1. PICK rec \in Records : /\ rec = [mem[s] EXCEPT !.busy = 0, !.turn = FALSE, !.queued = 0]
                                 /\ rec.kept = mem[s].kept /\ rec.ghost = mem[s].ghost
                                 /\ rec.size = mem[s].size
      BY <2>5, SameSizes DEF Sized
    <3>2. Amend(s, rec)
      BY <1>11, <3>1 DEF EscConfirm
    <3> QED
      BY <3>1, <3>2, Present, NoSessionAssumption DEF Amend
  <2>7. Lone'
    BY <1>1, <2>4, Succession DEF Orderly
  <2>8. \A t \in Sessions : (Open(t)' <=> Open(t)) /\ (Stored(t)' <=> Stored(t))
    BY <2>5, <2>6 DEF Open, Stored
  <2>9. Attended' /\ ForkNew'
    <3>1. \A y \in Live' : \E z \in Live : z.s = y.s /\ z.kind = y.kind /\ y.s \in Sessions
      BY <2>4, CameIs, LiveThingsNext DEF Moved
    <3> QED
      BY <1>1, <2>8, <3>1 DEF Orderly, Attended, ForkNew
  <2>10. \A t \in Sessions : Grown(t)'
    <3>1. \A t \in Sessions : Grown(t)
      BY <1>1 DEF Orderly
    <3>2. Grown(s)'
      BY <2>5, <2>6, <2>8, <3>1 DEF Grown
    <3>3. \A t \in Sessions \ {s} : Grown(t)'
      BY <2>5, <2>6, <2>8, <3>1 DEF Grown
    <3> QED
      BY <3>2, <3>3
  <2> QED
    BY <2>7, <2>9, <2>10 DEF Orderly
<1>12. /\ RerunSetup(s) => Key("rerun", s, {"PushChatEntry", "RunSessionSetup"})
       /\ Teardown(s) => Key("teardown", s, {"RunSessionTeardown"})
  BY DEF RerunSetup, Teardown
<1>13. /\ {"PushChatEntry", "RunSessionSetup"} \in SUBSET Requests
       /\ {"RunSessionTeardown"} \in SUBSET Requests
       /\ {"CloseSession"} \in SUBSET Requests /\ {"ArchiveSession"} \in SUBSET Requests
       /\ Fits("PushChatEntry", "RunSessionSetup") /\ Fits("RunSessionSetup", "PushChatEntry")
  BY DEF Requests, Fits, Light, Setups
<1>14. ASSUME \/ Key("rerun", s, {"PushChatEntry", "RunSessionSetup"})
              \/ Key("teardown", s, {"RunSessionTeardown"})
              \/ Key("close", s, {"CloseSession"}) \/ Key("archive", s, {"ArchiveSession"})
       PROVE  Orderly'
  BY <1>2, <1>9, <1>13, <1>14
<1> QED
  BY <1>2, <1>5, <1>6, <1>7, <1>8, <1>10, <1>11, <1>12, <1>14 DEF User

\* No text of s is taken back, s is not forgotten, and its row stays behind it.
TextKept(s) == Stored(s) => Stored(s)' /\ store'[s].size >= store[s].size
Lasts(s) == TextKept(s) /\ (Open(s) => Open(s)' \/ Stored(s)')
Grows(s) == Grown(s)' /\ Lasts(s)

\* A record that may stand for s.
Fair(s, rec) ==
  /\ rec \in Records /\ rec.kept /\ ~rec.ghost
  /\ Stored(s) => rec.size >= store[s].size

LEMMA FairRecords ==
  ASSUME LifeInv, NEW s \in Sessions
  PROVE  /\ Grown(s) /\ Open(s) => Fair(s, mem[s]) /\ GetOrCreate(s) = mem[s]
         /\ \A rec : Fair(s, rec) =>
              /\ Fair(s, Said(rec)) /\ Fair(s, Released(rec))
              /\ Fair(s, AfterSetup(rec)) /\ Fair(s, AfterTeardown(rec))
              /\ Fair(s, [rec EXCEPT !.busy = @ + 1]) /\ Fair(s, [rec EXCEPT !.kept = TRUE])
              /\ \A b \in BOOLEAN : Fair(s, [rec EXCEPT !.turn = b])
              /\ \A n \in Nat : Fair(s, Requeued(rec, n))
         /\ Grown(s) /\ Stored(s) => Fair(s, FromRow(store[s]))
         /\ \A t \in Sessions : Grown(t) /\ Stored(t) /\ ~Stored(s) => Fair(s, FromRow(store[t]))
<1>1. \A t \in Sessions : Stored(t) => store[t] \in Rows /\ store[t].size \in Nat
  BY Present DEF Rows
<1>2. Grown(s) /\ Open(s) => Fair(s, mem[s]) /\ GetOrCreate(s) = mem[s]
  BY Present DEF Grown, Fair, GetOrCreate
<1>3. ASSUME NEW rec, Fair(s, rec), NEW r, Sized(r, rec)
      PROVE  Fair(s, r)
  BY <1>3 DEF Fair, Sized
<1>4. ASSUME NEW rec, Fair(s, rec)
      PROVE  /\ Fair(s, Said(rec)) /\ Fair(s, Released(rec))
             /\ Fair(s, AfterSetup(rec)) /\ Fair(s, AfterTeardown(rec))
             /\ Fair(s, [rec EXCEPT !.busy = @ + 1]) /\ Fair(s, [rec EXCEPT !.kept = TRUE])
             /\ \A b \in BOOLEAN : Fair(s, [rec EXCEPT !.turn = b])
             /\ \A n \in Nat : Fair(s, Requeued(rec, n))
  <2>1. rec \in Records /\ rec.kept
    BY <1>4 DEF Fair
  <2>2. Fair(s, Said(rec))
    <3>1. Said(rec) \in Records /\ Said(rec).kept = rec.kept
      BY <2>1, RecordRows
    <3>2. Said(rec).size = rec.size + 1 /\ Said(rec).ghost = rec.ghost /\ rec.size \in Nat
      BY <2>1 DEF Said, Records
    <3>3. Stored(s) => Said(rec).size >= store[s].size
      BY <1>1, <1>4, <3>2 DEF Fair
    <3> QED
      BY <1>4, <3>1, <3>2, <3>3 DEF Fair
  <2>3. [rec EXCEPT !.kept = TRUE] = rec
    BY <2>1 DEF Records
  <2>4. /\ Sized(Released(rec), rec)
        /\ Sized(AfterSetup(rec), rec) /\ Sized(AfterTeardown(rec), rec)
        /\ Sized([rec EXCEPT !.busy = @ + 1], rec)
        /\ \A b \in BOOLEAN : Sized([rec EXCEPT !.turn = b], rec)
        /\ \A n \in Nat : Sized(Requeued(rec, n), rec)
    BY <2>1, SameSizes
  <2>5. Fair(s, [rec EXCEPT !.kept = TRUE])
    BY <1>4, <2>3
  <2>6. \A r : Sized(r, rec) => Fair(s, r)
    BY <1>3, <1>4
  <2> QED
    BY <2>2, <2>4, <2>5, <2>6
<1>5. ASSUME NEW t \in Sessions, Grown(t), Stored(t), t = s \/ ~Stored(s)
      PROVE  Fair(s, FromRow(store[t]))
  <2>1. /\ FromRow(store[t]) \in Records /\ FromRow(store[t]).kept
        /\ FromRow(store[t]).size = store[t].size /\ FromRow(store[t]).ghost = store[t].ghost
    <3>1. store[t] \in Rows
      BY <1>1, <1>5
    <3>2. FromRow(store[t]) \in Records /\ FromRow(store[t]).kept
      BY <3>1, RowsLoaded
    <3>3. FromRow(store[t]).size = store[t].size /\ FromRow(store[t]).ghost = store[t].ghost
      BY <3>1 DEF FromRow, Created, Rows
    <3> QED
      BY <3>2, <3>3
  <2>2. store[t].size \in Nat /\ ~store[t].ghost
    BY <1>1, <1>5 DEF Grown
  <2> QED
    BY <1>5, <2>1, <2>2 DEF Fair
<1> QED
  BY <1>2, <1>4, <1>5

\* Such a record may be saved, or put away, or kept for a later save.
LEMMA FairGrows ==
  ASSUME LifeInv, NEW s \in Sessions, Grown(s), NEW rec, Fair(s, rec),
         AmendAndSave(s, rec) \/ PutAway(s, rec) \/ (Amend(s, rec) /\ store' = store)
  PROVE  /\ Grows(s) /\ \A t \in Sessions \ {s} : mem'[t] = mem[t] /\ store'[t] = store[t]
         /\ AmendAndSave(s, rec) \/ Amend(s, rec) => Open(s)'
<1>1. rec \in Records /\ rec.kept /\ ~rec.ghost /\ (Stored(s) => rec.size >= store[s].size)
  BY DEF Fair
<1>2. DOMAIN mem = Sessions /\ DOMAIN store = Sessions /\ (Stored(s) => store[s] \in Rows)
  BY Present
<1>3. \A archived \in BOOLEAN : /\ Row(rec, archived).size = rec.size /\ ~Row(rec, archived).ghost
                                /\ Row(rec, archived) # NoSession
  BY <1>1, RowSizes
<1>4. rec # NoSession /\ rec.size \in Nat /\ rec.size >= rec.size
  <2>1. rec # NoSession /\ rec.size \in Nat
    BY <1>1, RowSizes
  <2> QED
    BY <2>1
<1>5. CASE AmendAndSave(s, rec)
  <2>1. /\ mem'[s] = rec /\ store'[s] = Row(rec, FALSE)
        /\ \A t \in Sessions \ {s} : mem'[t] = mem[t] /\ store'[t] = store[t]
    BY <1>1, <1>2, <1>5 DEF AmendAndSave, Amend, Save
  <2> QED
    BY <1>1, <1>3, <1>4, <2>1 DEF Grows, Grown, Lasts, TextKept, Open, Stored
<1>6. CASE PutAway(s, rec) /\ ~AmendAndSave(s, rec)
  <2>1. /\ mem'[s] = NoSession /\ store'[s] = Row(rec, TRUE)
        /\ \A t \in Sessions \ {s} : mem'[t] = mem[t] /\ store'[t] = store[t]
    BY <1>1, <1>2, <1>6 DEF PutAway, Save
  <2>2. ~Amend(s, rec)
    BY <1>2, <1>4, <2>1 DEF Amend
  <2> QED
    BY <1>1, <1>3, <1>6, <2>1, <2>2 DEF Grows, Grown, Lasts, TextKept, Open, Stored
<1>7. CASE Amend(s, rec) /\ store' = store
  <2>1. /\ mem'[s] = rec /\ \A t \in Sessions \ {s} : mem'[t] = mem[t]
    BY <1>2, <1>7 DEF Amend
  <2>2. Stored(s) => store[s].size \in Nat /\ store[s].size >= store[s].size
    BY <1>2 DEF Rows
  <2> QED
    BY <1>1, <1>4, <1>7, <2>1, <2>2 DEF Grows, Grown, Lasts, TextKept, Open, Stored
<1> QED
  BY <1>5, <1>6, <1>7

LEMMA StillGrown ==
  ASSUME LifeInv, NEW s \in Sessions, mem'[s] = mem[s], store'[s] = store[s]
  PROVE  (Grown(s) => Grows(s)) /\ Lasts(s)
<1>1. Stored(s) => store[s].size \in Nat
  BY Present DEF Rows
<1>2. Lasts(s)
  <2>1. Stored(s) => store[s].size >= store[s].size
    BY <1>1
  <2> QED
    BY <2>1 DEF Lasts, TextKept, Open, Stored
<1> QED
  BY <1>2 DEF Grows, Grown, Open, Stored

Trees == {"ArchiveSessionTree", "TeardownSessionTree", "CloseTree"}

LEMMA Heirs ==
  ASSUME NEW x, NEW y,
         \/ x.kind \notin Light \/ y.kind \in Light \ Setups
         \/ (x.kind \in Setups /\ y.kind \in Setups),
         \/ (y.s = x.s /\ (y.kind \notin Trees \/ x.kind \in Trees))
         \/ (x.kind \in Trees /\ y.kind \notin Trees /\ x.s = Parent[y.s])
  PROVE  Heir(y, x)
<1>1. \A k : Fits(x.kind, k) => Fits(y.kind, k)
  BY DEF Fits, Light, Setups
<1>2. ASSUME NEW s \in Sessions, Concerns(y, s)
      PROVE  Concerns(x, s)
  BY <1>2 DEF Concerns, Trees
<1> QED
  BY <1>1, <1>2 DEF Heir

\* Things that only leave.
LEMMA Lessened ==
  ASSUME LifeInv', Orderly, NEW d \in {0, 1}, NEW used, Moved(d, used, {}),
         mem' = mem, store' = store
  PROVE  Orderly'
<1>1. Lone /\ Attended /\ ForkNew /\ \A t \in Sessions : Grown(t)
  BY DEF Orderly
<1>2. Lone'
  BY <1>1, Succession
<1>3. \A y \in Live' : \E z \in Live : z.s = y.s /\ z.kind = y.kind
  BY CameIs DEF Moved
<1>4. Attended' /\ ForkNew'
  BY <1>1, <1>3 DEF Attended, ForkNew, Open, Stored
<1> QED
  BY <1>1, <1>2, <1>4 DEF Orderly, Grown, Open, Stored

\* A thing that moves on.
LEMMA Passed ==
  ASSUME LifeInv', Orderly, NEW x \in Live, NEW y, Moved(0, {x}, {y}), y.s = x.s, Heir(y, x),
         y.kind \notin Absent => x.kind \notin Absent,
         y.kind = "SessionForkRequested" => x.kind = "SessionForkRequested",
         mem' = mem, store' = store
  PROVE  Orderly'
<1>1. Lone /\ Attended /\ ForkNew /\ \A t \in Sessions : Grown(t)
  BY DEF Orderly
<1>2. Lone'
  <2>1. ASSUME NEW s \in Sessions, NEW z \in Live \ {x}, Concerns(y, s), Concerns(z, s)
        PROVE  Fits(y.kind, z.kind)
    BY <1>1, <2>1 DEF Lone, Heir
  <2> QED
    BY <1>1, <2>1, Succession
<1>3. \A v \in Live' : v = y \/ \E z \in Live : z.s = v.s /\ z.kind = v.kind
  BY CameIs DEF Moved
<1>4. Attended' /\ ForkNew'
  BY <1>1, <1>3 DEF Attended, ForkNew, Open, Stored
<1> QED
  BY <1>1, <1>2, <1>4 DEF Orderly, Grown, Open, Stored

\* What the session actor took is used up; what it leaves takes its place.
LEMMA Handled ==
  ASSUME LifeInv, LifeInv', Orderly, NEW x \in Live, NEW s \in Sessions, x.s = s, NEW new,
         Moved(1, {x}, new),
         \A y \in new : /\ Heir(y, x) /\ y.kind # "SessionForkRequested"
                        /\ y.kind \notin Absent => Open(y.s)',
         \A t \in Sessions, y, z \in new : ~(y # z /\ Concerns(y, t) /\ Concerns(z, t)),
         \A t \in Sessions \ {s} : mem'[t] = mem[t] /\ store'[t] = store[t],
         Grows(s), (Open(s) => Open(s)') \/ x.kind \notin Light
  PROVE  Orderly' /\ \A t \in Sessions : Lasts(t)
<1>1. Orderly'
  BY Stepped DEF Grows
<1>2. \A t \in Sessions : Lasts(t)
  BY StillGrown DEF Grows
<1> QED
  BY <1>1, <1>2

\* Who the session actor is told of.
LEMMA ToldIs ==
  ASSUME LifeInv, Orderly, box # <<>>
  PROVE  /\ Told \in Sessions /\ Grown(Told) /\ First.kind = Head(box).kind /\ First.s = Told
         /\ Counts(First) <=> Head(box).kind # "CancelLifecycleCommand"
         /\ Counts(First) /\ Head(box).kind \notin Absent => Open(Told)
         /\ Head(box).kind = "SessionForkRequested" => ~Open(Told) /\ ~Stored(Told)
<1>1. Told \in Sessions
  BY Taken
<1>2. First.kind = Head(box).kind /\ First.s = Told /\ (Counts(First) => First \in Live)
  BY FirstLive
<1>3. Head(box).kind = "SessionForkRequested" => Counts(First)
  BY <1>2 DEF Counts
<1> QED
  BY <1>1, <1>2, <1>3 DEF Counts, Orderly, Attended, ForkNew

\* A turn begins, or its end is announced to the queue actor.
LEMMA AskingGrows ==
  ASSUME LifeInv, NEW s \in Sessions
  PROVE  /\ talking' = talking \cup {s} /\ queue' = queue =>
              Asking' \subseteq Asking \cup {Thing("turn", 0, "talking", s)}
         /\ talking' = talking /\ hand' = hand /\ idles' = [idles EXCEPT ![s] = @ + 1] =>
              Asking' \subseteq Asking \cup {Thing("idle", idles[s] + 1, "Idle", s)}
<1>1. talking' = talking \cup {s} /\ queue' = queue =>
        Asking' \subseteq Asking \cup {Thing("turn", 0, "talking", s)}
  BY DEF Asking, TurnsOf, queue
<1>2. ASSUME talking' = talking, hand' = hand, idles' = [idles EXCEPT ![s] = @ + 1]
      PROVE  Asking' \subseteq Asking \cup {Thing("idle", idles[s] + 1, "Idle", s)}
  <2>1. idles \in [Sessions -> Nat]
    BY DEF LifeInv, WorldOK
  <2>2. ASSUME NEW t \in Sessions, NEW n \in 1..idles'[t]
        PROVE  n \in 1..idles[t] \/ (t = s /\ n = idles[s] + 1)
    BY <1>2, <2>1
  <2>3. IdlesOf(idles') \subseteq IdlesOf(idles) \cup {Thing("idle", idles[s] + 1, "Idle", s)}
    BY <2>2 DEF IdlesOf
  <2> QED
    BY <1>2, <2>3 DEF Asking, TurnsOf
<1> QED
  BY <1>1, <1>2

\* A handler that leaves nothing on its way but perhaps a turn.
LEMMA PersistenceOrders ==
  ASSUME LifeInv, LifeInv', Orderly,
         \/ HandlePushChatEntry \/ HandlePersistSession \/ HandleMarkSessionInteracted
         \/ HandleEnqueueUserMessage \/ OnStreamCompleted \/ OnLoadRequested
         \/ OnSessionForkRequested
  PROVE  Orderly' /\ \A t \in Sessions : Lasts(t)
<1>0. PICK x, s : x = First /\ s = Told
  OBVIOUS
<1>1. /\ box # <<>> /\ box' = Tail(box) /\ UNCHANGED <<bridge, scripts, archiving>>
      /\ Head(box).kind # "CancelLifecycleCommand"
  BY DEF HandlePushChatEntry, HandlePersistSession, HandleMarkSessionInteracted,
         HandleEnqueueUserMessage, OnStreamCompleted, OnLoadRequested,
         OnSessionForkRequested, Heads, Done, user, idle
<1>2. /\ s \in Sessions /\ Grown(s) /\ x.kind = Head(box).kind /\ x.s = s /\ x \in Live
      /\ Head(box).kind \notin Absent => Open(s)
      /\ Head(box).kind = "SessionForkRequested" => ~Open(s) /\ ~Stored(s)
  BY <1>0, <1>1, ToldIs, FirstLive
<1>3. /\ UNCHANGED <<talking, queue>> => Moved(1, {x}, {})
      /\ talking' = talking \cup {s} /\ queue' = queue =>
           Moved(1, {x}, {Thing("turn", 0, "talking", s)})
      /\ talking' = talking /\ hand' = hand /\ idles' = [idles EXCEPT ![s] = @ + 1] =>
           Moved(1, {x}, {Thing("idle", idles[s] + 1, "Idle", s)})
  <2>1. /\ talking' = talking \cup {s} /\ queue' = queue =>
             Asking' \subseteq Asking \cup {Thing("turn", 0, "talking", s)}
        /\ UNCHANGED <<talking, queue>> => Asking' \subseteq Asking
        /\ talking' = talking /\ hand' = hand /\ idles' = [idles EXCEPT ![s] = @ + 1] =>
             Asking' \subseteq Asking \cup {Thing("idle", idles[s] + 1, "Idle", s)}
    BY <1>2, AskingGrows, SameThings
  <2>2. Scripted' = Scripted /\ Doomed' = Doomed
    BY <1>1, SameThings
  <2> QED
    BY <1>0, <1>1, <2>1, <2>2, HandlerMoves
<1>4. ASSUME NEW rec, Fair(s, rec), AmendAndSave(s, rec), UNCHANGED <<talking, queue>>
      PROVE  Orderly' /\ \A t \in Sessions : Lasts(t)
  <2>1. /\ Grows(s) /\ \A t \in Sessions \ {s} : mem'[t] = mem[t] /\ store'[t] = store[t]
        /\ Open(s)'
    <3>1. rec # NoSession /\ mem'[s] = rec
      BY <1>2, <1>4, RowSizes, Present DEF Fair, AmendAndSave, Amend
    <3> QED
      BY <1>2, <1>4, <3>1, FairGrows DEF Open
  <2> QED
    BY <1>1, <1>2, <1>3, <1>4, <2>1, Handled
<1>5. CASE UNCHANGED <<mem, store, talking, queue>>
  BY <1>1, <1>2, <1>3, <1>5, Lessened, StillGrown
<1>6. /\ Open(s) => Fair(s, mem[s]) /\ GetOrCreate(s) = mem[s]
      /\ Stored(s) => Fair(s, FromRow(store[s]))
  BY <1>2, FairRecords
<1>7. CASE HandlePushChatEntry
  <2>1. Open(s) /\ UNCHANGED <<talking, queue>> /\ AmendAndSave(s, Said(GetOrCreate(s)))
    BY <1>0, <1>2, <1>7 DEF HandlePushChatEntry, Heads, Absent, idle
  <2> QED
    BY <1>2, <1>4, <1>6, <2>1, FairRecords
<1>8. CASE HandlePersistSession
  <2>1. Open(s) /\ UNCHANGED <<talking, queue>> /\ mem' = mem /\ Save(s, mem[s], FALSE)
    BY <1>0, <1>2, <1>8 DEF HandlePersistSession, Heads, Absent, idle
  <2>2. AmendAndSave(s, mem[s])
    BY <1>2, <2>1, Present DEF AmendAndSave, Amend
  <2> QED
    BY <1>4, <1>6, <2>1, <2>2
<1>9. CASE HandleMarkSessionInteracted
  <2>1. Open(s) /\ UNCHANGED <<talking, queue>> /\ AmendAndSave(s, [mem[s] EXCEPT !.kept = TRUE])
    BY <1>0, <1>2, <1>9 DEF HandleMarkSessionInteracted, Heads, Absent, idle
  <2> QED
    BY <1>2, <1>4, <1>6, <2>1, FairRecords
<1>10. CASE HandleEnqueueUserMessage
  <2>1. Open(s) /\ Head(box).kind = "EnqueueUserMessage"
    BY <1>0, <1>2, <1>10 DEF HandleEnqueueUserMessage, Heads, Absent
  <2>2. CASE GetOrCreate(s).turn
    <3>1. PICK n \in Nat : /\ Amend(s, Requeued(GetOrCreate(s), n))
                           /\ UNCHANGED <<store, talking, queue>>
      BY <1>0, <1>10, <2>2, TextQueued DEF HandleEnqueueUserMessage
    <3>2. PICK rec : rec = Requeued(GetOrCreate(s), n) /\ Fair(s, rec)
      <4>1. Fair(s, GetOrCreate(s))
        BY <1>6, <2>1
      <4>2. Fair(s, Requeued(GetOrCreate(s), n))
        BY <1>2, <4>1, FairRecords
      <4> QED
        BY <4>2
    <3>3. /\ Grows(s) /\ \A t \in Sessions \ {s} : mem'[t] = mem[t] /\ store'[t] = store[t]
          /\ Open(s)'
      BY <1>2, <3>1, <3>2, FairGrows
    <3>4. Moved(1, {x}, {})
      BY <1>3, <3>1
    <3> QED
      BY <1>1, <1>2, <3>3, <3>4, Handled
  <2>3. CASE ~GetOrCreate(s).turn
    <3> DEFINE rec == [Said(GetOrCreate(s)) EXCEPT !.turn = TRUE]
               turn == Thing("turn", 0, "talking", s)
    <3>1. Fair(s, rec)
      BY <1>2, <1>6, <2>1, FairRecords
    <3>2. AmendAndSave(s, rec) /\ talking' = talking \cup {s} /\ queue' = queue
      BY <1>0, <1>10, <2>3 DEF HandleEnqueueUserMessage
    <3> HIDE DEF rec
    <3>3. /\ Grows(s) /\ \A t \in Sessions \ {s} : mem'[t] = mem[t] /\ store'[t] = store[t]
          /\ Open(s)'
      <4>1. rec # NoSession /\ mem'[s] = rec
        BY <1>2, <3>1, <3>2, RowSizes, Present DEF Fair, AmendAndSave, Amend
      <4> QED
        BY <1>2, <3>1, <3>2, <4>1, FairGrows DEF Open
    <3>4. turn.kind = "talking" /\ turn.s = s
      BY ThingIs
    <3>5. Heir(turn, x)
      <4>1. turn.kind \in Light \ Setups /\ turn.kind \notin Trees
        BY <3>4 DEF Light, Setups, Trees
      <4> QED
        BY <1>2, <3>4, <4>1, Heirs
    <3>6. Moved(1, {x}, {turn})
      BY <1>3, <3>2
    <3> HIDE DEF turn
    <3> QED
      BY <1>1, <1>2, <3>3, <3>4, <3>5, <3>6, Handled
  <2> QED
    BY <2>2, <2>3
<1>11. CASE OnStreamCompleted
  <2>1. /\ Open(s) /\ Head(box).kind = "StreamCompleted"
        /\ UNCHANGED <<talking, hand, overtaken>>
    BY <1>0, <1>2, <1>11 DEF OnStreamCompleted, Heads, Absent
  <2>2. PICK n \in Nat :
          /\ AmendAndSave(s, Requeued([Said(GetOrCreate(s)) EXCEPT !.turn = FALSE], n))
          /\ idles' \in {idles, [idles EXCEPT ![s] = @ + 1]}
    BY <1>0, <1>11, TurnOver
  <2>3. PICK rec : /\ rec = Requeued([Said(GetOrCreate(s)) EXCEPT !.turn = FALSE], n)
                   /\ Fair(s, rec)
    <3>1. Fair(s, Said(GetOrCreate(s)))
      BY <1>2, <1>6, <2>1, FairRecords
    <3>2. Fair(s, [Said(GetOrCreate(s)) EXCEPT !.turn = FALSE])
      BY <1>2, <3>1, FairRecords
    <3>3. Fair(s, Requeued([Said(GetOrCreate(s)) EXCEPT !.turn = FALSE], n))
      BY <1>2, <3>2, FairRecords
    <3> QED
      BY <3>3
  <2>4. CASE idles' = idles
    <3>1. queue' = queue
      BY <2>1, <2>4 DEF queue
    <3> QED
      BY <1>4, <2>1, <2>2, <2>3, <3>1
  <2>5. CASE idles' = [idles EXCEPT ![s] = @ + 1]
    <3>1. PICK y : y = Thing("idle", idles[s] + 1, "Idle", s) /\ y.kind = "Idle" /\ y.s = s
      BY ThingIs
    <3>2. Moved(1, {x}, {y})
      BY <1>3, <2>1, <2>5, <3>1
    <3>3. Heir(y, x)
      <4>1. y.kind \in Light \ Setups /\ y.kind \notin Trees
        BY <3>1 DEF Light, Setups, Trees
      <4> QED
        BY <1>2, <3>1, <4>1, Heirs
    <3>4. /\ Grows(s) /\ \A t \in Sessions \ {s} : mem'[t] = mem[t] /\ store'[t] = store[t]
          /\ Open(s)'
      BY <1>2, <2>2, <2>3, FairGrows
    <3> QED
      BY <1>1, <1>2, <3>1, <3>2, <3>3, <3>4, Handled
  <2> QED
    BY <2>2, <2>4, <2>5
<1>12. CASE OnLoadRequested
  BY <1>0, <1>4, <1>5, <1>6, <1>12 DEF OnLoadRequested, idle
<1>13. CASE OnSessionForkRequested
  <2>1. Parent[s] \in Sessions /\ Grown(Parent[s]) /\ ~Stored(s)
    BY <1>0, <1>2, <1>13, SessionsAssumption DEF Orderly, OnSessionForkRequested, Heads
  <2>2. Stored(Parent[s]) => Fair(s, FromRow(store[Parent[s]]))
    BY <1>2, <2>1, FairRecords
  <2> QED
    BY <1>0, <1>4, <1>5, <1>13, <2>2 DEF OnSessionForkRequested, idle
<1> QED
  BY <1>7, <1>8, <1>9, <1>10, <1>11, <1>12, <1>13

LEMMA Answers ==
  ASSUME NEW s \in Sessions
  PROVE  /\ Message("PushChatEntry", s) \in Messages
         /\ Message("PushChatEntry", s).kind = "PushChatEntry" /\ Message("PushChatEntry", s).s = s
         /\ \A k \in Outcomes : /\ Finish(k, s, FALSE) \in Messages
                               /\ Finish(k, s, FALSE).kind = k /\ Finish(k, s, FALSE).s = s
<1>1. /\ Message("PushChatEntry", s) \in Messages
      /\ Message("PushChatEntry", s).kind = "PushChatEntry" /\ Message("PushChatEntry", s).s = s
  BY DEF Message, Messages, Asked, Requests
<1>2. ASSUME NEW k \in Outcomes
      PROVE  /\ Finish(k, s, FALSE) \in Messages
             /\ Finish(k, s, FALSE).kind = k /\ Finish(k, s, FALSE).s = s
  BY DEF Finish, Messages
<1> QED
  BY <1>1, <1>2

\* A command starts, or is refused and its answer is in the mailbox.
LEMMA SpawnMoves ==
  ASSUME LifeInv, LifeInv', box # <<>>, bridge' = bridge, archiving' = archiving,
         UNCHANGED <<talking, queue>>, NEW kind \in Outcomes, NEW s \in Sessions,
         NEW m \in Messages, m.s = s, Spawn(kind, s, <<m>>), NEW x, x = First
  PROVE  \E y : y.s = s /\ y.kind \in {kind, m.kind} /\ Moved(1, {x}, {y})
<1>1. Doomed' = Doomed /\ Asking' = Asking
  BY SameThings
<1>2. CASE /\ scripts' = Append(scripts, [kind |-> kind, s |-> s, st |-> "runs"])
           /\ box' = Tail(box)
  <2> DEFINE c == [kind |-> kind, s |-> s, st |-> "runs"]
             y == Thing("script", Len(scripts) + 1, c.kind, c.s)
  <2>1. c \in Commands /\ c.kind = kind /\ c.s = s
    BY DEF Commands
  <2> HIDE DEF c
  <2>2. scripts' = Append(scripts, c)
    BY <1>2 DEF c
  <2>3. Scripted' \subseteq Scripted \cup {y}
    BY <2>1, <2>2, ScriptsMove
  <2>4. y.s = s /\ y.kind = kind
    BY <2>1, ThingIs
  <2> HIDE DEF y
  <2> QED
    BY <1>1, <1>2, <2>3, <2>4, HandlerMoves
<1>3. CASE scripts' = scripts /\ box' = Tail(box) \o <<m>>
  <2> DEFINE y == Thing("box", Len(box), m.kind, m.s)
  <2>1. \A q \in Seq(Messages) : q \o <<m>> = Append(q, m)
    OBVIOUS
  <2>2. box' = Append(Tail(box), m)
    BY <1>3, <2>1, InBox
  <2>3. y.s = s /\ y.kind = m.kind
    BY ThingIs
  <2>4. Scripted' = Scripted
    BY <1>3, SameThings
  <2> QED
    BY <1>1, <2>2, <2>3, <2>4, HandlerMoves
<1> QED
  BY <1>2, <1>3 DEF Spawn

\* The teardown of a session for which nothing else is on its way begins.
LEMMA TeardownOrders ==
  ASSUME LifeInv, LifeInv', Orderly, box # <<>>, Open(Told), NEW kind \in {"None", "Close", "CloseTree"},
         Head(box).kind \in {"RunSessionTeardown", "CloseSession", "TeardownSessionTree"},
         kind = "CloseTree" => Head(box).kind = "TeardownSessionTree",
         BeginTeardown(kind, Told)
  PROVE  Orderly' /\ \A t \in Sessions : Lasts(t)
<1>0. PICK x, s : x = First /\ s = Told
  OBVIOUS
<1>1. /\ s \in Sessions /\ Grown(s) /\ x.kind = Head(box).kind /\ x.s = s /\ x \in Live /\ Open(s)
  BY <1>0, ToldIs, FirstLive
<1>2. /\ AmendAndSave(s, Said([mem[s] EXCEPT !.busy = @ + 1]))
      /\ Spawn(kind, s, <<Finish(kind, s, FALSE)>>)
      /\ UNCHANGED <<bridge, archiving, talking, queue>>
  BY <1>0 DEF BeginTeardown
<1>3. PICK rec : rec = Said([mem[s] EXCEPT !.busy = @ + 1])
  OBVIOUS
<1>4. Fair(s, rec)
  BY <1>1, <1>3, FairRecords
<1>5. /\ Grows(s) /\ \A t \in Sessions \ {s} : mem'[t] = mem[t] /\ store'[t] = store[t]
      /\ Open(s)'
  BY <1>1, <1>2, <1>3, <1>4, FairGrows
<1>6. PICK y : y.s = s /\ y.kind = kind /\ Moved(1, {x}, {y})
  <2>1. kind \in Outcomes
    BY DEF Outcomes
  <2>2. PICK m : m = Finish(kind, s, FALSE)
    OBVIOUS
  <2>3. m \in Messages /\ m.kind = kind /\ m.s = s
    BY <1>1, <2>1, <2>2, Answers
  <2>4. Spawn(kind, s, <<m>>)
    BY <1>2, <2>2
  <2>5. UNCHANGED <<bridge, archiving, talking, queue>>
    BY <1>2
  <2>6. box # <<>> /\ s \in Sessions /\ x = First
    BY <1>0, <1>1
  <2>7. \E y : y.s = s /\ y.kind \in {kind, m.kind} /\ Moved(1, {x}, {y})
    BY <2>1, <2>3, <2>4, <2>5, <2>6, SpawnMoves
  <2> QED
    BY <2>3, <2>7
<1>7. Heir(y, x)
  <2>1. x.kind \notin Light /\ (y.kind \notin Trees \/ x.kind \in Trees)
    BY <1>1, <1>6 DEF Light, Trees
  <2> QED
    BY <1>1, <1>6, <2>1, Heirs
<1> QED
  BY <1>1, <1>5, <1>6, <1>7, Handled

\* The cascade takes over what was asked of the tree.
LEMMA TreeOrders ==
  ASSUME LifeInv, LifeInv', Orderly, box # <<>>, Head(box).kind \in Trees, ArchiveTree(Told),
         UNCHANGED <<bridge, scripts, talking, queue>>, box' = Tail(box),
         \A t \in Sessions \ {Told} : mem'[t] = mem[t] /\ store'[t] = store[t],
         \A t \in {Told} : Grows(t)
  PROVE  Orderly' /\ \A t \in Sessions : Lasts(t)
<1>0. PICK x, s : x = First /\ s = Told
  OBVIOUS
<1>1. /\ s \in Sessions /\ x.kind = Head(box).kind /\ x.s = s /\ x \in Live
  BY <1>0, ToldIs, FirstLive DEF Trees
<1>2. \A t \in archiving' : t \in Sessions /\ (t = s \/ Parent[t] = s)
  BY <1>0, <1>1 DEF ArchiveTree, Closure, Link
<1>3. PICK new : new = Doomed'
  OBVIOUS
<1>4. Moved(1, {x}, new)
  <2>1. Scripted' = Scripted /\ Asking' = Asking
    BY SameThings
  <2> QED
    BY <1>0, <1>3, <2>1, HandlerMoves
<1>5. \A y \in new : y.kind = "archiving" /\ y = Thing("tree", 0, "archiving", y.s) /\ y.s \in archiving'
  BY <1>3, ThingIs DEF Doomed, TreeOf
<1>6. \A y \in new : Heir(y, x) /\ y.kind \in Absent /\ y.kind # "SessionForkRequested"
  <2>1. ASSUME NEW y \in new
        PROVE  Heir(y, x)
    <3>1. x.kind \notin Light /\ x.kind \in Trees /\ y.kind \notin Trees /\ (y.s = x.s \/ x.s = Parent[y.s])
      BY <1>1, <1>2, <1>5 DEF Light, Trees
    <3> QED
      BY <3>1, Heirs
  <2> QED
    BY <1>5, <2>1 DEF Absent
<1>7. \A t \in Sessions, y, z \in new : ~(y # z /\ Concerns(y, t) /\ Concerns(z, t))
  BY <1>5 DEF Concerns
<1>8. x.kind \notin Light
  BY <1>1 DEF Light, Trees
<1> QED
  BY <1>0, <1>1, <1>4, <1>6, <1>7, <1>8, Handled

\* A handler that only answers.
LEMMA AnswerOrders ==
  ASSUME LifeInv, LifeInv', Orderly, box # <<>>, Head(box).kind \in Outcomes,
         UNCHANGED <<bridge, scripts, archiving, talking, queue>>,
         box' = Append(Tail(box), Message("PushChatEntry", Told)), NEW rec, Fair(Told, rec),
         AmendAndSave(Told, rec) \/ (Amend(Told, rec) /\ store' = store)
  PROVE  Orderly' /\ \A t \in Sessions : Lasts(t)
<1>0. PICK x, s : x = First /\ s = Told
  OBVIOUS
<1>1. /\ s \in Sessions /\ Grown(s) /\ x.kind = Head(box).kind /\ x.s = s /\ x \in Live
  BY <1>0, ToldIs, FirstLive DEF Outcomes
<1>2. /\ Grows(s) /\ \A t \in Sessions \ {s} : mem'[t] = mem[t] /\ store'[t] = store[t]
      /\ Open(s)'
  <2>1. rec \in Records /\ rec # NoSession
    BY RowSizes DEF Fair
  <2>2. mem'[s] = rec
    BY <1>0, <1>1, Present DEF AmendAndSave, Amend
  <2> QED
    BY <1>0, <1>1, <2>1, <2>2, FairGrows DEF Open
<1>3. PICK y : y = Thing("box", Len(box), "PushChatEntry", s) /\ y.kind = "PushChatEntry" /\ y.s = s
  BY ThingIs
<1>4. Moved(1, {x}, {y})
  <2>1. /\ Message("PushChatEntry", s) \in Messages
        /\ Message("PushChatEntry", s).kind = "PushChatEntry" /\ Message("PushChatEntry", s).s = s
    BY <1>1 DEF Message, Messages, Asked, Requests
  <2>2. Scripted' = Scripted /\ Asking' = Asking /\ Doomed' = Doomed
    BY SameThings
  <2> QED
    BY <1>0, <1>3, <2>1, <2>2, HandlerMoves
<1>5. Heir(y, x)
  <2>1. y.kind \in Light \ Setups /\ y.kind \notin Trees
    BY <1>3 DEF Light, Setups, Trees
  <2> QED
    BY <1>1, <1>3, <2>1, Heirs
<1> QED
  BY <1>1, <1>2, <1>3, <1>4, <1>5, Handled

\* A session is put away, or nothing is done, and nothing is left on its way.
LEMMA PutAwayOrders ==
  ASSUME LifeInv, LifeInv', Orderly, box # <<>>, Head(box).kind \notin Light,
         Head(box).kind # "CancelLifecycleCommand",
         UNCHANGED <<bridge, scripts, archiving, talking, queue>>, box' = Tail(box),
         \/ \E rec : Fair(Told, rec) /\ PutAway(Told, rec)
         \/ UNCHANGED <<mem, store>>
  PROVE  Orderly' /\ \A t \in Sessions : Lasts(t)
<1>0. PICK x, s : x = First /\ s = Told
  OBVIOUS
<1>1. /\ s \in Sessions /\ Grown(s) /\ x.kind = Head(box).kind /\ x.s = s /\ x \in Live
  BY <1>0, ToldIs, FirstLive
<1>2. Moved(1, {x}, {})
  <2>1. Scripted' = Scripted /\ Asking' = Asking /\ Doomed' = Doomed
    BY SameThings
  <2> QED
    BY <1>0, <2>1, HandlerMoves
<1>3. CASE UNCHANGED <<mem, store>>
  BY <1>2, <1>3, Lessened, StillGrown
<1>4. ASSUME NEW rec, Fair(s, rec), PutAway(s, rec)
      PROVE  Orderly' /\ \A t \in Sessions : Lasts(t)
  <2>1. Grows(s) /\ \A t \in Sessions \ {s} : mem'[t] = mem[t] /\ store'[t] = store[t]
    BY <1>1, <1>4, FairGrows
  <2> QED
    BY <1>1, <1>2, <2>1, Handled
<1> QED
  BY <1>0, <1>3, <1>4

LEMMA ScriptHandlersOrder ==
  ASSUME LifeInv, LifeInv', Orderly,
         \/ HandleRunSessionSetup \/ HandleFinishSessionSetup \/ HandleRunSessionTeardown
         \/ HandleCancelLifecycleCommand \/ HandleFinishSessionTeardown
  PROVE  Orderly' /\ \A t \in Sessions : Lasts(t)
<1>0. PICK x, s : x = First /\ s = Told
  OBVIOUS
<1>1. box # <<>>
  BY DEF HandleRunSessionSetup, HandleFinishSessionSetup, HandleRunSessionTeardown,
         HandleCancelLifecycleCommand, HandleFinishSessionTeardown, Heads
<1>2. /\ s \in Sessions /\ Grown(s) /\ x.kind = Head(box).kind /\ x.s = s
      /\ Head(box).kind # "CancelLifecycleCommand" => x \in Live
      /\ Head(box).kind \notin Absent /\ Head(box).kind # "CancelLifecycleCommand" => Open(s)
  BY <1>0, <1>1, ToldIs, FirstLive
<1>3. Open(s) => Fair(s, mem[s])
  BY <1>2, FairRecords
<1>4. \A rec : Fair(s, rec) => /\ Fair(s, Released(rec)) /\ Fair(s, AfterSetup(rec))
                               /\ Fair(s, AfterTeardown(rec))
                               /\ Fair(s, [rec EXCEPT !.busy = @ + 1])
  BY <1>2, FairRecords
<1>5. CASE HandleRunSessionSetup
  <2>1. Open(s) /\ x.kind = "RunSessionSetup" /\ x \in Live
    BY <1>2, <1>5 DEF HandleRunSessionSetup, Heads, Absent
  <2>2. PICK rec : rec = [mem[s] EXCEPT !.busy = @ + 1] /\ Fair(s, rec)
    BY <1>3, <1>4, <2>1
  <2>3. Amend(s, rec) \/ mem' = mem
    BY <1>0, <1>5, <2>2 DEF HandleRunSessionSetup
  <2>4. Grows(s) /\ Open(s)' /\ \A t \in Sessions \ {s} : mem'[t] = mem[t] /\ store'[t] = store[t]
    <3>1. store' = store
      BY <1>5 DEF HandleRunSessionSetup
    <3>2. CASE Amend(s, rec)
      BY <1>2, <2>2, <3>1, <3>2, FairGrows
    <3>3. CASE mem' = mem
      BY <1>2, <2>1, <3>1, <3>3, StillGrown DEF Open
    <3> QED
      BY <2>3, <3>2, <3>3
  <2>5. PICK y : y.s = s /\ y.kind \in {"setup", "PushChatEntry"} /\ Moved(1, {x}, {y})
    <3>1. "setup" \in Outcomes
      BY DEF Outcomes
    <3>2. PICK m : m = Message("PushChatEntry", s)
      OBVIOUS
    <3>3. m \in Messages /\ m.kind = "PushChatEntry" /\ m.s = s
      BY <1>2, <3>2, Answers
    <3>4. Spawn("setup", s, <<m>>) /\ UNCHANGED <<bridge, archiving, talking, queue>>
      BY <1>0, <1>5, <3>2 DEF HandleRunSessionSetup
    <3>5. UNCHANGED <<bridge, archiving, talking, queue>>
      BY <3>4
    <3>6. s \in Sessions /\ x = First
      BY <1>0, <1>2
    <3>7. \E y : y.s = s /\ y.kind \in {"setup", m.kind} /\ Moved(1, {x}, {y})
      BY <1>1, <3>1, <3>3, <3>4, <3>5, <3>6, SpawnMoves
    <3> QED
      BY <3>3, <3>7
  <2>6. Heir(y, x)
    <3>1. (y.kind \in Light \ Setups \/ (x.kind \in Setups /\ y.kind \in Setups)) /\ y.kind \notin Trees
      BY <2>1, <2>5 DEF Light, Setups, Trees
    <3> QED
      BY <1>2, <2>5, <3>1, Heirs
  <2> QED
    BY <1>2, <2>1, <2>4, <2>5, <2>6, Handled
<1>6. CASE HandleFinishSessionSetup
  <2>1. /\ Open(s) /\ Head(box).kind \in Outcomes
        /\ UNCHANGED <<bridge, scripts, archiving, talking, store, queue>>
    BY <1>2, <1>6 DEF HandleFinishSessionSetup, Heads, Absent, Outcomes, user
  <2>2. PICK rec : /\ rec = IF Head(box).ok THEN AfterSetup(Released(mem[s])) ELSE Released(mem[s])
                   /\ Fair(s, rec)
    BY <1>3, <1>4, <2>1
  <2>3. Amend(s, rec) /\ box' = Append(Tail(box), Message("PushChatEntry", s))
    BY <1>0, <1>6, <2>1, <2>2 DEF HandleFinishSessionSetup
  <2> QED
    BY <1>0, <1>1, <2>1, <2>2, <2>3, AnswerOrders
<1>7. CASE HandleRunSessionTeardown
  <2>1. Head(box).kind = "RunSessionTeardown"
    BY <1>7 DEF HandleRunSessionTeardown, Heads
  <2>2. CASE Own(Told) /\ BeginTeardown("None", Told)
    BY <1>1, <2>1, <2>2, TeardownOrders DEF Own
  <2>3. CASE Done /\ UNCHANGED <<mem, store, user, idle>>
    <3>1. Head(box).kind \notin Light
      BY <2>1 DEF Light
    <3> QED
      BY <1>1, <2>1, <2>3, <3>1, PutAwayOrders DEF Done, user, idle
  <2> QED
    BY <1>7, <2>2, <2>3 DEF HandleRunSessionTeardown
<1>8. CASE HandleCancelLifecycleCommand
  <2>1. /\ box' = Tail(box) /\ UNCHANGED <<mem, store, bridge, archiving, talking, queue>>
    BY <1>8 DEF HandleCancelLifecycleCommand, Done, user
  <2>2. Scripted' \subseteq Scripted
    <3>1. CASE child # 0 /\ Works(child)
      <4>1. child \in DOMAIN scripts /\ scripts[child].st # "ended"
        BY <3>1 DEF LifeInv, ScriptsOK, Works
      <4>2. scripts' = [scripts EXCEPT ![child].st = "killed"]
        BY <1>8, <3>1 DEF HandleCancelLifecycleCommand
      <4> QED
        BY <4>1, <4>2, ScriptsMove
    <3>2. CASE ~(child # 0 /\ Works(child))
      BY <1>8, <3>2, SameThings DEF HandleCancelLifecycleCommand
    <3> QED
      BY <3>1, <3>2
  <2>3. Moved(1, {First}, {})
    BY <1>1, <2>1, <2>2, HandlerMoves, SameThings
  <2> QED
    BY <1>0, <2>1, <2>3, Lessened, StillGrown
<1>9. CASE HandleFinishSessionTeardown
  <2> DEFINE rec == AfterTeardown(Released(mem[s]))
  <2>1. /\ Open(s) /\ Head(box).kind \in Outcomes /\ UNCHANGED <<bridge, scripts, talking, queue>>
        /\ Head(box).kind \in {"None", "Close", "CloseTree"}
    BY <1>2, <1>9 DEF HandleFinishSessionTeardown, Heads, Absent, Outcomes, user
  <2>2. Fair(s, rec) /\ Fair(s, Released(mem[s]))
    BY <1>3, <1>4, <2>1
  <2>3. \/ /\ Amend(s, Released(mem[s])) /\ store' = store /\ archiving' = archiving
           /\ box' = Append(Tail(box), Message("PushChatEntry", s))
        \/ /\ AmendAndSave(s, rec) /\ archiving' = archiving
           /\ box' = Append(Tail(box), Message("PushChatEntry", s))
        \/ box' = Tail(box) /\ PutAway(s, rec) /\ archiving' = archiving
        \/ /\ Head(box).kind = "CloseTree" /\ box' = Tail(box)
           /\ AmendAndSave(s, rec) /\ ArchiveTree(Told)
    BY <1>0, <1>9, <2>1 DEF HandleFinishSessionTeardown, Done
  <2> HIDE DEF rec
  <2>4. CASE /\ Amend(s, Released(mem[s])) /\ store' = store /\ archiving' = archiving
             /\ box' = Append(Tail(box), Message("PushChatEntry", s))
    BY <1>0, <1>1, <2>1, <2>2, <2>4, AnswerOrders
  <2>5. CASE /\ AmendAndSave(s, rec) /\ archiving' = archiving
             /\ box' = Append(Tail(box), Message("PushChatEntry", s))
    BY <1>0, <1>1, <2>1, <2>2, <2>5, AnswerOrders
  <2>6. CASE box' = Tail(box) /\ PutAway(s, rec) /\ archiving' = archiving
    <3>1. Head(box).kind \notin Light /\ Head(box).kind # "CancelLifecycleCommand"
      BY <2>1 DEF Light
    <3> QED
      BY <1>0, <1>1, <2>1, <2>2, <2>6, <3>1, PutAwayOrders
  <2>7. CASE /\ Head(box).kind = "CloseTree" /\ box' = Tail(box)
             /\ AmendAndSave(s, rec) /\ ArchiveTree(Told)
    <3>1. Grows(s) /\ \A t \in Sessions \ {s} : mem'[t] = mem[t] /\ store'[t] = store[t]
      BY <1>2, <2>2, <2>7, FairGrows
    <3>2. Head(box).kind \in Trees
      BY <2>7 DEF Trees
    <3> QED
      BY <1>0, <1>1, <2>1, <2>7, <3>1, <3>2, TreeOrders
  <2> QED
    BY <2>3, <2>4, <2>5, <2>6, <2>7
<1> QED
  BY <1>5, <1>6, <1>7, <1>8, <1>9

LEMMA ArchiversOrder ==
  ASSUME LifeInv, LifeInv', Orderly,
         \/ HandleCloseSession \/ HandleArchiveSession \/ HandleArchiveSessionTree
         \/ HandleTeardownSessionTree
  PROVE  Orderly' /\ \A t \in Sessions : Lasts(t)
<1>0. PICK s : s = Told
  OBVIOUS
<1>1. /\ box # <<>> /\ Head(box).kind \notin Light
      /\ Head(box).kind \in {"CloseSession", "ArchiveSession", "ArchiveSessionTree", "TeardownSessionTree"}
  BY DEF HandleCloseSession, HandleArchiveSession, HandleArchiveSessionTree,
         HandleTeardownSessionTree, Heads, Light
<1>2. s \in Sessions /\ Grown(s) /\ (Open(s) => Fair(s, mem[s]))
  BY <1>0, <1>1, ToldIs, FairRecords
<1>3. CASE Done /\ UNCHANGED <<mem, store, user, idle>>
  BY <1>1, <1>3, PutAwayOrders DEF Done, user, idle
<1>4. CASE Open(Told) /\ Done /\ PutAway(Told, mem[Told]) /\ UNCHANGED <<user, idle>>
  BY <1>0, <1>1, <1>2, <1>4, PutAwayOrders DEF Done, user, idle
<1>5. CASE /\ Head(box).kind \in Trees /\ Done /\ ArchiveTree(Told)
           /\ UNCHANGED <<mem, store, user, scripts, child, talking, queue, workspace>>
  <2>1. Grows(s)
    BY <1>2, <1>5, StillGrown
  <2> QED
    BY <1>0, <1>1, <1>5, <2>1, TreeOrders DEF Done, user
<1>6. CASE \/ Head(box).kind = "CloseSession" /\ Open(Told) /\ BeginTeardown("Close", Told)
           \/ Head(box).kind = "TeardownSessionTree" /\ Open(Told) /\ BeginTeardown("CloseTree", Told)
  BY <1>1, <1>6, TeardownOrders
<1>7. CASE HandleCloseSession
  BY <1>3, <1>4, <1>6, <1>7 DEF HandleCloseSession, Due, Own, Heads
<1>8. CASE HandleArchiveSession
  BY <1>3, <1>4, <1>8 DEF HandleArchiveSession, Heads
<1>9. CASE HandleArchiveSessionTree
  BY <1>5, <1>9 DEF HandleArchiveSessionTree, Heads, Trees
<1>10. CASE HandleTeardownSessionTree
  BY <1>3, <1>5, <1>6, <1>10 DEF HandleTeardownSessionTree, Heads, Trees
<1> QED
  BY <1>7, <1>8, <1>9, <1>10

\* The cascade puts a member away that nothing else is on its way to.
LEMMA ArchiveNextOrders ==
  ASSUME LifeInv, LifeInv', Orderly, NEW s \in archiving, ArchiveNext(s)
  PROVE  Orderly' /\ \A t \in Sessions : Lasts(t)
<1>1. s \in Sessions /\ Grown(s)
  BY DEF LifeInv, WorldOK, Orderly
<1>2. /\ UNCHANGED <<bridge, box, scripts, talking, idles, hand>> /\ archiving' = archiving \ {s}
  BY DEF ArchiveNext, user
<1>3. PICK x : x = Thing("tree", 0, "archiving", s) /\ x.kind = "archiving" /\ x.s = s
  BY ThingIs
<1>4. x \in Live
  <2>1. x \in Doomed
    BY <1>3 DEF Doomed, TreeOf
  <2> QED
    BY <1>3, <2>1 DEF Live, Counts
<1>5. Moved(0, {x}, {})
  <2>1. Doomed' \subseteq Doomed \ {x}
    <3>1. \A t : Thing("tree", 0, "archiving", t) = x => t = s
      BY <1>3, ThingIs
    <3> QED
      BY <1>2, <3>1 DEF Doomed, TreeOf
  <2>3. x \notin Posted /\ x \notin Boxed /\ x \notin Scripted /\ x \notin Asking
    BY <1>3, Placed, ThingIs DEF Posted, Boxed, Scripted, Asking
  <2>4. Posted' = Posted /\ Boxed' = Boxed /\ Scripted' = Scripted /\ Asking' = Asking
    BY <1>2, SameThings DEF Asking
  <2> QED
    BY <2>1, <2>3, <2>4, Stays
<1>6. Grows(s) /\ \A t \in Sessions \ {s} : mem'[t] = mem[t] /\ store'[t] = store[t]
  <2>1. CASE Kept(s)
    <3>1. Fair(s, mem[s]) /\ PutAway(s, mem[s])
      BY <1>1, <2>1, FairRecords DEF ArchiveNext, Kept
    <3> QED
      BY <1>1, <3>1, FairGrows
  <2>2. CASE ~Kept(s)
    <3>1. DOMAIN mem = Sessions /\ DOMAIN store = Sessions /\ (Stored(s) => store[s] \in Rows)
      BY <1>1, Present
    <3>2. /\ mem' = [mem EXCEPT ![s] = NoSession]
          /\ store' = IF Stored(s) THEN [store EXCEPT ![s].archived = TRUE] ELSE store
      BY <2>2 DEF ArchiveNext
    <3>3. /\ mem'[s] = NoSession
          /\ \A t \in Sessions \ {s} : mem'[t] = mem[t] /\ store'[t] = store[t]
      BY <1>1, <3>1, <3>2
    <3>4. CASE Stored(s)
      <4>1. PICK row \in Rows : row = store[s]
        BY <3>1, <3>4
      <4>2. store'[s] = [row EXCEPT !.archived = TRUE]
        BY <1>1, <3>1, <3>2, <3>4, <4>1
      <4>3. /\ store'[s] \in Rows /\ store'[s].ghost = row.ghost /\ store'[s].size = row.size
            /\ row.size \in Nat
        BY <4>2 DEF Rows
      <4>4. store'[s] # NoSession /\ store'[s].size >= store[s].size
        BY <4>1, <4>3, NoSessionAssumption
      <4> QED
        BY <1>1, <3>3, <3>4, <4>1, <4>3, <4>4 DEF Grows, Grown, Lasts, TextKept, Open, Stored
    <3>5. CASE ~Stored(s)
      <4>1. store'[s] = store[s]
        BY <3>2, <3>5
      <4>2. ~Open(s)
        BY <1>1, <2>2 DEF Grown, Kept
      <4> QED
        BY <3>3, <3>5, <4>1, <4>2 DEF Grows, Grown, Lasts, TextKept, Open, Stored
    <3> QED
      BY <3>3, <3>4, <3>5
  <2> QED
    BY <2>1, <2>2
<1>7. \A t \in Sessions : Lasts(t)
  BY <1>6, StillGrown DEF Grows
<1>8. Orderly'
  <2>1. \A t \in Sessions \ {x.s} : mem'[t] = mem[t] /\ store'[t] = store[t]
    BY <1>3, <1>6
  <2>2. Grown(x.s)' /\ x.kind \notin Light
    <3>1. Grown(s)'
      BY <1>6 DEF Grows
    <3> QED
      BY <1>3, <3>1 DEF Grown, Open, Stored, Light
  <2> QED
    BY <1>4, <1>5, <2>1, <2>2, Stepped
<1> QED
  BY <1>7, <1>8

\* What was published, has ended or is answered gets in the mailbox.
LEMMA TasksOrder ==
  ASSUME LifeInv, LifeInv', Orderly, Tasks
  PROVE  Orderly' /\ \A t \in Sessions : Lasts(t)
<1>1. mem' = mem /\ store' = store
  BY DEF Tasks, BridgePublish, ScriptReportsKill, ScriptEnds, TurnEnds
<1>2. \A t \in Sessions : Lasts(t)
  BY <1>1, StillGrown
<1>3. ASSUME NEW m \in Messages, box' = Append(box, m)
      PROVE  \E y : /\ y = Thing("box", Len(box) + 1, m.kind, m.s) /\ y.kind = m.kind /\ y.s = m.s
                    /\ Boxed' \subseteq Boxed \cup {y}
  BY <1>3, BoxGrows, ThingIs
<1>4. /\ \A y \in Posted : y.at = "bridge"
      /\ \A y \in Boxed : y.at = "box"
      /\ \A y \in Scripted : y.at = "script"
      /\ \A y \in Doomed : y.at = "tree"
      /\ \A y \in Asking : y.at \in {"turn", "idle", "hand"}
  BY Placed DEF Posted, Boxed, Scripted, Doomed, Asking
<1>5. ASSUME NEW x \in Live, NEW y, Moved(0, {x}, {y}), y.s = x.s,
             \/ y.kind = x.kind
             \/ x.kind = "talking" /\ y.kind = "StreamCompleted"
      PROVE  Orderly'
  <2>1. Heir(y, x)
    BY <1>5 DEF Heir, Fits, Light, Setups, Concerns
  <2>2. /\ y.kind \notin Absent => x.kind \notin Absent
        /\ y.kind = "SessionForkRequested" => x.kind = "SessionForkRequested"
    BY <1>5 DEF Absent
  <2> QED
    BY <1>1, <1>5, <2>1, <2>2, Passed
<1>6. ASSUME NEW m \in BagToSet(bridge), BridgePublish(m)
      PROVE  Orderly'
  <2>1. bridge' = bridge (-) SetToBag({m}) /\ box' = Append(box, m) /\ UNCHANGED idle
    BY <1>6 DEF BridgePublish
  <2>2. PICK x : x = Thing("bridge", bridge[m], m.kind, m.s) /\ x.at = "bridge" /\ x.kind = m.kind /\ x.s = m.s
    BY ThingIs
  <2>3. m \in Asked /\ x \in Posted /\ Posted' \subseteq Posted \ {x}
    BY <2>1, <2>2, PostedShrinks
  <2>4. m \in Messages
    BY <2>3 DEF Messages
  <2>5. PICK y : y.kind = m.kind /\ y.s = m.s /\ Boxed' \subseteq Boxed \cup {y}
    BY <1>3, <2>1, <2>4
  <2>6. Scripted' = Scripted /\ Doomed' = Doomed /\ Asking' = Asking
    BY <2>1, SameThings DEF idle
  <2>7. Moved(0, {x}, {y})
    <3>1. x \notin Boxed \cup Scripted \cup Doomed \cup Asking
      BY <1>4, <2>2
    <3> QED
      BY <2>3, <2>5, <2>6, <3>1, Stays
  <2>8. CASE Counts(x)
    <3>1. x \in Live
      BY <2>3, <2>8 DEF Live
    <3> QED
      BY <1>5, <2>2, <2>5, <2>7, <3>1
  <2>9. CASE ~Counts(x)
    <3>1. ~Counts(y)
      BY <2>2, <2>5, <2>9 DEF Counts
    <3>2. \A z \in Live' : Counts(z)
      BY DEF Live, Counts
    <3>3. Moved(0, {x}, {})
      BY <2>7, <3>1, <3>2 DEF Moved
    <3> QED
      BY <1>1, <3>3, Lessened
  <2> QED
    BY <2>8, <2>9
<1>7. ASSUME NEW i \in DOMAIN scripts, NEW ok \in BOOLEAN, scripts[i].st # "ended",
             scripts' = [scripts EXCEPT ![i].st = "ended"], UNCHANGED <<bridge, archiving, talking, queue>>,
             box' = Append(box, Finish(scripts[i].kind, scripts[i].s, ok))
      PROVE  Orderly'
  <2>1. scripts[i].kind \in Outcomes /\ scripts[i].s \in Sessions
    <3>1. \A j \in DOMAIN scripts : scripts[j] \in Commands
      BY DEF LifeInv, ScriptsOK
    <3> QED
      BY <3>1 DEF Commands
  <2>2. PICK m : /\ m = Finish(scripts[i].kind, scripts[i].s, ok)
                 /\ m.kind = scripts[i].kind /\ m.s = scripts[i].s /\ m \in Messages
    <3>1. \A k \in Outcomes, t \in Sessions :
            Finish(k, t, ok) \in Messages /\ Finish(k, t, ok).kind = k /\ Finish(k, t, ok).s = t
      BY DEF Finish, Messages
    <3> QED
      BY <2>1, <3>1
  <2>3. PICK x : /\ x = Thing("script", i, scripts[i].kind, scripts[i].s)
                 /\ x.at = "script" /\ x.kind = scripts[i].kind /\ x.s = scripts[i].s
    BY ThingIs
  <2>4. x \in Live
    <3>1. x \in Scripted
      BY <1>7, <2>3 DEF Scripted, ScriptedOf
    <3> QED
      BY <2>1, <2>3, <3>1 DEF Live, Counts, Outcomes
  <2>5. PICK y : y.kind = m.kind /\ y.s = m.s /\ Boxed' \subseteq Boxed \cup {y}
    BY <1>3, <1>7, <2>2
  <2>6. Scripted' \subseteq Scripted \ {x}
    BY <1>7, <2>3, ScriptsMove
  <2>7. Posted' = Posted /\ Doomed' = Doomed /\ Asking' = Asking
    BY <1>7, SameThings
  <2>8. x \notin Posted \cup Boxed \cup Doomed \cup Asking
    BY <1>4, <2>3
  <2>9. Moved(0, {x}, {y})
    BY <2>5, <2>6, <2>7, <2>8, Stays
  <2> QED
    BY <1>5, <2>2, <2>3, <2>4, <2>5, <2>9
<1>8. ASSUME NEW i \in DOMAIN scripts,
             ScriptReportsKill(i) \/ \E ok \in BOOLEAN : ScriptEnds(i, ok)
      PROVE  Orderly'
  <2>1. CASE ScriptReportsKill(i)
    BY <1>7, <2>1 DEF ScriptReportsKill, user
  <2>2. ASSUME NEW ok \in BOOLEAN, ScriptEnds(i, ok)
        PROVE  Orderly'
    BY <1>7, <2>2 DEF ScriptEnds, Works
  <2> QED
    BY <1>8, <2>1, <2>2
<1>9. ASSUME NEW s \in talking, TurnEnds(s)
      PROVE  Orderly'
  <2>1. /\ UNCHANGED <<bridge, scripts, archiving, idles, hand>> /\ talking' = talking \ {s}
        /\ box' = Append(box, Message("StreamCompleted", s)) /\ s \in Sessions
    BY <1>9 DEF TurnEnds, user, queue, LifeInv, WorldOK
  <2>2. PICK m : m = Message("StreamCompleted", s) /\ m.kind = "StreamCompleted" /\ m.s = s /\ m \in Messages
    BY <2>1 DEF Message, Messages, Asked, Requests
  <2>3. PICK x : x = Thing("turn", 0, "talking", s) /\ x.at = "turn" /\ x.kind = "talking" /\ x.s = s
    BY ThingIs
  <2>4. x \in Live
    <3>1. x \in Asking
      BY <2>3 DEF Asking, TurnsOf
    <3> QED
      BY <2>3, <3>1 DEF Live, Counts
  <2>5. PICK y : y.kind = m.kind /\ y.s = m.s /\ Boxed' \subseteq Boxed \cup {y}
    BY <1>3, <2>1, <2>2
  <2>6. Asking' \subseteq Asking \ {x}
    <3>1. \A t : Thing("turn", 0, "talking", t) = x => t = s
      BY <2>3, ThingIs
    <3>2. /\ \A t : Thing("hand", 0, "popped", t) # x
          /\ \A n, t : Thing("idle", n, "Idle", t) # x
      BY <2>3, ThingIs
    <3>3. x \notin IdlesOf(idles)
      BY <3>2 DEF IdlesOf
    <3> QED
      BY <2>1, <3>1, <3>2, <3>3 DEF Asking, TurnsOf
  <2>7. Posted' = Posted /\ Doomed' = Doomed /\ Scripted' = Scripted
    BY <2>1, SameThings
  <2>8. x \notin Posted \cup Boxed \cup Doomed \cup Scripted
    BY <1>4, <2>3
  <2>9. Moved(0, {x}, {y})
    BY <2>5, <2>6, <2>7, <2>8, Stays
  <2> QED
    BY <1>5, <2>2, <2>3, <2>4, <2>5, <2>9
<1> QED
  BY <1>2, <1>6, <1>8, <1>9 DEF Tasks

\* What the queue actor has to do with a turn is the next thing of it.
LEMMA AskingPopped ==
  ASSUME LifeInv, NEW s \in Sessions, PopOnIdle(s)
  PROVE  /\ Thing("idle", idles[s], "Idle", s) \in Asking
         /\ Asking' \subseteq (Asking \ {Thing("idle", idles[s], "Idle", s)})
                              \cup {Thing("hand", 0, "popped", s)}
<1>1. /\ idles \in [Sessions -> Nat] /\ idles[s] > 0 /\ talking' = talking
      /\ idles' = [idles EXCEPT ![s] = @ - 1] /\ hand = NoSession /\ hand' \in {NoSession, s}
  BY DEF PopOnIdle, LifeInv, WorldOK
<1>2. idles[s] \in 1..idles[s]
  BY <1>1
<1>3. Thing("idle", idles[s], "Idle", s) \in IdlesOf(idles)
  BY <1>2 DEF IdlesOf
<1>4. ASSUME NEW t \in Sessions, NEW n \in 1..idles'[t]
      PROVE  n \in 1..idles[t] /\ ~(t = s /\ n = idles[s])
  BY <1>1
<1>5. ASSUME NEW y \in IdlesOf(idles')
      PROVE  y \in IdlesOf(idles) \ {Thing("idle", idles[s], "Idle", s)}
  <2>1. PICK t \in Sessions : \E n \in 1..idles'[t] : y = Thing("idle", n, "Idle", t)
    BY DEF IdlesOf
  <2>2. PICK n \in 1..idles'[t] : y = Thing("idle", n, "Idle", t)
    BY <2>1
  <2>3. n \in 1..idles[t] /\ ~(t = s /\ n = idles[s])
    BY <1>4
  <2>4. y \in IdlesOf(idles)
    BY <2>2, <2>3 DEF IdlesOf
  <2> QED
    BY <2>2, <2>3, <2>4, ThingIs
<1>6. \A t : /\ Thing("turn", 0, "talking", t) # Thing("idle", idles[s], "Idle", s)
             /\ Thing("hand", 0, "popped", t) # Thing("idle", idles[s], "Idle", s)
  BY ThingIs
<1> QED
  BY <1>1, <1>3, <1>5, <1>6 DEF Asking, TurnsOf

LEMMA AskingDispatched ==
  ASSUME LifeInv, DispatchPopped, NEW s \in Sessions, s = hand
  PROVE  /\ Thing("hand", 0, "popped", s) \in Asking
         /\ Asking' \subseteq (Asking \ {Thing("hand", 0, "popped", s)})
                              \cup {Thing("turn", 0, "talking", s)}
<1>1. talking' = talking \cup {s} /\ idles' = idles /\ hand' = NoSession /\ NoSession \notin Sessions
  BY SessionsAssumption DEF DispatchPopped
<1>2. \A n, t : /\ Thing("turn", 0, "talking", t) # Thing("hand", 0, "popped", s)
                /\ Thing("idle", n, "Idle", t) # Thing("hand", 0, "popped", s)
  BY ThingIs
<1>3. Thing("hand", 0, "popped", s) \notin IdlesOf(idles)
  BY <1>2 DEF IdlesOf
<1> QED
  BY <1>1, <1>2, <1>3 DEF Asking, TurnsOf

\* The queue actor pops a text at the end of a turn, or begins its turn.
LEMMA QueueOrders ==
  ASSUME LifeInv, LifeInv', Orderly, QueueActor
  PROVE  Orderly' /\ \A t \in Sessions : Lasts(t)
<1>1. ASSUME NEW s \in Sessions, NEW x \in Live, x.s = s, x.kind \in {"Idle", "popped"},
             NEW new, Moved(0, {x}, new),
             \A y \in new : y.s = s /\ y.kind \in {"popped", "talking", "PersistSession"},
             NEW rec, Fair(s, mem[s]) => Fair(s, rec), Amend(s, rec), store' = store
      PROVE  Orderly' /\ \A t \in Sessions : Lasts(t)
  <2>1. Open(s) /\ Grown(s) /\ Fair(s, rec)
    BY <1>1, FairRecords DEF Orderly, Attended, Absent
  <2>2. /\ Grows(s) /\ \A t \in Sessions \ {s} : mem'[t] = mem[t] /\ store'[t] = store[t]
        /\ Open(s)'
    BY <1>1, <2>1, FairGrows
  <2>3. \A y \in new : /\ Heir(y, x) /\ y.kind # "SessionForkRequested"
                       /\ y.kind \notin Absent => Open(y.s)'
    <3>1. \A y \in new : y.kind \in Light \ Setups /\ y.kind \notin Trees
      BY <1>1 DEF Light, Setups, Trees
    <3> QED
      BY <1>1, <2>2, <3>1, Heirs
  <2>4. \A t \in Sessions, y, z \in new :
          y # z /\ Concerns(y, t) /\ Concerns(z, t) => Fits(y.kind, z.kind)
    BY <1>1 DEF Fits, Light, Setups
  <2>5. Orderly'
    BY <1>1, <2>2, <2>3, <2>4, Stepped DEF Grows
  <2> QED
    BY <2>2, <2>5, StillGrown DEF Grows
<1>2. ASSUME NEW s \in Sessions, PopOnIdle(s)
      PROVE  Orderly' /\ \A t \in Sessions : Lasts(t)
  <2>1. PICK x : x = Thing("idle", idles[s], "Idle", s) /\ x.kind = "Idle" /\ x.s = s
    BY ThingIs
  <2>2. PICK y : y = Thing("hand", 0, "popped", s) /\ y.kind = "popped" /\ y.s = s
    BY ThingIs
  <2>3. x \in Live /\ Moved(0, {x}, {y})
    <3>1. x \in Asking /\ Asking' \subseteq (Asking \ {x}) \cup {y}
      BY <1>2, <2>1, <2>2, AskingPopped
    <3>2. Posted' = Posted /\ Boxed' = Boxed /\ Scripted' = Scripted /\ Doomed' = Doomed
      BY <1>2, SameThings DEF PopOnIdle, user
    <3>3. x \notin Posted \cup Boxed \cup Scripted \cup Doomed
      BY <2>1, Placed, ThingIs DEF Posted, Boxed, Scripted, Doomed
    <3>4. Moved(0, {x}, {y})
      BY <3>1, <3>2, <3>3, Stays
    <3> QED
      BY <2>1, <3>1, <3>4 DEF Live, Counts
  <2>4. PICK n \in Nat : Amend(s, Requeued(GetOrCreate(s), n))
    BY <1>2, PoppedIs
  <2>5. Fair(s, mem[s]) => Fair(s, Requeued(GetOrCreate(s), n))
    BY <2>1, <2>3, FairRecords DEF Orderly, Attended, Absent
  <2>6. store' = store
    BY <1>2 DEF PopOnIdle
  <2> QED
    BY <1>1, <2>1, <2>2, <2>3, <2>4, <2>5, <2>6
<1>3. CASE DispatchPopped
  <2>1. PICK s \in Sessions :
          /\ s = hand /\ Amend(s, [Said(GetOrCreate(s)) EXCEPT !.turn = TRUE])
          /\ store' = store /\ box' = Append(box, Message("PersistSession", s))
          /\ UNCHANGED <<bridge, scripts, archiving>>
    BY <1>3 DEF DispatchPopped, user, LifeInv, WorldOK
  <2>2. PICK x : x = Thing("hand", 0, "popped", s) /\ x.kind = "popped" /\ x.s = s /\ x.at = "hand"
    BY ThingIs
  <2>3. PICK y : y = Thing("turn", 0, "talking", s) /\ y.kind = "talking" /\ y.s = s
    BY ThingIs
  <2>4. PICK m : /\ m = Message("PersistSession", s) /\ m \in Messages
                 /\ m.kind = "PersistSession" /\ m.s = s
    <3>1. /\ Message("PersistSession", s) \in Messages
          /\ Message("PersistSession", s).kind = "PersistSession" /\ Message("PersistSession", s).s = s
      BY DEF Message, Messages, Asked, Requests
    <3> QED
      BY <3>1
  <2>5. PICK z : /\ z = Thing("box", Len(box) + 1, m.kind, m.s) /\ z.kind = m.kind /\ z.s = m.s
                 /\ Boxed' \subseteq Boxed \cup {z}
    BY <2>1, <2>4, BoxGrows, ThingIs
  <2>6. x \in Live /\ Moved(0, {x}, {y, z})
    <3>1. x \in Asking /\ Asking' \subseteq (Asking \ {x}) \cup {y}
      BY <1>3, <2>1, <2>2, <2>3, AskingDispatched
    <3>2. Posted' = Posted /\ Scripted' = Scripted /\ Doomed' = Doomed
      BY <2>1, SameThings
    <3>3. x \notin Posted \cup Boxed \cup Scripted \cup Doomed
      BY <2>2, Placed DEF Posted, Boxed, Scripted, Doomed
    <3>4. Moved(0, {x}, {y, z})
      BY <2>5, <3>1, <3>2, <3>3, Stays
    <3> QED
      BY <2>2, <3>1, <3>4 DEF Live, Counts
  <2>7. Fair(s, mem[s]) => Fair(s, [Said(GetOrCreate(s)) EXCEPT !.turn = TRUE])
    <3>1. Grown(s) /\ Open(s)
      BY <2>2, <2>6 DEF Orderly, Attended, Absent
    <3>2. Fair(s, mem[s]) => Fair(s, Said(GetOrCreate(s)))
      BY <3>1, FairRecords
    <3> QED
      BY <3>2, FairRecords
  <2>8. \A v \in {y, z} : v.s = s /\ v.kind \in {"popped", "talking", "PersistSession"}
    BY <2>3, <2>4, <2>5
  <2> QED
    BY <1>1, <2>1, <2>2, <2>6, <2>7, <2>8
<1> QED
  BY <1>2, <1>3 DEF QueueActor

LEMMA NoneIdle == IdlesOf([t \in Sessions |-> 0]) = {}
<1>1. \A n \in 1..0 : FALSE
  OBVIOUS
<1> QED
  BY <1>1 DEF IdlesOf

\* A restart brings the sessions back as their rows, and nothing is on its way.
LEMMA CrashOrders ==
  ASSUME LifeInv, Orderly, CrashAndRestart
  PROVE  Orderly' /\ \A t \in Sessions : TextKept(t)
<1>1. Live' = {}
  <2>1. /\ bridge' = EmptyBag /\ box' = <<>> /\ scripts' = <<>> /\ archiving' = {} /\ talking' = {}
        /\ idles' = [t \in Sessions |-> 0] /\ hand' = NoSession
    BY DEF CrashAndRestart
  <2>2. Posted' = {}
    <3>1. DOMAIN bridge' = {}
      BY <2>1 DEF EmptyBag, SetToBag
    <3> QED
      BY <3>1 DEF Posted, PostedOf
  <2>3. Boxed' = {} /\ Scripted' = {}
    BY <2>1 DEF Boxed, BoxedOf, Scripted, ScriptedOf
  <2>4. Doomed' = {} /\ Asking' = {}
    BY <2>1, NoneIdle, SessionsAssumption DEF Doomed, TreeOf, Asking, TurnsOf
  <2> QED
    BY <2>2, <2>3, <2>4 DEF Live
<1>2. ASSUME NEW t \in Sessions
      PROVE  Grown(t)' /\ TextKept(t)
  <2>1. /\ store' = store
        /\ mem'[t] = IF Stored(t) /\ ~store[t].archived THEN FromRow(store[t]) ELSE NoSession
    BY DEF CrashAndRestart
  <2>2. Stored(t) => /\ store[t] \in Rows /\ store[t].size \in Nat /\ ~store[t].ghost
                     /\ store[t].size >= store[t].size
    <3>1. Stored(t) => store[t] \in Rows /\ store[t].size \in Nat /\ ~store[t].ghost
      BY Present DEF Rows, Orderly, Grown
    <3> QED
      BY <3>1
  <2>3. Stored(t) => /\ FromRow(store[t]).kept /\ FromRow(store[t]).size = store[t].size
                     /\ ~FromRow(store[t]).ghost
    <3>1. \A row \in Rows : FromRow(row).kept /\ FromRow(row).size = row.size /\ FromRow(row).ghost = row.ghost
      BY DEF FromRow, Created, Rows
    <3> QED
      BY <2>2, <3>1
  <2> QED
    BY <2>1, <2>2, <2>3 DEF Grown, TextKept, Open, Stored
<1>3. Lone' /\ Attended' /\ ForkNew'
  BY <1>1 DEF Lone, Attended, ForkNew
<1> QED
  BY <1>2, <1>3 DEF Orderly

\* No key removes a session at once.
LEMMA OpenStay ==
  ASSUME LifeInv, NEW s \in Sessions, User(s)
  PROVE  \A t \in Sessions : Open(t) => Open(t)'
<1>1. CASE CreateSession(s)
  BY <1>1, Present DEF CreateSession, Amend, Open
<1>2. CASE EscConfirm(s)
  <2>1. PICK rec \in Records : rec = [mem[s] EXCEPT !.busy = 0, !.turn = FALSE, !.queued = 0]
    BY <1>2, Present, SameSizes DEF EscConfirm, Sized
  <2>2. Amend(s, rec) /\ rec # NoSession
    BY <1>2, <2>1, NoSessionAssumption DEF EscConfirm
  <2> QED
    BY <2>2, Present DEF Amend, Open
<1>3. CASE ~CreateSession(s) /\ ~EscConfirm(s)
  <2>1. mem' = mem
    BY <1>3 DEF User, ForkFromEntry, SubmitMessage, LoadSession, RerunSetup, Teardown, Key, TreeKey
  <2> QED
    BY <2>1 DEF Open
<1> QED
  BY <1>1, <1>2, <1>3

\* As long as the user waits, every step leaves what is on its way in order and takes
\* no text of a row back; without a crash no session is forgotten.
LEMMA OrderlyStep ==
  ASSUME LifeInv, Patient, [Next]_vars
  PROVE  /\ Patient'
         /\ "rash" \notin mishaps' => \A t \in Sessions : TextKept(t)
         /\ mishaps' = {} => mishaps = {} /\ \A t \in Sessions : Lasts(t)
<1>1. LifeInv'
  BY LifeStep
<1>2. CASE UNCHANGED vars
  <2>1. UNCHANGED <<mem, store, bridge, box, scripts, archiving, talking, queue, mishaps>>
    BY <1>2 DEF vars
  <2>2. Live' = Live
    BY <2>1, SameThings DEF Live, Counts
  <2>3. \A t \in Sessions : Lasts(t)
    BY <2>1, StillGrown
  <2>4. Patient'
    BY <2>1, <2>2 DEF Patient, Orderly, Lone, Attended, ForkNew, Grown, Open, Stored
  <2> QED
    BY <2>1, <2>3, <2>4 DEF Lasts
<1>3. CASE \E s \in Sessions : User(s)
  <2>1. PICK s \in Sessions : User(s)
    BY <1>3
  <2>2. store' = store
    BY <2>1 DEF User, CreateSession, ForkFromEntry, SubmitMessage, LoadSession, EscConfirm,
                RerunSetup, Teardown, Key, TreeKey
  <2>3. \A t \in Sessions : Lasts(t)
    <3>1. \A t \in Sessions : Stored(t) => store[t].size \in Nat
      BY Present DEF Rows
    <3>2. \A t \in Sessions : Stored(t) => store[t].size >= store[t].size
      BY <3>1
    <3>3. \A t \in Sessions : Open(t) => Open(t)'
      BY <2>1, OpenStay
    <3> QED
      BY <2>2, <3>2, <3>3 DEF Lasts, TextKept, Stored
  <2>4. mishaps \subseteq mishaps'
    <3>1. \A k, on : Act(k, on) => mishaps \subseteq mishaps'
      BY DEF Act
    <3> QED
      BY <2>1, <3>1 DEF User, CreateSession, ForkFromEntry, SubmitMessage, LoadSession, EscConfirm,
                        RerunSetup, Teardown, Key, TreeKey
  <2> QED
    BY <1>1, <2>1, <2>3, <2>4, UserOrders DEF Lasts
<1>4. CASE ~UNCHANGED vars /\ ~\E s \in Sessions : User(s)
  <2>1. SessionActor \/ QueueActor \/ Tasks \/ CrashAndRestart
    BY <1>4 DEF Next
  <2>2. SessionActor \/ QueueActor \/ Tasks => mishaps' = mishaps
    <3>1. SessionActor => mishaps' = mishaps
      BY DEF SessionActor, user, HandlePushChatEntry, HandlePersistSession,
             HandleMarkSessionInteracted, HandleEnqueueUserMessage, OnStreamCompleted,
             HandleRunSessionSetup, HandleFinishSessionSetup, HandleRunSessionTeardown,
             HandleFinishSessionTeardown, HandleCloseSession, HandleArchiveSession,
             HandleArchiveSessionTree, HandleTeardownSessionTree, HandleCancelLifecycleCommand,
             OnLoadRequested, OnSessionForkRequested, ArchiveNext, BeginTeardown
    <3>2. Tasks => mishaps' = mishaps
      BY DEF Tasks, BridgePublish, ScriptReportsKill, ScriptEnds, TurnEnds, user
    <3>3. QueueActor => mishaps' = mishaps
      BY DEF QueueActor, PopOnIdle, DispatchPopped, user
    <3> QED
      BY <3>1, <3>2, <3>3
  <2>3. CrashAndRestart => mishaps' = mishaps \cup {"crash"}
    BY DEF CrashAndRestart
  <2>4. ASSUME "rash" \notin mishaps'
        PROVE  /\ Orderly' /\ \A t \in Sessions : TextKept(t)
               /\ ~CrashAndRestart => \A t \in Sessions : Lasts(t)
    <3>1. Orderly
      BY <2>1, <2>2, <2>3, <2>4 DEF Patient
    <3> HIDE DEF Orderly
    <3>2. CASE SessionActor
      BY <1>1, <3>1, <3>2, PersistenceOrders, ScriptHandlersOrder, ArchiversOrder, ArchiveNextOrders
         DEF SessionActor, Lasts
    <3> QED
      BY <1>1, <2>1, <3>1, <3>2, QueueOrders, TasksOrder, CrashOrders DEF Lasts
  <2> QED
    BY <2>1, <2>2, <2>3, <2>4 DEF Patient
<1> QED
  BY <1>2, <1>3, <1>4

LEMMA PatientInvariant == Spec => []Patient
<1>1. ASSUME Init
      PROVE  Patient
  <2>1. /\ bridge = EmptyBag /\ box = <<>> /\ scripts = <<>> /\ archiving = {} /\ talking = {}
        /\ idles = [s \in Sessions |-> 0] /\ hand = NoSession
    BY <1>1 DEF Init
  <2>2. Posted = {}
    <3>1. DOMAIN bridge = {}
      BY <2>1 DEF EmptyBag, SetToBag
    <3> QED
      BY <3>1 DEF Posted, PostedOf
  <2>3. Live = {}
    BY <2>1, <2>2, NoneIdle, SessionsAssumption
       DEF Live, Boxed, BoxedOf, Scripted, ScriptedOf, Doomed, TreeOf, Asking, TurnsOf
  <2>4. \A s \in Sessions : Grown(s)
    BY <1>1 DEF Init, Grown, Open, Stored
  <2> QED
    BY <2>3, <2>4 DEF Patient, Orderly, Lone, Attended, ForkNew
<1>2. LifeInv /\ Patient /\ [Next]_vars => Patient'
  BY OrderlyStep
<1> QED
  BY <1>1, <1>2, LifeInvariant, PTL DEF Spec

\* As long as the user waits for what was asked of a session before asking the next
\* thing of it, no write of the store takes a text back.
THEOREM TextsKept == Spec => StoredTextsKept
<1>1. LifeInv /\ Patient /\ [Next]_vars =>
        ["rash" \notin mishaps' =>
           \A s \in Sessions : Stored(s) => Stored(s)' /\ store'[s].size >= store[s].size]_vars
  BY OrderlyStep DEF TextKept
<1> QED
  BY <1>1, LifeInvariant, PatientInvariant, PTL DEF Spec, StoredTextsKept

-----------------------------------------------------------------------------
(* With a user who waits and no fork, workspaces are known.                   *)
(*                                                                            *)
(* An ending that is on its way is the only one of its session, so what it    *)
(* says of the workspace is still so when it is handled.                      *)

Known(s) == Open(s) \/ Stored(s)
Tears == {"None", "Close", "CloseTree"}


\* A command of s that succeeded is to be handled yet; or is, and not as the next.
Succeeded(kinds, s) == \E i \in DOMAIN box : box[i].s = s /\ box[i].kind \in kinds /\ box[i].ok
Later(kinds, s) == \E i \in DOMAIN box \ {1} : box[i].s = s /\ box[i].kind \in kinds /\ box[i].ok

Sits(s) ==
  /\ Known(s) /\ ~Succeeded(Outcomes, s) => (Believed(s) = "SetupRan" <=> workspace[s] = "up")
  /\ ~Known(s) => workspace[s] # "up"
  /\ Succeeded({"setup"}, s) => workspace[s] = "up"
  /\ Succeeded(Tears, s) => workspace[s] # "up"
  /\ \A x \in Live : x.s = s =>
       /\ x.kind # "SessionForkRequested"
       /\ x.kind \in Setups => Believed(s) = "NothingRan"

Roots == {s \in Sessions : Parent[s] = s}
Settled == mishaps = {} /\ NoForks => \A s \in Roots : Sits(s)

\* What a step may leave on its way for s was on its way for it before, or is a setup
\* of a session of which nothing has run.
Arising == Setups \cup {"SessionForkRequested"}
Bred(s) ==
  \A y \in Live' : y.s = s /\ y.kind \in Arising =>
    \/ y.kind \in Setups /\ Known(s) /\ Believed(s) = "NothingRan"
    \/ \E x \in Live : x.s = s /\ x.kind \in Arising /\ (x.kind \in Setups <=> y.kind \in Setups)

\* A step that says nothing of s: what is believed of it and its workspace stay.
LEMMA SitsOn ==
  ASSUME Orderly, NEW s \in Sessions, Sits(s), Bred(s), workspace'[s] = workspace[s],
         Known(s)' <=> Known(s), Known(s) => Believed(s)' = Believed(s),
         \A kinds \in {Outcomes, {"setup"}, Tears} : Succeeded(kinds, s)' <=> Succeeded(kinds, s)
  PROVE  Sits(s)'
<1>1. /\ Known(s)' /\ ~Succeeded(Outcomes, s)' => (Believed(s)' = "SetupRan" <=> workspace'[s] = "up")
      /\ ~Known(s)' => workspace'[s] # "up"
      /\ Succeeded({"setup"}, s)' => workspace'[s] = "up"
      /\ Succeeded(Tears, s)' => workspace'[s] # "up"
  BY DEF Sits
<1>2. ASSUME NEW y \in Live', y.s = s
      PROVE  y.kind # "SessionForkRequested" /\ (y.kind \in Setups => Believed(s)' = "NothingRan")
  <2>1. CASE y.kind \in Arising /\ ~(Known(s) /\ Believed(s) = "NothingRan")
    <3>1. PICK x \in Live : x.s = s /\ x.kind \in Arising /\ (x.kind \in Setups <=> y.kind \in Setups)
      BY <1>2, <2>1 DEF Bred
    <3>2. x.kind \in Setups /\ Believed(s) = "NothingRan"
      BY <3>1 DEF Sits, Arising
    <3>3. Known(s)
      BY <3>1, <3>2 DEF Orderly, Attended, Setups, Absent, Known
    <3> QED
      BY <3>1, <3>2, <3>3 DEF Setups
  <2>2. CASE y.kind \in Arising /\ Known(s) /\ Believed(s) = "NothingRan"
    <3>1. y.kind # "SessionForkRequested"
      <4>1. \A x \in Live : x.s = s => x.kind # "SessionForkRequested"
        BY DEF Sits
      <4>2. \A k : k \in Arising => (k \in Setups <=> k # "SessionForkRequested")
        BY DEF Arising, Setups
      <4> QED
        BY <1>2, <2>2, <4>1, <4>2 DEF Bred
    <3> QED
      BY <2>2, <3>1
  <2> QED
    BY <2>1, <2>2 DEF Arising
<1> QED
  BY <1>1, <1>2 DEF Sits

LEMMA BelievedStay ==
  ASSUME NEW s \in Sessions, mem'[s] = mem[s], store'[s] = store[s]
  PROVE  (Known(s)' <=> Known(s)) /\ Believed(s)' = Believed(s)
BY DEF Known, Believed, Open, Stored

\* Every ending is waited for by name.
LEMMA SucceededIs ==
  ASSUME LifeInv, NEW kinds \in SUBSET Outcomes, NEW s \in Sessions
  PROVE  /\ box' = box => (Succeeded(kinds, s)' <=> Succeeded(kinds, s))
         /\ \A m \in Messages : box' = Append(box, m) =>
              (Succeeded(kinds, s)' <=> Succeeded(kinds, s) \/ (m.s = s /\ m.kind \in kinds /\ m.ok))
         /\ box # <<>> =>
              /\ Succeeded(kinds, s) <=>
                   Later(kinds, s) \/ (Told = s /\ Head(box).kind \in kinds /\ Head(box).ok)
              /\ box' = Tail(box) => (Succeeded(kinds, s)' <=> Later(kinds, s))
              /\ \A m \in Messages : box' = Append(Tail(box), m) /\ ~(m.kind \in Outcomes /\ m.ok) =>
                   (Succeeded(kinds, s)' <=> Later(kinds, s))
<1>1. box \in Seq(Messages)
  BY InBox
<1>2. ASSUME NEW m \in Messages, box' = Append(box, m)
      PROVE  Succeeded(kinds, s)' <=> Succeeded(kinds, s) \/ (m.s = s /\ m.kind \in kinds /\ m.ok)
  <2>1. /\ \A i \in DOMAIN box : i \in DOMAIN box' /\ box'[i] = box[i]
        /\ Len(box) + 1 \in DOMAIN box' /\ box'[Len(box) + 1] = m
        /\ \A i \in DOMAIN box' : i \in DOMAIN box \/ i = Len(box) + 1
    BY <1>1, <1>2
  <2> QED
    BY <2>1 DEF Succeeded
<1>3. ASSUME box # <<>>
      PROVE  /\ Succeeded(kinds, s) <=>
                  Later(kinds, s) \/ (Told = s /\ Head(box).kind \in kinds /\ Head(box).ok)
             /\ box' = Tail(box) => (Succeeded(kinds, s)' <=> Later(kinds, s))
             /\ \A m \in Messages : box' = Append(Tail(box), m) /\ ~(m.kind \in Outcomes /\ m.ok) =>
                  (Succeeded(kinds, s)' <=> Later(kinds, s))
  <2>1. 1 \in DOMAIN box /\ box[1] = Head(box)
    BY <1>1, <1>3
  <2>2. Succeeded(kinds, s) <=>
          Later(kinds, s) \/ (Told = s /\ Head(box).kind \in kinds /\ Head(box).ok)
    BY <2>1 DEF Succeeded, Later, Told
  <2>3. PICK q \in Seq(Messages) : q = Tail(box)
    BY <1>3, InBox
  <2>4. /\ \A i \in DOMAIN q : i + 1 \in DOMAIN box \ {1} /\ q[i] = box[i + 1]
        /\ \A j \in DOMAIN box \ {1} : j - 1 \in DOMAIN q /\ q[j - 1] = box[j]
    BY <1>1, <1>3, <2>3
  <2>5. Later(kinds, s) <=> \E i \in DOMAIN q : q[i].s = s /\ q[i].kind \in kinds /\ q[i].ok
    BY <2>4 DEF Later
  <2>6. ASSUME NEW m \in Messages, box' = Append(q, m), ~(m.kind \in Outcomes /\ m.ok)
        PROVE  Succeeded(kinds, s)' <=> Later(kinds, s)
    <3>1. /\ \A i \in DOMAIN q : i \in DOMAIN box' /\ box'[i] = q[i]
          /\ \A i \in DOMAIN box' : i \in DOMAIN q \/ box'[i] = m
      BY <2>6
    <3> QED
      BY <2>5, <2>6, <3>1 DEF Succeeded
  <2> QED
    BY <2>2, <2>3, <2>5, <2>6 DEF Succeeded
<1> QED
  BY <1>2, <1>3 DEF Succeeded

\* A command or its ending shares a session with no other, and with no setup to be.
LEMMA Sole ==
  ASSUME LifeInv, Orderly, NEW x \in Live, x.kind \notin Light \/ x.kind \in Setups
  PROVE  /\ \A z \in Live : z.s = x.s /\ z # x => z.kind \notin Outcomes \cup Arising
         /\ \A i \in DOMAIN box : box[i].s = x.s /\ box[i].kind \in Outcomes => x.at = "box" /\ x.n = i
<1>1. ASSUME NEW z \in Live, z.s = x.s, z # x
      PROVE  z.kind \notin Outcomes \cup Arising
  <2>1. x.s \in Sessions
    BY LiveThings
  <2>2. Fits(x.kind, z.kind)
    BY <1>1, <2>1 DEF Orderly, Lone, Concerns
  <2> QED
    BY <2>2 DEF Fits, Light, Setups, Outcomes, Arising
<1>2. ASSUME NEW i \in DOMAIN box, box[i].s = x.s, box[i].kind \in Outcomes
      PROVE  x.at = "box" /\ x.n = i
  <2>1. PICK z : z = Thing("box", i, box[i].kind, box[i].s)
    OBVIOUS
  <2>2. z.at = "box" /\ z.n = i /\ z.kind = box[i].kind /\ z.s = box[i].s
    BY <2>1, ThingIs
  <2>3. z \in Live
    BY <1>2, <2>1, <2>2 DEF Live, Boxed, BoxedOf, Counts, Outcomes
  <2> QED
    BY <1>1, <1>2, <2>2, <2>3
<1> QED
  BY <1>1, <1>2

\* What a handler leaves on its way of what may put a workspace up.
LEMMA Risen ==
  ASSUME LifeInv, LifeInv', box # <<>>, bridge' = bridge,
         \/ box' = Tail(box)
         \/ \E m \in Messages : m.kind \notin Arising /\ box' = Append(Tail(box), m),
         \A y \in Scripted' : y \in Scripted \/ y.kind \notin Arising
  PROVE  \A y \in Live' : y.kind \in Arising => Came(1, y) \in Live \ {First}
<1> DEFINE All == Boxed' \cup Scripted' \cup Doomed' \cup Asking'
           new == {y \in All : y.kind \notin Arising}
<1>1. Doomed' \subseteq new /\ Asking' \subseteq new
  <2>1. \A k \in {"archiving", "talking", "Idle", "popped"} : k \notin Arising
    BY DEF Arising, Setups
  <2> QED
    BY <2>1, Placed DEF Doomed, Asking
<1>2. Scripted' \subseteq Scripted \cup new
  OBVIOUS
<1>3. ASSUME NEW m \in Messages, m.kind \notin Arising, box' = Append(Tail(box), m)
      PROVE  Thing("box", Len(box), m.kind, m.s) \in new
  <2>1. PICK q \in Seq(Messages) : q = Tail(box)
    BY InBox
  <2>2. Len(q) + 1 = Len(box)
    BY <2>1, InBox
  <2>3. box' = Append(q, m)
    BY <1>3, <2>1
  <2>4. Len(box) \in DOMAIN box' /\ box'[Len(box)] = m
    BY <2>2, <2>3
  <2> QED
    BY <1>3, <2>4, ThingIs DEF Boxed, BoxedOf
<1>4. \A y \in new : y.kind \notin Arising
  OBVIOUS
<1> HIDE DEF new
<1>5. Moved(1, {First}, new)
  BY <1>1, <1>2, <1>3, HandlerMoves
<1> QED
  BY <1>4, <1>5 DEF Moved

LEMMA RisenIsBred ==
  ASSUME NEW d, \A y \in Live' : y.kind \in Arising => Came(d, y) \in Live, NEW s
  PROVE  Bred(s)
BY CameIs DEF Bred

\* What is believed of a session that is amended, saved or put away.
LEMMA BelievedIs ==
  ASSUME LifeInv, NEW s \in Sessions, NEW rec \in Records, rec.kept,
         AmendAndSave(s, rec) \/ PutAway(s, rec) \/ (Amend(s, rec) /\ store' = store)
  PROVE  /\ Known(s)' /\ Believed(s)' = rec.script
         /\ \A t \in Sessions \ {s} : mem'[t] = mem[t] /\ store'[t] = store[t]
<1>1. DOMAIN mem = Sessions /\ DOMAIN store = Sessions
  BY Present
<1>2. \A archived \in BOOLEAN : /\ Row(rec, archived).script = rec.script
                                /\ Row(rec, archived) # NoSession
  <2>1. \A archived : Row(rec, archived).script = rec.script
    BY DEF Row
  <2> QED
    BY <2>1, RowSizes
<1>3. rec # NoSession
  BY RowSizes
<1>4. CASE AmendAndSave(s, rec) \/ (Amend(s, rec) /\ store' = store)
  <2>1. mem'[s] = rec /\ \A t \in Sessions \ {s} : mem'[t] = mem[t] /\ store'[t] = store[t]
    BY <1>1, <1>4 DEF AmendAndSave, Amend, Save
  <2> QED
    BY <1>3, <2>1 DEF Known, Believed, Open
<1>5. CASE PutAway(s, rec)
  <2>1. /\ mem'[s] = NoSession /\ store'[s] = Row(rec, TRUE)
        /\ \A t \in Sessions \ {s} : mem'[t] = mem[t] /\ store'[t] = store[t]
    BY <1>1, <1>5 DEF PutAway, Save
  <2> QED
    BY <1>2, <2>1 DEF Known, Believed, Open, Stored
<1> QED
  BY <1>4, <1>5

\* The script state of a record only changes by an ending.
LEMMA ScriptStates ==
  ASSUME NEW rec \in Records
  PROVE  /\ Said(rec).script = rec.script /\ Released(rec).script = rec.script
         /\ [rec EXCEPT !.busy = @ + 1].script = rec.script
         /\ [rec EXCEPT !.kept = TRUE].script = rec.script
         /\ \A b \in BOOLEAN : [rec EXCEPT !.turn = b].script = rec.script
         /\ \A n \in Nat : Requeued(rec, n).script = rec.script
         /\ [rec EXCEPT !.busy = 0, !.turn = FALSE, !.queued = 0].script = rec.script
         /\ rec.script = "NothingRan" => AfterSetup(rec).script = "SetupRan"
         /\ AfterTeardown(rec).script # "SetupRan"
<1> USE DEF Records
<1>1. Said(rec).script = rec.script /\ Released(rec).script = rec.script
  BY DEF Said, Released
<1>2. /\ [rec EXCEPT !.busy = @ + 1].script = rec.script
      /\ [rec EXCEPT !.kept = TRUE].script = rec.script
      /\ \A b \in BOOLEAN : [rec EXCEPT !.turn = b].script = rec.script
  OBVIOUS
<1>3. [rec EXCEPT !.busy = 0, !.turn = FALSE, !.queued = 0].script = rec.script
  OBVIOUS
<1>4. rec.script = "NothingRan" => AfterSetup(rec).script = "SetupRan"
  BY DEF AfterSetup
<1>5. AfterTeardown(rec).script # "SetupRan"
  BY DEF AfterTeardown
<1>6. \A n \in Nat : Requeued(rec, n).script = rec.script
  BY QueueOps
<1> QED
  BY <1>1, <1>2, <1>3, <1>4, <1>5, <1>6

\* A handler of what is no ending of a command that succeeded.
LEMMA QuietSits ==
  ASSUME LifeInv, Orderly, box # <<>>, NEW t \in Sessions, Sits(t), Bred(t),
         workspace'[t] = workspace[t],
         \/ box' = Tail(box)
         \/ \E m \in Messages : ~(m.kind \in Outcomes /\ m.ok) /\ box' = Append(Tail(box), m),
         ~(Told = t /\ Head(box).kind \in Outcomes /\ Head(box).ok),
         Known(t)' <=> Known(t), Known(t) => Believed(t)' = Believed(t)
  PROVE  Sits(t)'
<1>1. ASSUME NEW kinds \in {Outcomes, {"setup"}, Tears}
      PROVE  Succeeded(kinds, t)' <=> Succeeded(kinds, t)
  <2>1. kinds \in SUBSET Outcomes
    BY DEF Outcomes, Tears
  <2>2. Succeeded(kinds, t) <=> Later(kinds, t)
    <3>1. Succeeded(kinds, t) <=>
            Later(kinds, t) \/ (Told = t /\ Head(box).kind \in kinds /\ Head(box).ok)
      BY <2>1, SucceededIs
    <3> QED
      BY <2>1, <3>1
  <2>3. Succeeded(kinds, t)' <=> Later(kinds, t)
    BY <2>1, SucceededIs
  <2> QED
    BY <2>2, <2>3
<1> QED
  BY <1>1, SitsOn

\* The handler of an ending makes what is believed of the session what it did.
LEMMA EndingSits ==
  ASSUME LifeInv, LifeInv', Orderly, box # <<>>, NEW s \in Sessions, s = Told,
         Head(box).kind \in Outcomes, bridge' = bridge, scripts' = scripts,
         workspace' = workspace,
         \/ box' = Tail(box)
         \/ \E m \in Messages : m.kind \notin Outcomes \cup Arising /\ box' = Append(Tail(box), m),
         Known(s)', Believed(s)' = "SetupRan" <=> workspace[s] = "up"
  PROVE  Sits(s)'
<1>1. PICK x : x = First
  OBVIOUS
<1>2. x \in Live /\ x.kind \in Outcomes /\ x.s = s /\ x.at = "box" /\ x.n = 1
  <2>1. First.n = 1
    BY ThingIs DEF First
  <2> QED
    BY <1>1, <2>1, FirstLive DEF Counts, Outcomes
<1>3. x.kind \notin Light \/ x.kind \in Setups
  BY <1>2 DEF Outcomes, Light, Setups
<1>4. \A z \in Live : z.s = s /\ z # x => z.kind \notin Arising
  BY <1>2, <1>3, Sole
<1>5. ~Later(Outcomes, s)
  <2>1. \A i \in DOMAIN box : box[i].s = s /\ box[i].kind \in Outcomes => i = 1
    BY <1>2, <1>3, Sole
  <2> QED
    BY <2>1 DEF Later
<1>6. ~Succeeded(Outcomes, s)'
  BY <1>5, SucceededIs
<1>7. ~Succeeded({"setup"}, s)' /\ ~Succeeded(Tears, s)'
  BY <1>6 DEF Succeeded, Outcomes, Tears
<1>8. \A y \in Live' : y.s = s => y.kind \notin Arising
  <2>1. Scripted' = Scripted
    BY SameThings
  <2>2. \A y \in Live' : y.kind \in Arising => Came(1, y) \in Live \ {First}
    BY <2>1, Risen
  <2> QED
    BY <1>1, <1>4, <2>2, CameIs
<1> QED
  BY <1>6, <1>7, <1>8 DEF Sits, Arising

\* Nothing else is on its way to a session that is loaded, so its row is up to date.
LEMMA LoadFinds ==
  ASSUME LifeInv, Orderly, AllSafe, box # <<>>, Head(box).kind = "SessionLoadRequested",
         Stored(Told)
  PROVE  Believed(Told) = store[Told].script
<1>1. PICK x, s : x = First /\ s = Told
  OBVIOUS
<1>2. s \in Sessions /\ x \in Live /\ x.kind = "SessionLoadRequested" /\ x.s = s /\ Grown(s)
  BY <1>1, FirstLive, ToldIs
<1>3. ~Saving(s)
  <2>1. ASSUME NEW z \in Live, z.s = s
        PROVE  z.kind \notin {"PushChatEntry", "PersistSession"}
    <3>1. z # x => Fits(x.kind, z.kind)
      BY <1>2, <2>1 DEF Orderly, Lone, Concerns
    <3> QED
      BY <1>2, <3>1 DEF Fits, Light
  <2>2. ASSUME NEW i \in DOMAIN box, box[i].kind \in {"PushChatEntry", "PersistSession"},
               box[i].s = s
        PROVE  FALSE
    <3>1. PICK z : z = Thing("box", i, box[i].kind, box[i].s)
      OBVIOUS
    <3>2. z.kind \in {"PushChatEntry", "PersistSession"} /\ z.s = s
      BY <2>2, <3>1, ThingIs
    <3>3. z \in Live
      BY <3>1, <3>2 DEF Live, Boxed, BoxedOf, Counts
    <3> QED
      BY <2>1, <3>2, <3>3
  <2>3. ASSUME Message("PushChatEntry", s) \in DOMAIN bridge
        PROVE  FALSE
    <3>1. PICK m \in DOMAIN bridge : m = Message("PushChatEntry", s)
      BY <2>3
    <3>2. m.kind = "PushChatEntry" /\ m.s = s
      BY <3>1 DEF Message
    <3>3. 1 \in 1..bridge[m]
      BY DEF LifeInv, BridgeOK, IsABag
    <3>4. PICK z : z = Thing("bridge", 1, m.kind, m.s)
      OBVIOUS
    <3>5. z.kind = "PushChatEntry" /\ z.s = s
      BY <3>2, <3>4, ThingIs
    <3>6. z \in Live
      BY <3>3, <3>4, <3>5 DEF Live, Posted, PostedOf, Counts
    <3> QED
      BY <2>1, <3>5, <3>6
  <2> QED
    BY <2>2, <2>3 DEF Saving
<1>4. CASE Open(s)
  <2>1. store[s] = Row(mem[s], FALSE)
    BY <1>2, <1>3, <1>4 DEF AllSafe, Safe, Kept, Grown
  <2>2. Row(mem[s], FALSE).script = mem[s].script
    BY DEF Row
  <2> QED
    BY <1>1, <1>4, <2>1, <2>2 DEF Believed
<1> QED
  BY <1>1, <1>4 DEF Believed

\* Every handler that spawns nothing and is told of no ending of t that succeeded.
LEMMA QuietHandler ==
  ASSUME LifeInv, LifeInv', Orderly, NEW t \in Sessions, Sits(t), box # <<>>,
         UNCHANGED <<bridge, workspace>>,
         \/ box' = Tail(box)
         \/ \E m \in Messages : m.kind \notin Outcomes \cup Arising /\ box' = Append(Tail(box), m),
         \A y \in Scripted' : y \in Scripted \/ y.kind \notin Arising,
         ~(Told = t /\ Head(box).kind \in Outcomes /\ Head(box).ok),
         \/ UNCHANGED <<mem, store>>
         \/ \E s \in Sessions \ {t}, rec \in Records :
              rec.kept /\ (AmendAndSave(s, rec) \/ PutAway(s, rec) \/ (Amend(s, rec) /\ store' = store))
         \/ /\ Known(t)
            /\ \E rec \in Records :
                 /\ rec.kept /\ rec.script = Believed(t)
                 /\ AmendAndSave(t, rec) \/ PutAway(t, rec) \/ (Amend(t, rec) /\ store' = store)
  PROVE  Sits(t)'
<1>1. \A y \in Live' : y.kind \in Arising => Came(1, y) \in Live
  BY Risen
<1>2. Bred(t)
  BY <1>1, RisenIsBred
<1>3. (Known(t)' <=> Known(t)) /\ (Known(t) => Believed(t)' = Believed(t))
  <2>1. CASE UNCHANGED <<mem, store>>
    BY <2>1, BelievedStay
  <2>2. ASSUME NEW s \in Sessions \ {t}, NEW rec \in Records,
               rec.kept /\ (AmendAndSave(s, rec) \/ PutAway(s, rec) \/ (Amend(s, rec) /\ store' = store))
        PROVE  (Known(t)' <=> Known(t)) /\ (Known(t) => Believed(t)' = Believed(t))
    <3>1. mem'[t] = mem[t] /\ store'[t] = store[t]
      BY <2>2, BelievedIs
    <3> QED
      BY <3>1, BelievedStay
  <2>3. ASSUME Known(t), NEW rec \in Records, rec.kept, rec.script = Believed(t),
               AmendAndSave(t, rec) \/ PutAway(t, rec) \/ (Amend(t, rec) /\ store' = store)
        PROVE  (Known(t)' <=> Known(t)) /\ (Known(t) => Believed(t)' = Believed(t))
    BY <2>3, BelievedIs
  <2> QED
    BY <2>1, <2>2, <2>3
<1> QED
  BY <1>2, <1>3, QuietSits

LEMMA PersistenceSits ==
  ASSUME LifeInv, LifeInv', Orderly, AllSafe, NEW t \in Roots, Sits(t),
         \/ HandlePushChatEntry \/ HandlePersistSession \/ HandleMarkSessionInteracted
         \/ HandleEnqueueUserMessage \/ OnStreamCompleted \/ OnLoadRequested
         \/ OnSessionForkRequested
  PROVE  Sits(t)'
<1>0. PICK x, s : x = First /\ s = Told
  OBVIOUS
<1>1. /\ box # <<>> /\ box' = Tail(box) /\ UNCHANGED <<bridge, scripts, workspace>>
      /\ Head(box).kind \notin Outcomes /\ Head(box).kind # "CancelLifecycleCommand"
  BY DEF HandlePushChatEntry, HandlePersistSession, HandleMarkSessionInteracted,
         HandleEnqueueUserMessage, OnStreamCompleted, OnLoadRequested,
         OnSessionForkRequested, Heads, Done, user, idle, Outcomes
<1>2. /\ s \in Sessions /\ Grown(s) /\ x.kind = Head(box).kind /\ x.s = s /\ x \in Live
      /\ Head(box).kind \notin Absent => Open(s)
  BY <1>0, <1>1, ToldIs, FirstLive
<1>3. t \in Sessions
  BY DEF Roots
<1>4. ASSUME \/ UNCHANGED <<mem, store>>
             \/ \E rec : /\ Fair(s, rec)
                         /\ AmendAndSave(s, rec) \/ (Amend(s, rec) /\ store' = store)
                         /\ s = t => Known(s) /\ rec.script = Believed(s)
      PROVE  Sits(t)'
  <2>1. Scripted' = Scripted
    BY <1>1, SameThings
  <2>2. CASE UNCHANGED <<mem, store>>
    BY <1>1, <1>3, <2>1, <2>2, QuietHandler
  <2>3. ASSUME NEW rec, Fair(s, rec), AmendAndSave(s, rec) \/ (Amend(s, rec) /\ store' = store),
               s = t => Known(s) /\ rec.script = Believed(s)
        PROVE  Sits(t)'
    <3> HIDE DEF AmendAndSave, Amend
    <3>1. rec \in Records /\ rec.kept
      BY <2>3 DEF Fair
    <3>2. \/ \E u \in Sessions \ {t}, r \in Records :
               r.kept /\ (AmendAndSave(u, r) \/ (Amend(u, r) /\ store' = store))
          \/ /\ Known(t)
             /\ \E r \in Records : /\ r.kept /\ r.script = Believed(t)
                                   /\ AmendAndSave(t, r) \/ (Amend(t, r) /\ store' = store)
      BY <1>2, <2>3, <3>1
    <3> QED
      BY <1>1, <1>3, <2>1, <3>2, QuietHandler
  <2> QED
    BY <1>4, <2>2, <2>3
<1>5. Open(s) => /\ Fair(s, mem[s]) /\ GetOrCreate(s) = mem[s] /\ mem[s] \in Records
                 /\ Known(s) /\ mem[s].script = Believed(s)
  BY <1>2, FairRecords, Present DEF Known, Believed
<1>6. \A rec : Fair(s, rec) => /\ Fair(s, Said(rec)) /\ Fair(s, [rec EXCEPT !.kept = TRUE])
                               /\ \A b \in BOOLEAN : Fair(s, [rec EXCEPT !.turn = b])
                               /\ \A n \in Nat : Fair(s, Requeued(rec, n))
  BY <1>2, FairRecords
<1>7. \A rec \in Records : /\ Said(rec).script = rec.script
                           /\ [rec EXCEPT !.kept = TRUE].script = rec.script
                           /\ \A b \in BOOLEAN : [rec EXCEPT !.turn = b].script = rec.script
                           /\ \A n \in Nat : Requeued(rec, n).script = rec.script
  BY ScriptStates
<1>8. Open(s) => Said(mem[s]) \in Records
  BY <1>5, RecordRows
<1>9. CASE HandlePushChatEntry
  <2>1. Open(s) /\ AmendAndSave(s, Said(mem[s]))
    BY <1>0, <1>2, <1>5, <1>9 DEF HandlePushChatEntry, Heads, Absent
  <2>2. Fair(s, Said(mem[s])) /\ Said(mem[s]).script = Believed(s)
    BY <1>5, <1>6, <1>7, <2>1
  <2> QED
    BY <1>4, <1>5, <2>1, <2>2
<1>10. CASE HandlePersistSession
  <2>1. Open(s) /\ mem' = mem /\ Save(s, mem[s], FALSE)
    BY <1>0, <1>2, <1>10 DEF HandlePersistSession, Heads, Absent
  <2>2. AmendAndSave(s, mem[s])
    BY <1>2, <2>1, Present DEF AmendAndSave, Amend
  <2> QED
    BY <1>4, <1>5, <2>1, <2>2
<1>11. CASE HandleMarkSessionInteracted
  <2>1. Open(s) /\ AmendAndSave(s, [mem[s] EXCEPT !.kept = TRUE])
    BY <1>0, <1>2, <1>11 DEF HandleMarkSessionInteracted, Heads, Absent
  <2>2. Fair(s, [mem[s] EXCEPT !.kept = TRUE]) /\ [mem[s] EXCEPT !.kept = TRUE].script = Believed(s)
    BY <1>5, <1>6, <1>7, <2>1
  <2> QED
    BY <1>4, <1>5, <2>1, <2>2
<1>12. ASSUME Open(s), NEW b \in BOOLEAN
       PROVE  /\ Fair(s, [Said(mem[s]) EXCEPT !.turn = b])
              /\ [Said(mem[s]) EXCEPT !.turn = b] \in Records
              /\ [Said(mem[s]) EXCEPT !.turn = b].script = Believed(s)
  <2>1. Fair(s, Said(mem[s])) /\ Said(mem[s]) \in Records /\ Said(mem[s]).script = Believed(s)
    BY <1>5, <1>6, <1>7, <1>8, <1>12
  <2>2. /\ Fair(s, [Said(mem[s]) EXCEPT !.turn = b])
        /\ [Said(mem[s]) EXCEPT !.turn = b].script = Believed(s)
    BY <1>6, <1>7, <2>1
  <2> QED
    BY <2>2 DEF Fair
<1>13. CASE HandleEnqueueUserMessage
  <2>1. Open(s)
    BY <1>0, <1>2, <1>13 DEF HandleEnqueueUserMessage, Heads, Absent
  <2>2. CASE GetOrCreate(s).turn
    <3>1. PICK n \in Nat : Amend(s, Requeued(mem[s], n)) /\ store' = store
      BY <1>0, <1>5, <1>13, <2>1, <2>2, TextQueued
    <3>2. Fair(s, Requeued(mem[s], n)) /\ Requeued(mem[s], n).script = Believed(s)
      BY <1>5, <1>6, <1>7, <2>1
    <3> QED
      BY <1>4, <1>5, <2>1, <3>1, <3>2
  <2>3. CASE ~GetOrCreate(s).turn
    <3>1. AmendAndSave(s, [Said(mem[s]) EXCEPT !.turn = TRUE])
      BY <1>0, <1>5, <1>13, <2>1, <2>3 DEF HandleEnqueueUserMessage
    <3> QED
      BY <1>4, <1>5, <1>12, <2>1, <3>1
  <2> QED
    BY <2>2, <2>3
<1>14. CASE OnStreamCompleted
  <2>1. Open(s)
    BY <1>0, <1>2, <1>14 DEF OnStreamCompleted, Heads, Absent
  <2>2. PICK n \in Nat : AmendAndSave(s, Requeued([Said(mem[s]) EXCEPT !.turn = FALSE], n))
    BY <1>0, <1>5, <1>14, <2>1, TurnOver
  <2>3. PICK rec : rec = [Said(mem[s]) EXCEPT !.turn = FALSE]
    OBVIOUS
  <2>4. Fair(s, rec) /\ rec \in Records /\ rec.script = Believed(s)
    BY <1>12, <2>1, <2>3
  <2>5. Fair(s, Requeued(rec, n)) /\ Requeued(rec, n).script = Believed(s)
    BY <1>6, <1>7, <2>4
  <2> QED
    BY <1>4, <1>5, <2>1, <2>2, <2>3, <2>5
<1>15. CASE OnLoadRequested
  <2>1. \/ UNCHANGED <<mem, store>>
        \/ Stored(s) /\ AmendAndSave(s, FromRow(store[s]))
    BY <1>0, <1>15 DEF OnLoadRequested
  <2>2. ASSUME Stored(s)
        PROVE  Fair(s, FromRow(store[s])) /\ Known(s) /\ FromRow(store[s]).script = Believed(s)
    <3>1. Believed(s) = store[s].script
      BY <1>0, <1>1, <1>15, <2>2, LoadFinds DEF OnLoadRequested, Heads
    <3>2. FromRow(store[s]).script = store[s].script
      <4>1. \A row \in Rows : FromRow(row).script = row.script
        BY DEF FromRow, Created, Rows
      <4> QED
        BY <1>2, <2>2, <4>1, Present
    <3> QED
      BY <1>2, <2>2, <3>1, <3>2, FairRecords DEF Known
  <2> QED
    BY <1>4, <2>1, <2>2
<1>16. CASE OnSessionForkRequested
  <2>1. s # t
    BY <1>0, <1>2, <1>16 DEF OnSessionForkRequested, Heads, Sits
  <2>2. Head(box).kind = "SessionForkRequested"
    BY <1>16 DEF OnSessionForkRequested, Heads
  <2>3. ~Stored(s)
    BY <1>0, <1>1, <2>2, ToldIs
  <2>4. Parent[s] \in Sessions /\ Grown(Parent[s])
    BY <1>2, SessionsAssumption DEF Orderly
  <2>5. Stored(Parent[s]) => Fair(s, FromRow(store[Parent[s]]))
    BY <1>2, <2>3, <2>4, FairRecords
  <2>6. \/ UNCHANGED <<mem, store>>
        \/ Stored(Parent[s]) /\ AmendAndSave(s, FromRow(store[Parent[s]]))
    BY <1>0, <1>16 DEF OnSessionForkRequested
  <2> QED
    BY <1>4, <2>1, <2>5, <2>6
<1> QED
  BY <1>9, <1>10, <1>11, <1>13, <1>14, <1>15, <1>16

\* A handler that starts a command or is refused it; a setup only where one was asked.
LEMMA SpawnSits ==
  ASSUME LifeInv, LifeInv', Orderly, box # <<>>, NEW t \in Sessions, Sits(t),
         UNCHANGED <<bridge, archiving, talking, queue, workspace>>, Told \in Sessions,
         NEW kind \in Outcomes, NEW m \in Messages, Spawn(kind, Told, <<m>>), m.s = Told,
         ~(m.kind \in Outcomes /\ m.ok), m.kind \in {kind, "PushChatEntry"},
         kind = "setup" => Head(box).kind = "RunSessionSetup", Head(box).kind \in Requests,
         Known(t)' <=> Known(t), Known(t) => Believed(t)' = Believed(t)
  PROVE  Sits(t)'
<1>0. PICK x, s : x = First /\ s = Told
  OBVIOUS
<1>1. s \in Sessions /\ x.kind = Head(box).kind /\ x.s = s /\ (Counts(x) => x \in Live)
  BY <1>0, FirstLive
<1>2. PICK y : y.s = s /\ y.kind \in {kind, m.kind} /\ Moved(1, {x}, {y})
  <2>1. Spawn(kind, s, <<m>>) /\ m.s = s
    BY <1>0
  <2>2. bridge' = bridge /\ archiving' = archiving /\ UNCHANGED <<talking, queue>>
    OBVIOUS
  <2>3. s \in Sessions /\ x = First
    BY <1>0, <1>1
  <2> QED
    BY <2>1, <2>2, <2>3, SpawnMoves
<1>3. y.kind \in Arising => y.kind = "setup" /\ kind = "setup"
  BY <1>2 DEF Arising, Setups, Outcomes
<1>4. Bred(t)
  <2>1. ASSUME NEW z \in Live', z.s = t, z.kind \in Arising
        PROVE  \E v \in Live : v.s = t /\ v.kind \in Arising /\ (v.kind \in Setups <=> z.kind \in Setups)
    <3>1. CASE z = y
      <4>1. x.kind = "RunSessionSetup" /\ z.kind = "setup"
        BY <1>1, <1>3, <2>1, <3>1, <1>0
      <4>2. x \in Live
        BY <1>1, <4>1 DEF Counts
      <4> QED
        BY <1>1, <1>2, <2>1, <3>1, <4>1, <4>2 DEF Arising, Setups
    <3>2. CASE Came(1, z) \in Live
      BY <2>1, <3>2, CameIs
    <3> QED
      BY <1>2, <3>1, <3>2 DEF Moved
  <2> QED
    BY <2>1 DEF Bred
<1>5. \/ box' = Tail(box)
      \/ \E n \in Messages : ~(n.kind \in Outcomes /\ n.ok) /\ box' = Append(Tail(box), n)
  <2>1. \A q \in Seq(Messages) : q \o <<m>> = Append(q, m)
    OBVIOUS
  <2>2. Tail(box) \in Seq(Messages)
    BY InBox
  <2> QED
    BY <2>1, <2>2 DEF Spawn
<1>6. Head(box).kind \notin Outcomes
  BY DEF Requests, Outcomes
<1> QED
  BY <1>4, <1>5, <1>6, QuietSits

\* The teardown of an open session begins.
LEMMA TeardownSits ==
  ASSUME LifeInv, LifeInv', Orderly, box # <<>>, NEW t \in Sessions, Sits(t), Open(Told),
         NEW kind \in Tears, Head(box).kind \in Requests, BeginTeardown(kind, Told)
  PROVE  Sits(t)'
<1>0. PICK s : s = Told
  OBVIOUS
<1>1. s \in Sessions /\ Open(s) /\ Grown(s)
  BY <1>0, ToldIs
<1>2. PICK rec : rec = [mem[s] EXCEPT !.busy = @ + 1]
  OBVIOUS
<1>3. /\ AmendAndSave(s, Said(rec)) /\ Spawn(kind, s, <<Finish(kind, s, FALSE)>>)
      /\ UNCHANGED <<bridge, archiving, talking, queue, workspace>>
  BY <1>0, <1>2 DEF BeginTeardown
<1>4. Fair(s, Said(rec)) /\ Said(rec).script = mem[s].script
  <2>1. mem[s] \in Records /\ Fair(s, mem[s])
    BY <1>1, Present, FairRecords
  <2>2. Fair(s, rec) /\ rec.script = mem[s].script /\ rec \in Records
    BY <1>1, <1>2, <2>1, FairRecords, ScriptStates DEF Fair
  <2> QED
    BY <1>1, <2>2, FairRecords, ScriptStates
<1>5. /\ Known(s)' /\ Believed(s)' = mem[s].script
      /\ \A u \in Sessions \ {s} : mem'[u] = mem[u] /\ store'[u] = store[u]
  BY <1>1, <1>3, <1>4, BelievedIs DEF Fair
<1>6. (Known(t)' <=> Known(t)) /\ (Known(t) => Believed(t)' = Believed(t))
  <2>1. CASE t = s
    BY <1>1, <1>5, <2>1 DEF Known, Believed
  <2>2. CASE t # s
    BY <1>5, <2>2, BelievedStay
  <2> QED
    BY <2>1, <2>2
<1>7. PICK m : m = Finish(kind, s, FALSE)
  OBVIOUS
<1>8. kind \in Outcomes /\ kind # "setup"
  BY DEF Tears, Outcomes
<1>9. m \in Messages /\ m.kind = kind /\ m.s = s /\ ~m.ok
  <2>1. m.ok = FALSE
    BY <1>7 DEF Finish
  <2> QED
    BY <1>1, <1>7, <1>8, <2>1, Answers
<1> QED
  BY <1>0, <1>1, <1>3, <1>6, <1>7, <1>8, <1>9, SpawnSits

LEMMA SetupSits ==
  ASSUME LifeInv, LifeInv', Orderly, NEW t \in Roots, Sits(t),
         HandleRunSessionSetup \/ HandleFinishSessionSetup
  PROVE  Sits(t)'
<1>0. PICK x, s : x = First /\ s = Told
  OBVIOUS
<1>1. /\ box # <<>> /\ Head(box).kind \in {"RunSessionSetup", "setup"}
      /\ UNCHANGED <<bridge, workspace, archiving, talking, queue, store>>
  BY DEF HandleRunSessionSetup, HandleFinishSessionSetup, Heads, user
<1>2. /\ s \in Sessions /\ Grown(s) /\ x.kind = Head(box).kind /\ x.s = s /\ x \in Live /\ Open(s)
  BY <1>0, <1>1, ToldIs, FirstLive DEF Absent
<1>3. t \in Sessions
  BY DEF Roots
<1>4. mem[s] \in Records /\ Fair(s, mem[s]) /\ mem[s].script = Believed(s) /\ Known(s)
  BY <1>2, Present, FairRecords DEF Believed, Known
<1>5. PICK m : m = Message("PushChatEntry", s)
  OBVIOUS
<1>6. m \in Messages /\ m.kind = "PushChatEntry" /\ m.s = s
  BY <1>2, <1>5, Answers
<1>7. CASE HandleRunSessionSetup
  <2>1. PICK rec : rec = [mem[s] EXCEPT !.busy = @ + 1]
    OBVIOUS
  <2>2. rec \in Records /\ rec.kept /\ rec.script = mem[s].script
    BY <1>2, <1>4, <2>1, FairRecords, ScriptStates DEF Fair
  <2>3. mem' = mem \/ Amend(s, rec)
    BY <1>0, <1>7, <2>1 DEF HandleRunSessionSetup
  <2>4. (Known(t)' <=> Known(t)) /\ (Known(t) => Believed(t)' = Believed(t))
    <3>1. CASE mem' = mem
      BY <1>1, <1>3, <3>1, BelievedStay
    <3>2. CASE Amend(s, rec) /\ t = s
      BY <1>1, <1>2, <1>4, <2>2, <3>2, BelievedIs
    <3>3. CASE Amend(s, rec) /\ t # s
      <4>1. mem'[t] = mem[t] /\ store'[t] = store[t]
        BY <1>1, <1>2, <1>3, <2>2, <3>3, BelievedIs
      <4> QED
        BY <1>3, <4>1, BelievedStay
    <3> QED
      BY <2>3, <3>1, <3>2, <3>3
  <2>5. Spawn("setup", s, <<m>>) /\ Head(box).kind = "RunSessionSetup"
    BY <1>0, <1>5, <1>7 DEF HandleRunSessionSetup, Heads
  <2>6. "setup" \in Outcomes /\ "RunSessionSetup" \in Requests /\ "PushChatEntry" \notin Outcomes
    BY DEF Outcomes, Requests
  <2> HIDE DEF Outcomes, Requests
  <2> QED
    BY <1>0, <1>1, <1>2, <1>3, <1>6, <2>4, <2>5, <2>6, SpawnSits
<1>8. CASE HandleFinishSessionSetup
  <2>1. /\ Head(box).kind = "setup" /\ scripts' = scripts /\ box' = Append(Tail(box), m)
        /\ Amend(s, IF Head(box).ok THEN AfterSetup(Released(mem[s])) ELSE Released(mem[s]))
    BY <1>0, <1>2, <1>5, <1>8 DEF HandleFinishSessionSetup, Heads
  <2>2. /\ Released(mem[s]) \in Records /\ Released(mem[s]).kept
        /\ Released(mem[s]).script = mem[s].script
        /\ AfterSetup(Released(mem[s])) \in Records /\ AfterSetup(Released(mem[s])).kept
    BY <1>2, <1>4, FairRecords, ScriptStates DEF Fair
  <2>3. /\ "setup" \in Outcomes /\ "PushChatEntry" \notin Outcomes \cup Arising
        /\ \A y \in Scripted' : y \in Scripted
    BY <2>1, SameThings DEF Outcomes, Arising, Setups
  <2>4. ASSUME NEW rec \in Records, rec.kept, Amend(s, rec), s # t
        PROVE  Sits(t)'
    <3>1. s \in Sessions \ {t}
      BY <1>2, <2>4
    <3> QED
      BY <1>0, <1>1, <1>3, <1>6, <2>1, <2>3, <2>4, <3>1, QuietHandler
  <2>5. CASE ~Head(box).ok /\ s = t
    <3>1. Amend(t, Released(mem[s])) /\ store' = store /\ Known(t)
      BY <1>1, <1>4, <2>1, <2>5
    <3>2. /\ Released(mem[s]) \in Records /\ Released(mem[s]).kept
          /\ Released(mem[s]).script = Believed(t)
      BY <1>4, <2>2, <2>5
    <3> QED
      BY <1>0, <1>1, <1>3, <1>6, <2>1, <2>3, <2>5, <3>1, <3>2, QuietHandler
  <2>6. CASE Head(box).ok /\ s = t
    <3>1. workspace[s] = "up"
      <4>1. Succeeded({"setup"}, s)
        <5>1. {"setup"} \in SUBSET Outcomes
          BY DEF Outcomes
        <5> QED
          BY <1>0, <1>1, <1>2, <2>1, <2>6, <5>1, SucceededIs
      <4> QED
        BY <2>6, <4>1 DEF Sits
    <3>2. Believed(s) = "NothingRan"
      BY <1>2, <2>1, <2>6 DEF Sits, Setups
    <3>3. AfterSetup(Released(mem[s])).script = "SetupRan"
      BY <1>4, <2>2, <3>2, ScriptStates
    <3>4. Known(s)' /\ Believed(s)' = "SetupRan"
      BY <1>1, <1>2, <2>1, <2>2, <2>6, <3>3, BelievedIs
    <3> QED
      BY <1>0, <1>1, <1>2, <1>6, <2>1, <2>3, <2>6, <3>1, <3>4, EndingSits
  <2> QED
    BY <2>1, <2>2, <2>4, <2>5, <2>6
<1> QED
  BY <1>7, <1>8

LEMMA FinishSits ==
  ASSUME LifeInv, LifeInv', Orderly, NEW t \in Roots, Sits(t), HandleFinishSessionTeardown
  PROVE  Sits(t)'
<1>0. PICK x, s : x = First /\ s = Told
  OBVIOUS
<1>1. /\ box # <<>> /\ Head(box).kind \in Tears /\ UNCHANGED <<bridge, scripts, workspace>>
  BY DEF HandleFinishSessionTeardown, Heads, user, Tears
<1>2. /\ s \in Sessions /\ Grown(s) /\ Open(s)
  <2>1. Head(box).kind \notin Absent /\ Head(box).kind # "CancelLifecycleCommand"
    BY <1>1 DEF Tears, Absent
  <2> QED
    BY <1>0, <1>1, <2>1, ToldIs
<1>3. t \in Sessions
  BY DEF Roots
<1>4. mem[s] \in Records /\ Fair(s, mem[s]) /\ mem[s].script = Believed(s) /\ Known(s)
  BY <1>2, Present, FairRecords DEF Believed, Known
<1>5. PICK m : m = Message("PushChatEntry", s)
  OBVIOUS
<1>6. m \in Messages /\ m.kind = "PushChatEntry" /\ m.s = s
  BY <1>2, <1>5, Answers
<1>7. PICK rec : rec = AfterTeardown(Released(mem[s]))
  OBVIOUS
<1>8. /\ Released(mem[s]) \in Records /\ Released(mem[s]).kept
      /\ Released(mem[s]).script = Believed(s)
      /\ rec \in Records /\ rec.kept /\ rec.script # "SetupRan"
  BY <1>2, <1>4, <1>7, FairRecords, ScriptStates DEF Fair
<1>9. /\ Head(box).kind \in Outcomes /\ m.kind \notin Outcomes \cup Arising
      /\ \A y \in Scripted' : y \in Scripted
  BY <1>1, <1>6, SameThings DEF Outcomes, Tears, Arising, Setups
<1>10. \/ /\ ~Head(box).ok /\ Amend(s, Released(mem[s])) /\ store' = store
          /\ box' = Append(Tail(box), m)
       \/ /\ Head(box).ok
          /\ AmendAndSave(s, rec) \/ PutAway(s, rec)
          /\ box' = Tail(box) \/ box' = Append(Tail(box), m)
  BY <1>0, <1>2, <1>5, <1>7 DEF HandleFinishSessionTeardown, Done
<1>11. ASSUME NEW r \in Records, r.kept, s # t,
              AmendAndSave(s, r) \/ PutAway(s, r) \/ (Amend(s, r) /\ store' = store)
       PROVE  Sits(t)'
  <2>1. s \in Sessions \ {t}
    BY <1>2, <1>11
  <2>2. \/ box' = Tail(box)
        \/ \E n \in Messages : n.kind \notin Outcomes \cup Arising /\ box' = Append(Tail(box), n)
    BY <1>6, <1>9, <1>10
  <2> HIDE DEF AmendAndSave, PutAway, Amend
  <2> QED
    BY <1>0, <1>1, <1>3, <1>9, <1>11, <2>1, <2>2, QuietHandler
<1>12. CASE s = t /\ ~Head(box).ok
  <2>1. Amend(t, Released(mem[s])) /\ store' = store /\ box' = Append(Tail(box), m) /\ Known(t)
    BY <1>4, <1>10, <1>12
  <2>2. Released(mem[s]).script = Believed(t)
    BY <1>8, <1>12
  <2> QED
    BY <1>1, <1>3, <1>6, <1>8, <1>9, <1>12, <2>1, <2>2, QuietHandler
<1>13. CASE s = t /\ Head(box).ok
  <2>1. workspace[s] # "up"
    <3>1. Tears \in SUBSET Outcomes
      BY DEF Tears, Outcomes
    <3>2. Succeeded(Tears, s)
      BY <1>0, <1>1, <1>2, <1>13, <3>1, SucceededIs
    <3> QED
      BY <1>13, <3>2 DEF Sits
  <2>2. /\ AmendAndSave(s, rec) \/ PutAway(s, rec)
        /\ box' = Tail(box) \/ box' = Append(Tail(box), m)
    BY <1>10, <1>13
  <2>3. Known(s)' /\ Believed(s)' # "SetupRan"
    BY <1>2, <1>8, <2>2, BelievedIs
  <2> QED
    BY <1>0, <1>1, <1>2, <1>6, <1>9, <1>13, <2>1, <2>2, <2>3, EndingSits
<1> QED
  BY <1>8, <1>10, <1>11, <1>12, <1>13

LEMMA RequestSits ==
  ASSUME LifeInv, LifeInv', Orderly, NEW t \in Roots, Sits(t),
         \/ HandleRunSessionTeardown \/ HandleCancelLifecycleCommand \/ HandleCloseSession
         \/ HandleArchiveSession \/ HandleArchiveSessionTree \/ HandleTeardownSessionTree
  PROVE  Sits(t)'
<1>0. PICK s : s = Told
  OBVIOUS
<1>1. box # <<>> /\ Head(box).kind \in Requests
  BY DEF HandleRunSessionTeardown, HandleCancelLifecycleCommand, HandleCloseSession,
         HandleArchiveSession, HandleArchiveSessionTree, HandleTeardownSessionTree, Heads, Requests
<1>2. s \in Sessions /\ Grown(s) /\ t \in Sessions /\ Head(box).kind \notin Outcomes
  BY <1>0, <1>1, ToldIs DEF Roots, Requests, Outcomes
<1>3. CASE /\ UNCHANGED <<mem, store, bridge, workspace>> /\ box' = Tail(box)
           /\ \A y \in Scripted' : y \in Scripted \/ y.kind \notin Arising
  BY <1>1, <1>2, <1>3, QuietHandler
<1>4. CASE UNCHANGED <<mem, store, bridge, scripts, workspace>> /\ box' = Tail(box)
  <2>1. Scripted' = Scripted
    BY <1>4, SameThings
  <2> QED
    BY <1>3, <1>4, <2>1
<1>5. CASE /\ Open(Told) /\ PutAway(Told, mem[Told]) /\ box' = Tail(box)
           /\ UNCHANGED <<bridge, scripts, workspace>>
  <2>1. /\ mem[s] \in Records /\ mem[s].kept /\ mem[s].script = Believed(s) /\ Known(s)
        /\ PutAway(s, mem[s])
    BY <1>0, <1>2, <1>5, Present DEF Grown, Believed, Known
  <2>2. \A y \in Scripted' : y \in Scripted
    BY <1>5, SameThings
  <2> HIDE DEF PutAway
  <2>3. CASE s = t
    <3>1. PutAway(t, mem[s]) /\ Known(t) /\ mem[s].script = Believed(t)
      BY <2>1, <2>3
    <3> QED
      BY <1>1, <1>2, <1>5, <2>1, <2>2, <3>1, QuietHandler
  <2>4. CASE s # t
    <3>1. s \in Sessions \ {t}
      BY <1>2, <2>4
    <3> QED
      BY <1>1, <1>2, <1>5, <2>1, <2>2, <3>1, QuietHandler
  <2> QED
    BY <2>3, <2>4
<1>6. ASSUME NEW kind \in Tears, Open(Told), BeginTeardown(kind, Told)
      PROVE  Sits(t)'
  BY <1>1, <1>2, <1>6, TeardownSits
<1>7. "None" \in Tears /\ "Close" \in Tears /\ "CloseTree" \in Tears
  BY DEF Tears
<1>8. CASE HandleRunSessionTeardown
  BY <1>4, <1>6, <1>7, <1>8 DEF HandleRunSessionTeardown, Own, Done, user, idle
<1>9. CASE HandleCloseSession
  BY <1>4, <1>5, <1>6, <1>7, <1>9 DEF HandleCloseSession, Due, Own, Done, user, idle
<1>10. CASE HandleArchiveSession
  BY <1>4, <1>5, <1>10 DEF HandleArchiveSession, Done, user, idle
<1>11. CASE HandleArchiveSessionTree
  BY <1>4, <1>11 DEF HandleArchiveSessionTree, Done, user
<1>12. CASE HandleTeardownSessionTree
  BY <1>4, <1>6, <1>7, <1>12 DEF HandleTeardownSessionTree, Done, user, idle
<1>13. CASE HandleCancelLifecycleCommand
  <2>1. /\ box' = Tail(box) /\ UNCHANGED <<mem, store, bridge, workspace>>
    BY <1>13 DEF HandleCancelLifecycleCommand, Done, user
  <2>2. Scripted' \subseteq Scripted
    <3>1. CASE child # 0 /\ Works(child)
      <4>1. child \in DOMAIN scripts /\ scripts[child].st # "ended"
        BY <3>1 DEF LifeInv, ScriptsOK, Works
      <4>2. scripts' = [scripts EXCEPT ![child].st = "killed"]
        BY <1>13, <3>1 DEF HandleCancelLifecycleCommand
      <4> QED
        BY <4>1, <4>2, ScriptsMove
    <3>2. CASE ~(child # 0 /\ Works(child))
      BY <1>13, <3>2, SameThings DEF HandleCancelLifecycleCommand
    <3> QED
      BY <3>1, <3>2
  <2> QED
    BY <1>3, <2>1, <2>2
<1> QED
  BY <1>8, <1>9, <1>10, <1>11, <1>12, <1>13

\* A member that is put away leaves its script state in its row.
LEMMA ArchiveNextSits ==
  ASSUME LifeInv, LifeInv', Orderly, NEW t \in Roots, Sits(t), NEW s \in archiving, ArchiveNext(s)
  PROVE  Sits(t)'
<1>1. s \in Sessions /\ Grown(s) /\ t \in Sessions
  BY DEF LifeInv, WorldOK, Orderly, Roots
<1>2. /\ UNCHANGED <<bridge, box, scripts, talking, idles, hand, workspace>>
      /\ archiving' = archiving \ {s}
  BY DEF ArchiveNext, user
<1>3. \A y \in Live' : y.kind \in Arising => Came(0, y) \in Live
  <2>1. /\ Posted' = Posted /\ Boxed' = Boxed /\ Scripted' = Scripted /\ Asking' = Asking
        /\ Doomed' \subseteq Doomed
    BY <1>2, SameThings DEF Doomed, TreeOf, Asking
  <2>2. Moved(0, {}, {})
    BY <2>1, Stays
  <2> QED
    BY <2>2 DEF Moved
<1>4. Bred(t)
  BY <1>3, RisenIsBred
<1>5. /\ (Known(s)' <=> Known(s)) /\ (Known(s) => Believed(s)' = Believed(s))
      /\ \A u \in Sessions \ {s} : mem'[u] = mem[u] /\ store'[u] = store[u]
  <2>1. CASE Kept(s)
    <3>1. /\ mem[s] \in Records /\ mem[s].kept /\ PutAway(s, mem[s])
          /\ Known(s) /\ Believed(s) = mem[s].script
      BY <1>1, <2>1, Present DEF ArchiveNext, Kept, Known, Believed
    <3> QED
      BY <1>1, <3>1, BelievedIs
  <2>2. CASE ~Kept(s)
    <3>1. /\ ~Open(s) /\ DOMAIN mem = Sessions /\ DOMAIN store = Sessions
          /\ (Stored(s) => store[s] \in Rows)
      BY <1>1, <2>2, Present DEF Grown, Kept
    <3>2. /\ mem' = [mem EXCEPT ![s] = NoSession]
          /\ store' = IF Stored(s) THEN [store EXCEPT ![s].archived = TRUE] ELSE store
      BY <2>2 DEF ArchiveNext
    <3>3. /\ mem'[s] = NoSession
          /\ \A u \in Sessions \ {s} : mem'[u] = mem[u] /\ store'[u] = store[u]
      BY <1>1, <3>1, <3>2
    <3>4. (Stored(s)' <=> Stored(s)) /\ (Stored(s) => store'[s].script = store[s].script)
      <4>1. CASE Stored(s)
        <5>1. PICK row \in Rows : row = store[s]
          BY <3>1, <4>1
        <5>2. store'[s] = [row EXCEPT !.archived = TRUE]
          BY <1>1, <3>1, <3>2, <4>1, <5>1
        <5>3. store'[s] \in Rows /\ store'[s].script = row.script
          BY <5>2 DEF Rows
        <5> QED
          BY <4>1, <5>1, <5>3, NoSessionAssumption DEF Stored
      <4>2. CASE ~Stored(s)
        BY <3>2, <4>2 DEF Stored
      <4> QED
        BY <4>1, <4>2
    <3> QED
      BY <3>1, <3>3, <3>4 DEF Known, Believed, Open
  <2> QED
    BY <2>1, <2>2
<1>6. (Known(t)' <=> Known(t)) /\ (Known(t) => Believed(t)' = Believed(t))
  BY <1>1, <1>5, BelievedStay
<1>7. \A kinds \in {Outcomes, {"setup"}, Tears} : Succeeded(kinds, t)' <=> Succeeded(kinds, t)
  BY <1>2 DEF Succeeded
<1> QED
  BY <1>1, <1>2, <1>4, <1>6, <1>7, SitsOn

\* A message joins the mailbox.
LEMMA JoinedSits ==
  ASSUME LifeInv, LifeInv', Orderly, NEW t \in Sessions, Sits(t), mem' = mem, store' = store,
         workspace'[t] = workspace[t], NEW m \in Messages, box' = Append(box, m),
         ~(m.s = t /\ m.kind \in Outcomes /\ m.ok),
         m.kind \in Arising => \E x \in Live : x.s = m.s /\ x.kind = m.kind,
         Posted' \subseteq Posted, Scripted' \subseteq Scripted, Doomed' \subseteq Doomed,
         Asking' \subseteq Asking
  PROVE  Sits(t)'
<1>1. PICK y : /\ Boxed' \subseteq Boxed \cup {y} /\ y.kind = m.kind /\ y.s = m.s
  BY BoxGrows, ThingIs
<1>2. Moved(0, {}, {y})
  BY <1>1, Stays
<1>3. Bred(t)
  BY <1>1, <1>2, CameIs DEF Moved, Bred
<1>4. \A kinds \in {Outcomes, {"setup"}, Tears} : Succeeded(kinds, t)' <=> Succeeded(kinds, t)
  <2>1. \A kinds \in {Outcomes, {"setup"}, Tears} : kinds \in SUBSET Outcomes
    BY DEF Outcomes, Tears
  <2> QED
    BY <2>1, SucceededIs
<1> QED
  BY <1>3, <1>4, BelievedStay, SitsOn

\* A command that succeeds leaves the workspace as its ending says, and is alone.
LEMMA SuccessSits ==
  ASSUME LifeInv, LifeInv', Orderly, NEW t \in Roots, Sits(t), NEW i \in DOMAIN scripts,
         scripts[i].s = t, ScriptEnds(i, TRUE)
  PROVE  Sits(t)'
<1>1. /\ t \in Sessions /\ Parent[t] = t /\ scripts[i].st # "ended" /\ scripts[i].kind \in Outcomes
  <2>1. \A j \in DOMAIN scripts : scripts[j] \in Commands
    BY DEF LifeInv, ScriptsOK
  <2> QED
    BY <2>1 DEF Roots, ScriptEnds, Works, Commands
<1>2. PICK m, x, k : /\ m = Finish(k, t, TRUE) /\ x = Thing("script", i, k, t) /\ k = scripts[i].kind
  OBVIOUS
<1>3. m \in Messages /\ m.kind = k /\ m.s = t /\ m.ok /\ k \in Outcomes
  <2>1. \A n \in Outcomes : /\ Finish(n, t, TRUE) \in Messages /\ Finish(n, t, TRUE).kind = n
                            /\ Finish(n, t, TRUE).s = t /\ Finish(n, t, TRUE).ok
    BY <1>1 DEF Finish, Messages
  <2> QED
    BY <1>1, <1>2, <2>1
<1>4. x \in Live /\ x.kind = k /\ x.s = t /\ x.at = "script"
  <2>1. x.kind = k /\ x.s = t /\ x.at = "script"
    BY <1>2, ThingIs
  <2>2. x \in Scripted
    BY <1>1, <1>2 DEF Scripted, ScriptedOf
  <2> QED
    BY <1>3, <2>1, <2>2 DEF Live, Counts, Outcomes
<1>5. /\ UNCHANGED <<mem, store, bridge, archiving, talking, queue>> /\ box' = Append(box, m)
      /\ workspace'[t] = Effect(k)
  <2>1. workspace' = [workspace EXCEPT ![t] = Effect(k)] /\ DOMAIN workspace = Sessions
    BY <1>1, <1>2 DEF ScriptEnds, LifeInv, WorldOK
  <2>2. box' = Append(box, m) /\ UNCHANGED <<mem, store, bridge, archiving, talking, queue>>
    BY <1>2 DEF ScriptEnds
  <2> QED
    BY <1>1, <2>1, <2>2
<1>6. Open(t)
  BY <1>3, <1>4 DEF Orderly, Attended, Absent, Outcomes
<1>7. ~Succeeded(Outcomes, t)
  <2>1. x.kind \notin Light \/ x.kind \in Setups
    BY <1>3, <1>4 DEF Outcomes, Light, Setups
  <2>2. \A j \in DOMAIN box : box[j].s = t /\ box[j].kind \in Outcomes => x.at = "box"
    BY <1>4, <2>1, Sole
  <2> QED
    BY <1>4, <2>2 DEF Succeeded
<1>8. \A kinds \in {Outcomes, {"setup"}, Tears} : Succeeded(kinds, t)' <=> k \in kinds
  <2>1. \A kinds \in {Outcomes, {"setup"}, Tears} : kinds \in SUBSET Outcomes /\ ~Succeeded(kinds, t)
    BY <1>7 DEF Succeeded, Outcomes, Tears
  <2> QED
    BY <1>1, <1>3, <1>5, <2>1, SucceededIs
<1>9. Known(t)' /\ Believed(t)' = Believed(t)
  BY <1>5, <1>6 DEF Known, Believed, Open
<1>10. \A y \in Live' : y.s = t =>
         y.kind # "SessionForkRequested" /\ (y.kind \in Setups => Believed(t)' = "NothingRan")
  <2>1. PICK z : Boxed' \subseteq Boxed \cup {z} /\ z.kind = k /\ z.s = t
    BY <1>3, <1>5, BoxGrows, ThingIs
  <2>2. Scripted' \subseteq Scripted
    <3>1. scripts' = [scripts EXCEPT ![i].st = "ended"]
      BY DEF ScriptEnds
    <3> QED
      BY <3>1, ScriptsMove
  <2>3. Posted' = Posted /\ Doomed' = Doomed /\ Asking' = Asking
    BY <1>5, SameThings
  <2>4. Moved(0, {}, {z})
    BY <2>1, <2>2, <2>3, Stays
  <2>5. \A y \in Live' : y.s = t => \E v \in Live : v.s = t /\ v.kind = y.kind
    BY <1>4, <2>1, <2>4, CameIs DEF Moved
  <2> QED
    BY <1>9, <2>5 DEF Sits
<1>11. /\ k = "setup" => workspace'[t] = "up"
       /\ k \in Tears => workspace'[t] # "up"
  BY <1>5 DEF Effect, Tears
<1> QED
  BY <1>3, <1>8, <1>9, <1>10, <1>11 DEF Sits

LEMMA TasksSit ==
  ASSUME LifeInv, LifeInv', Orderly, NoForks, NEW t \in Roots, Sits(t), Tasks
  PROVE  Sits(t)'
<1>1. mem' = mem /\ store' = store /\ t \in Sessions /\ Parent[t] = t
  BY DEF Tasks, BridgePublish, ScriptReportsKill, ScriptEnds, TurnEnds, Roots
<1>2. ASSUME NEW m \in BagToSet(bridge), BridgePublish(m)
      PROVE  Sits(t)'
  <2>1. /\ bridge' = bridge (-) SetToBag({m}) /\ box' = Append(box, m)
        /\ UNCHANGED idle
    BY <1>2 DEF BridgePublish
  <2>2. PICK x : x = Thing("bridge", bridge[m], m.kind, m.s) /\ x.kind = m.kind /\ x.s = m.s
    BY ThingIs
  <2>3. m \in Asked /\ x \in Posted /\ Posted' \subseteq Posted
    BY <2>1, <2>2, PostedShrinks
  <2>4. m \in Messages /\ m.kind \notin Outcomes
    BY <2>3, InBox
  <2>5. m.kind \in Arising => x \in Live
    BY <2>2, <2>3 DEF Live, Counts, Arising, Setups
  <2>6. Scripted' = Scripted /\ Doomed' = Doomed /\ Asking' = Asking /\ workspace' = workspace
    BY <2>1, SameThings DEF idle
  <2> QED
    BY <1>1, <2>1, <2>2, <2>3, <2>4, <2>5, <2>6, JoinedSits
<1>3. ASSUME NEW s \in talking, TurnEnds(s)
      PROVE  Sits(t)'
  <2>1. /\ UNCHANGED <<bridge, scripts, archiving, queue, workspace>> /\ talking' = talking \ {s}
        /\ box' = Append(box, Message("StreamCompleted", s)) /\ s \in Sessions
    BY <1>3 DEF TurnEnds, user, LifeInv, WorldOK
  <2>2. PICK m : m = Message("StreamCompleted", s) /\ m.kind = "StreamCompleted" /\ m.s = s /\ m \in Messages
    BY <2>1 DEF Message, Messages, Asked, Requests
  <2>3. m.kind \notin Arising /\ m.kind \notin Outcomes
    BY <2>2 DEF Arising, Setups, Outcomes
  <2>4. Posted' = Posted /\ Doomed' = Doomed /\ Scripted' = Scripted /\ Asking' \subseteq Asking
    BY <2>1, SameThings DEF Asking, TurnsOf, queue
  <2> QED
    BY <1>1, <2>1, <2>2, <2>3, <2>4, JoinedSits
<1>4. ASSUME NEW i \in DOMAIN scripts, NEW ok \in BOOLEAN, scripts[i].st # "ended",
             scripts' = [scripts EXCEPT ![i].st = "ended"], UNCHANGED <<bridge, archiving, talking, queue>>,
             box' = Append(box, Finish(scripts[i].kind, scripts[i].s, ok)),
             workspace'[t] = workspace[t], ~(ok /\ scripts[i].s = t)
      PROVE  Sits(t)'
  <2>1. scripts[i].kind \in Outcomes /\ scripts[i].s \in Sessions
    <3>1. \A j \in DOMAIN scripts : scripts[j] \in Commands
      BY DEF LifeInv, ScriptsOK
    <3> QED
      BY <3>1 DEF Commands
  <2>2. PICK m : /\ m = Finish(scripts[i].kind, scripts[i].s, ok) /\ m.ok = ok
                 /\ m.kind = scripts[i].kind /\ m.s = scripts[i].s /\ m \in Messages
    <3>1. \A k \in Outcomes, s \in Sessions :
            /\ Finish(k, s, ok) \in Messages /\ Finish(k, s, ok).kind = k
            /\ Finish(k, s, ok).s = s /\ Finish(k, s, ok).ok = ok
      BY DEF Finish, Messages
    <3> QED
      BY <2>1, <3>1
  <2>3. PICK x : /\ x = Thing("script", i, scripts[i].kind, scripts[i].s)
                 /\ x.kind = scripts[i].kind /\ x.s = scripts[i].s
    BY ThingIs
  <2>4. x \in Live
    <3>1. x \in Scripted
      BY <1>4, <2>3 DEF Scripted, ScriptedOf
    <3> QED
      BY <2>1, <2>3, <3>1 DEF Live, Counts, Outcomes
  <2>5. Scripted' \subseteq Scripted
    BY <1>4, ScriptsMove
  <2>6. Posted' = Posted /\ Doomed' = Doomed /\ Asking' = Asking
    BY <1>4, SameThings
  <2> QED
    BY <1>1, <1>4, <2>2, <2>3, <2>4, <2>5, <2>6, JoinedSits
<1>5. ASSUME NEW i \in DOMAIN scripts, ScriptReportsKill(i)
      PROVE  Sits(t)'
  BY <1>4, <1>5 DEF ScriptReportsKill, user
<1>6. ASSUME NEW i \in DOMAIN scripts, ScriptEnds(i, FALSE)
      PROVE  Sits(t)'
  BY <1>4, <1>6 DEF ScriptEnds, Works
<1>7. ASSUME NEW i \in DOMAIN scripts, ScriptEnds(i, TRUE)
      PROVE  Sits(t)'
  <2>1. CASE scripts[i].s = t
    BY <1>7, <2>1, SuccessSits
  <2>2. CASE scripts[i].s # t
    <3>1. PICK s \in Sessions : s = scripts[i].s /\ scripts[i].kind \in Outcomes
      <4>1. \A j \in DOMAIN scripts : scripts[j] \in Commands
        BY DEF LifeInv, ScriptsOK
      <4> QED
        BY <4>1 DEF Commands
    <3>2. Open(s)
      <4>1. PICK x : /\ x = Thing("script", i, scripts[i].kind, scripts[i].s)
                     /\ x.kind = scripts[i].kind /\ x.s = s
        BY <3>1, ThingIs
      <4>2. x \in Scripted
        BY <1>7, <4>1 DEF Scripted, ScriptedOf, ScriptEnds, Works
      <4>3. x \in Live /\ x.kind \notin Absent
        BY <3>1, <4>1, <4>2 DEF Live, Counts, Outcomes, Absent
      <4> QED
        BY <4>1, <4>3 DEF Orderly, Attended
    <3>3. Parent[s] = s
      BY <3>2 DEF NoForks
    <3>4. workspace'[t] = workspace[t]
      BY <1>1, <1>7, <2>2, <3>1, <3>3 DEF ScriptEnds, LifeInv, WorldOK
    <3> QED
      BY <1>4, <1>7, <2>2, <3>4 DEF ScriptEnds, Works
  <2> QED
    BY <2>1, <2>2
<1> QED
  BY <1>2, <1>3, <1>5, <1>6, <1>7 DEF Tasks

\* What a key leaves on its way.
LEMMA PublishedOnly ==
  ASSUME LifeInv, LifeInv', NEW u \in Sessions, NEW kinds \in SUBSET Requests,
         Publish(kinds, u) \/ bridge' = bridge, UNCHANGED <<box, idle>>
  PROVE  \A y \in Live' : (\E x \in Live : x.s = y.s /\ x.kind = y.kind) \/ (y.s = u /\ y.kind \in kinds)
<1>1. /\ Boxed' = Boxed /\ Scripted' = Scripted /\ Doomed' = Doomed /\ Asking' = Asking
  BY SameThings DEF idle
<1>2. Posted' \subseteq Posted \cup Fresh(kinds, u)
  BY PostedGrows, SameThings
<1>3. Moved(0, {}, Fresh(kinds, u))
  BY <1>1, <1>2, Stays
<1>4. \A y \in Fresh(kinds, u) : y.s = u /\ y.kind \in kinds
  BY ThingIs DEF Fresh
<1> HIDE DEF Fresh
<1> QED
  BY <1>3, <1>4, CameIs DEF Moved

LEMMA UserSits ==
  ASSUME LifeInv, LifeInv', Orderly, NEW t \in Roots, Sits(t), NEW u \in Sessions, User(u)
  PROVE  Sits(t)'
<1>1. UNCHANGED <<store, box, idle, workspace>> /\ t \in Sessions
  BY DEF User, CreateSession, ForkFromEntry, SubmitMessage, LoadSession, EscConfirm,
         RerunSetup, Teardown, Key, TreeKey, idle, Roots
<1>2. \A kinds \in {Outcomes, {"setup"}, Tears} : Succeeded(kinds, t)' <=> Succeeded(kinds, t)
  BY <1>1 DEF Succeeded
<1>3. ASSUME NEW kinds \in SUBSET Requests, Publish(kinds, u) \/ bridge' = bridge,
             \/ u # t \/ kinds \cap Arising = {}
             \/ kinds \cap Arising \subseteq Setups /\ Known(t) /\ Believed(t) = "NothingRan",
             Known(t)' <=> Known(t), Known(t) => Believed(t)' = Believed(t)
      PROVE  Sits(t)'
  <2>1. \A y \in Live' : (\E x \in Live : x.s = y.s /\ x.kind = y.kind) \/ (y.s = u /\ y.kind \in kinds)
    BY <1>1, <1>3, PublishedOnly
  <2>2. Bred(t)
    BY <1>3, <2>1 DEF Bred
  <2> QED
    BY <1>1, <1>2, <1>3, <2>2, SitsOn
<1>4. mem' = mem => (Known(t)' <=> Known(t)) /\ (Known(t) => Believed(t)' = Believed(t))
  BY <1>1, BelievedStay
<1>5. CASE CreateSession(u) /\ u = t
  <2>1. mem'[t] = Created /\ Open(t)' /\ Created.script = "NothingRan"
    <3>1. mem'[t] = Created
      BY <1>1, <1>5, Present DEF CreateSession, Amend
    <3>2. Created.script = "NothingRan"
      BY DEF Created
    <3> QED
      BY <3>1, <3>2, RowsLoaded, NoSessionAssumption DEF Open
  <2>2. workspace'[t] # "up"
    BY <1>1, <1>5 DEF Sits, Known, CreateSession
  <2>3. Known(t)' /\ Believed(t)' = "NothingRan"
    BY <2>1 DEF Known, Believed
  <2>4. ~InFlight(t)
    BY <1>5 DEF CreateSession
  <2>5. \A kinds \in {Outcomes, {"setup"}, Tears} : ~Succeeded(kinds, t)'
    BY <1>2, <2>4 DEF Succeeded, InFlight, Concerns
  <2>6. {"PersistSession", "PushChatEntry", "RunSessionSetup"} \in SUBSET Requests
    BY DEF Requests
  <2>7. ASSUME NEW y \in Live', y.s = t
        PROVE  y.kind # "SessionForkRequested"
    <3>1. \/ \E x \in Live : x.s = y.s /\ x.kind = y.kind
          \/ y.kind \in {"PersistSession", "PushChatEntry", "RunSessionSetup"}
      <4>1. Publish({"PersistSession", "PushChatEntry", "RunSessionSetup"}, u)
        BY <1>5 DEF CreateSession
      <4> QED
        BY <1>1, <2>6, <4>1, PublishedOnly
    <3> QED
      BY <2>7, <3>1 DEF Sits
  <2> QED
    BY <2>2, <2>3, <2>5, <2>7 DEF Sits
<1>6. CASE CreateSession(u) /\ u # t
  <2>1. mem'[t] = mem[t]
    BY <1>1, <1>6, Present DEF CreateSession, Amend
  <2>2. {"PersistSession", "PushChatEntry", "RunSessionSetup"} \in SUBSET Requests
    BY DEF Requests
  <2>3. Publish({"PersistSession", "PushChatEntry", "RunSessionSetup"}, u)
    BY <1>6 DEF CreateSession
  <2> QED
    BY <1>1, <1>3, <1>6, <2>1, <2>2, <2>3, BelievedStay
<1>7. CASE EscConfirm(u)
  <2>1. Open(u) /\ mem[u] \in Records
    BY <1>7, Present DEF EscConfirm
  <2>2. PICK rec : rec = [mem[u] EXCEPT !.busy = 0, !.turn = FALSE, !.queued = 0]
    OBVIOUS
  <2>3. rec \in Records /\ rec.script = mem[u].script
    BY <2>1, <2>2, ScriptStates, SameSizes DEF Sized
  <2>4. Amend(u, rec) /\ rec # NoSession
    BY <1>7, <2>2, <2>3, NoSessionAssumption DEF EscConfirm
  <2>5. mem'[u] = rec /\ \A v \in Sessions \ {u} : mem'[v] = mem[v]
    BY <2>4, Present DEF Amend
  <2>6. (Known(t)' <=> Known(t)) /\ (Known(t) => Believed(t)' = Believed(t))
    <3>1. CASE t = u
      BY <2>1, <2>3, <2>4, <2>5, <3>1 DEF Known, Believed, Open
    <3>2. CASE t # u
      BY <1>1, <2>5, <3>2, BelievedStay
    <3> QED
      BY <3>1, <3>2
  <2>7. /\ {"CancelLifecycleCommand"} \in SUBSET Requests
        /\ {"CancelLifecycleCommand"} \cap Arising = {}
    BY DEF Requests, Arising, Setups
  <2>8. Publish({"CancelLifecycleCommand"}, u) \/ bridge' = bridge
    BY <1>7 DEF EscConfirm
  <2> HIDE DEF Publish
  <2> QED
    BY <1>3, <2>6, <2>7, <2>8
<1>8. CASE ForkFromEntry(u)
  <2>1. u # t /\ mem' = mem /\ Publish({"SessionForkRequested"}, u)
    BY <1>8 DEF ForkFromEntry, Roots
  <2>2. {"SessionForkRequested"} \in SUBSET Requests
    BY DEF Requests
  <2> QED
    BY <1>3, <1>4, <2>1, <2>2
<1>9. CASE RerunSetup(u)
  <2> DEFINE kinds == {"PushChatEntry", "RunSessionSetup"}
  <2>1. mem' = mem /\ Publish(kinds, u) /\ Open(u) /\ mem[u].script = "NothingRan"
    BY <1>9 DEF RerunSetup, Key, Own
  <2>2. kinds \in SUBSET Requests /\ kinds \cap Arising \subseteq Setups
    BY DEF Requests, Arising, Setups
  <2>3. u # t \/ (Known(t) /\ Believed(t) = "NothingRan")
    BY <2>1 DEF Known, Believed
  <2> HIDE DEF kinds
  <2> QED
    BY <1>3, <1>4, <2>1, <2>2, <2>3
<1>10. CASE \/ SubmitMessage(u) \/ LoadSession(u) \/ Teardown(u)
            \/ Key("close", u, {"CloseSession"}) \/ Key("archive", u, {"ArchiveSession"})
            \/ TreeKey("closeTree", u, {"TeardownSessionTree"})
            \/ TreeKey("archiveTree", u, {"ArchiveSessionTree"})
  <2>1. /\ mem' = mem
        /\ \E kinds \in {{"EnqueueUserMessage", "MarkSessionInteracted"}, {"SessionLoadRequested"},
                         {"RunSessionTeardown"}, {"CloseSession"}, {"ArchiveSession"},
                         {"TeardownSessionTree"}, {"ArchiveSessionTree"}} : Publish(kinds, u)
    <3> HIDE DEF Publish
    <3> QED
      BY <1>10 DEF SubmitMessage, LoadSession, Teardown, Key, TreeKey
  <2>2. \A kinds \in {{"EnqueueUserMessage", "MarkSessionInteracted"}, {"SessionLoadRequested"},
                      {"RunSessionTeardown"}, {"CloseSession"}, {"ArchiveSession"},
                      {"TeardownSessionTree"}, {"ArchiveSessionTree"}} :
          kinds \in SUBSET Requests /\ kinds \cap Arising = {}
    BY DEF Requests, Arising, Setups
  <2> HIDE DEF Publish
  <2> QED
    BY <1>3, <1>4, <2>1, <2>2
<1> QED
  BY <1>5, <1>6, <1>7, <1>8, <1>9, <1>10 DEF User

\* What the queue actor does is about open sessions, and none of their scripts.
LEMMA QueueSits ==
  ASSUME LifeInv, LifeInv', Orderly, NEW t \in Sessions, Sits(t), QueueActor
  PROVE  Sits(t)'
<1>1. ASSUME NEW s \in Sessions, NEW x \in Asking, x.s = s, x.kind \in {"Idle", "popped"},
             UNCHANGED <<store, bridge, scripts, archiving, workspace>>,
             \/ box' = box
             \/ \E m \in Messages : m.kind = "PersistSession" /\ box' = Append(box, m),
             NEW rec, Amend(s, rec),
             Fair(s, mem[s]) /\ GetOrCreate(s) = mem[s] => Fair(s, rec) /\ rec.script = mem[s].script
      PROVE  Sits(t)'
  <2> DEFINE new == {y \in Boxed' \cup Asking' : y.kind \notin Arising}
  <2>1. x \in Live
    BY <1>1 DEF Live, Counts
  <2>2. Open(s) /\ Grown(s)
    BY <1>1, <2>1 DEF Orderly, Attended, Absent
  <2>3. Fair(s, rec) /\ rec.script = mem[s].script
    BY <1>1, <2>2, FairRecords
  <2>4. /\ Known(s)' /\ Believed(s)' = rec.script
        /\ \A u \in Sessions \ {s} : mem'[u] = mem[u] /\ store'[u] = store[u]
    BY <1>1, <2>3, BelievedIs DEF Fair
  <2>5. (Known(t)' <=> Known(t)) /\ (Known(t) => Believed(t)' = Believed(t))
    BY <2>2, <2>3, <2>4, BelievedStay DEF Known, Believed
  <2>6. Posted' = Posted /\ Scripted' = Scripted /\ Doomed' = Doomed
    BY <1>1, SameThings
  <2>7. Asking' \subseteq new
    <3>1. \A k \in {"talking", "Idle", "popped"} : k \notin Arising
      BY DEF Arising, Setups
    <3> QED
      BY <3>1, Placed DEF Asking
  <2>8. Boxed' \subseteq Boxed \cup new
    <3>1. CASE box' = box
      BY <3>1, SameThings
    <3>2. ASSUME NEW m \in Messages, m.kind = "PersistSession", box' = Append(box, m)
          PROVE  Boxed' \subseteq Boxed \cup new
      <4>1. Boxed' \subseteq Boxed \cup {Thing("box", Len(box) + 1, m.kind, m.s)}
        BY <3>2, BoxGrows
      <4>2. Thing("box", Len(box) + 1, m.kind, m.s).kind \notin Arising
        BY <3>2, ThingIs DEF Arising, Setups
      <4> QED
        BY <4>1, <4>2
    <3> QED
      BY <1>1, <3>1, <3>2
  <2>9. \A y \in new : y.kind \notin Arising
    OBVIOUS
  <2> HIDE DEF new
  <2>10. Moved(0, {}, new)
    BY <2>6, <2>7, <2>8, Stays
  <2>11. Bred(t)
    BY <2>9, <2>10, RisenIsBred DEF Moved
  <2>12. \A kinds \in {Outcomes, {"setup"}, Tears} : Succeeded(kinds, t)' <=> Succeeded(kinds, t)
    <3>1. \A kinds \in {Outcomes, {"setup"}, Tears} : kinds \in SUBSET Outcomes
      BY DEF Outcomes, Tears
    <3>2. "PersistSession" \notin Outcomes
      BY DEF Outcomes
    <3> QED
      BY <1>1, <3>1, <3>2, SucceededIs
  <2> QED
    BY <1>1, <2>5, <2>11, <2>12, SitsOn
<1>2. ASSUME NEW s \in Sessions, PopOnIdle(s)
      PROVE  Sits(t)'
  <2>1. PICK x : x = Thing("idle", idles[s], "Idle", s) /\ x.kind = "Idle" /\ x.s = s
    BY ThingIs
  <2>2. x \in Asking
    BY <1>2, <2>1, AskingPopped
  <2>3. PICK n \in Nat : Amend(s, Requeued(GetOrCreate(s), n)) /\ GetOrCreate(s) \in Records
    BY <1>2, PoppedIs
  <2>4. Fair(s, mem[s]) /\ GetOrCreate(s) = mem[s] =>
          /\ Fair(s, Requeued(GetOrCreate(s), n))
          /\ Requeued(GetOrCreate(s), n).script = mem[s].script
    BY <2>3, FairRecords, ScriptStates
  <2>5. UNCHANGED <<store, bridge, scripts, archiving, workspace>> /\ box' = box
    BY <1>2 DEF PopOnIdle, user
  <2> QED
    BY <1>1, <2>1, <2>2, <2>3, <2>4, <2>5
<1>3. CASE DispatchPopped
  <2>1. hand \in Sessions /\ DispatchPopped
    BY <1>3 DEF DispatchPopped, LifeInv, WorldOK
  <2>2. PICK s \in Sessions : s = hand
    BY <2>1
  <2>3. PICK x : x = Thing("hand", 0, "popped", s) /\ x.kind = "popped" /\ x.s = s
    BY ThingIs
  <2>4. x \in Asking
    BY <2>1, <2>2, <2>3, AskingDispatched
  <2>5. PICK rec : rec = [Said(GetOrCreate(s)) EXCEPT !.turn = TRUE]
    OBVIOUS
  <2>6. Amend(s, rec)
    BY <2>1, <2>2, <2>5 DEF DispatchPopped
  <2>7. Fair(s, mem[s]) /\ GetOrCreate(s) = mem[s] => Fair(s, rec) /\ rec.script = mem[s].script
    <3> SUFFICES ASSUME Fair(s, mem[s]), GetOrCreate(s) = mem[s]
                 PROVE  Fair(s, rec) /\ rec.script = mem[s].script
      OBVIOUS
    <3>1. Fair(s, Said(mem[s])) /\ mem[s] \in Records /\ Said(mem[s]) \in Records
      BY FairRecords DEF Fair
    <3>2. Said(mem[s]).script = mem[s].script /\ rec.script = Said(mem[s]).script
      BY <2>5, <3>1, ScriptStates
    <3> QED
      BY <2>5, <3>1, <3>2, FairRecords
  <2>8. \E m \in Messages : m.kind = "PersistSession" /\ box' = Append(box, m)
    <3>1. /\ Message("PersistSession", s) \in Messages
          /\ Message("PersistSession", s).kind = "PersistSession"
      BY DEF Message, Messages, Asked, Requests
    <3> QED
      BY <2>1, <2>2, <3>1 DEF DispatchPopped
  <2>9. UNCHANGED <<store, bridge, scripts, archiving, workspace>>
    BY <2>1 DEF DispatchPopped, user
  <2> QED
    BY <1>1, <2>3, <2>4, <2>6, <2>7, <2>8, <2>9
<1> QED
  BY <1>2, <1>3 DEF QueueActor

\* Without a rash act or a crash, every step leaves each workspace known.
LEMMA SettledStep ==
  ASSUME LifeInv, Patient, AllSafe, Settled, [Next]_vars
  PROVE  Settled'
<1> SUFFICES ASSUME mishaps' = {}, NoForks', NEW t \in Roots
             PROVE  Sits(t)'
  BY DEF Settled, Roots
<1>1. LifeInv' /\ mishaps = {} /\ \A s \in Sessions : Lasts(s)
  BY LifeStep, OrderlyStep
<1>2. Orderly
  BY <1>1 DEF Patient
<1>3. NoForks
  BY <1>1 DEF NoForks, Lasts, TextKept
<1>4. Sits(t)
  BY <1>1, <1>3 DEF Settled
<1>5. CASE UNCHANGED vars
  <2>1. UNCHANGED <<mem, store, bridge, box, scripts, archiving, talking, queue, workspace>>
    BY <1>5 DEF vars
  <2>2. Live' = Live
    BY <2>1, SameThings DEF Live, Counts
  <2> QED
    BY <1>4, <2>1, <2>2 DEF Sits, Known, Believed, Open, Stored, Succeeded
<1>6. CASE SessionActor
  BY <1>1, <1>2, <1>4, <1>6, PersistenceSits, SetupSits, FinishSits, RequestSits, ArchiveNextSits
     DEF SessionActor
<1>7. ~CrashAndRestart
  BY DEF CrashAndRestart
<1>8. CASE Tasks
  BY <1>1, <1>2, <1>3, <1>4, <1>8, TasksSit
<1>9. CASE \E u \in Sessions : User(u)
  BY <1>1, <1>2, <1>4, <1>9, UserSits
<1>10. CASE QueueActor
  BY <1>1, <1>2, <1>4, <1>10, QueueSits DEF Roots
<1> QED
  BY <1>5, <1>6, <1>7, <1>8, <1>9, <1>10 DEF Next

LEMMA SettledInvariant == Spec => [](AllSafe /\ Settled)
<1>1. Init => AllSafe
  BY DEF Init, AllSafe, Safe, Kept, Open, Stored
<1>2. ASSUME Init
      PROVE  Settled
  <2>1. /\ box = <<>> /\ \A s \in Sessions : ~Known(s) /\ workspace[s] = "none"
    BY <1>2 DEF Init, Known, Open, Stored
  <2>2. \A kinds, s : ~Succeeded(kinds, s)
    BY <2>1 DEF Succeeded
  <2>3. Live = {}
    <3>1. /\ bridge = EmptyBag /\ scripts = <<>> /\ archiving = {} /\ talking = {}
          /\ idles = [s \in Sessions |-> 0] /\ hand = NoSession
      BY <1>2 DEF Init
    <3>2. DOMAIN bridge = {}
      BY <3>1 DEF EmptyBag, SetToBag
    <3>3. Posted = {}
      BY <3>2 DEF Posted, PostedOf
    <3>4. Doomed = {} /\ Asking = {}
      BY <3>1, NoneIdle, SessionsAssumption DEF Doomed, TreeOf, Asking, TurnsOf
    <3> QED
      BY <2>1, <3>1, <3>3, <3>4 DEF Live, Boxed, BoxedOf, Scripted, ScriptedOf
  <2> QED
    BY <2>1, <2>2, <2>3 DEF Settled, Sits, Roots
<1>3. LifeInv /\ AllSafe /\ [Next]_vars => AllSafe'
  BY SafeStep
<1>4. LifeInv /\ Patient /\ AllSafe /\ Settled /\ [Next]_vars => Settled'
  BY SettledStep
<1> QED
  BY <1>1, <1>2, <1>3, <1>4, LifeInvariant, PatientInvariant, PTL DEF Spec

\* With a user who waits and no fork, a session at rest counts as set up exactly when
\* its workspace is up, whatever was cancelled, killed, failed, closed or loaded before.
THEOREM WorkspacesKnown == Spec => []WorkspaceKnown
<1>1. ASSUME Settled
      PROVE  WorkspaceKnown
  <2> SUFFICES ASSUME mishaps = {}, NoForks, NEW s \in Sessions, ~InFlight(s), Open(s) \/ Stored(s)
               PROVE  Believed(s) = "SetupRan" <=> workspace[s] = "up"
    BY DEF WorkspaceKnown
  <2>1. s \in Roots
    BY DEF NoForks, Roots
  <2>2. ~Succeeded(Outcomes, s)
    BY DEF Succeeded, InFlight, Concerns
  <2>3. Sits(s)
    BY <1>1, <2>1 DEF Settled
  <2> QED
    BY <2>2, <2>3 DEF Sits, Known
<1> QED
  BY <1>1, SettledInvariant, PTL

\* A session goes by one of two handlers once a key asked to close it.
LEMMA Closers ==
  ASSUME LifeInv, [Next]_vars, NEW s \in Sessions, Open(s), ~Open(s)', archiving = {},
         mishaps' = {}, Head(box).kind \in {"CloseSession", "Close"}
  PROVE  HandleCloseSession \/ HandleFinishSessionTeardown
<1>1. mem' # mem
  BY DEF Open
<1>2. ~UNCHANGED vars /\ ~Tasks
  BY <1>1 DEF vars, Tasks, BridgePublish, ScriptReportsKill, ScriptEnds, TurnEnds
<1>3. ~CrashAndRestart
  BY DEF CrashAndRestart
<1>4. ~\E u \in Sessions : User(u)
  BY OpenStay
<1>5. ~QueueActor
  <2>1. ASSUME NEW u \in Sessions, NEW rec \in Records, Amend(u, rec)
        PROVE  FALSE
    <3>1. mem'[u] = rec /\ rec # NoSession /\ \A v \in Sessions \ {u} : mem'[v] = mem[v]
      BY <2>1, Present, NoSessionAssumption DEF Amend
    <3> QED
      BY <3>1 DEF Open
  <2>2. ~\E u \in Sessions : PopOnIdle(u)
    BY <2>1, PoppedIs, QueueOps
  <2>3. ~DispatchPopped
    <3> SUFFICES ASSUME DispatchPopped
                 PROVE  FALSE
      OBVIOUS
    <3>1. hand \in Sessions
      BY DEF DispatchPopped, LifeInv, WorldOK
    <3>2. GetOrCreate(hand) \in Records
      BY <3>1, Found DEF RecordsOf
    <3>3. [Said(GetOrCreate(hand)) EXCEPT !.turn = TRUE] \in Records
      <4>1. Said(GetOrCreate(hand)) \in Records
        BY <3>2, RecordOps
      <4> QED
        BY <4>1, RecordOps
    <3> QED
      BY <2>1, <3>1, <3>3 DEF DispatchPopped
  <2> QED
    BY <2>2, <2>3 DEF QueueActor
<1>6. SessionActor
  BY <1>2, <1>3, <1>4, <1>5 DEF Next
<1> QED
  BY <1>6 DEF SessionActor, HandlePushChatEntry, HandlePersistSession,
     HandleMarkSessionInteracted, HandleEnqueueUserMessage, OnStreamCompleted,
     HandleRunSessionSetup, HandleFinishSessionSetup, HandleRunSessionTeardown,
     HandleArchiveSession, HandleArchiveSessionTree, HandleTeardownSessionTree,
     HandleCancelLifecycleCommand, OnLoadRequested, OnSessionForkRequested, Heads

LEMMA ClosedDown ==
  ASSUME LifeInv, Patient, Settled, [Next]_vars, NEW s \in Sessions, Open(s), ~Open(s)',
         archiving = {}, NoForks, mishaps' = {}, Head(box).kind \in {"CloseSession", "Close"}
  PROVE  workspace'[s] # "up"
<1>1. mishaps = {} /\ (HandleCloseSession \/ HandleFinishSessionTeardown)
  BY OrderlyStep, Closers
<1>2. Orderly /\ s \in Roots /\ Sits(s)
  BY <1>1 DEF Patient, NoForks, Roots, Settled
<1>3. PICK x, u : x = First /\ u = Told
  OBVIOUS
<1>4. box # <<>> /\ workspace' = workspace
  BY <1>1 DEF HandleCloseSession, HandleFinishSessionTeardown, Heads, BeginTeardown, idle
<1>5. u \in Sessions /\ Grown(u) /\ Grown(s) /\ x.kind = Head(box).kind /\ x.s = u /\ x \in Live
  BY <1>2, <1>3, <1>4, ToldIs, FirstLive DEF Orderly
<1>6. ASSUME NEW rec \in Records,
             AmendAndSave(u, rec) \/ (Amend(u, rec) /\ store' = store)
      PROVE  FALSE
  <2>1. mem'[u] = rec /\ rec # NoSession /\ \A v \in Sessions \ {u} : mem'[v] = mem[v]
    BY <1>5, <1>6, Present, NoSessionAssumption DEF AmendAndSave, Amend
  <2> QED
    BY <2>1 DEF Open
<1>7. ASSUME NEW rec, PutAway(u, rec)
      PROVE  u = s
  <2>1. \A v \in Sessions \ {u} : mem'[v] = mem[v]
    BY <1>5, <1>7, Present DEF PutAway
  <2> QED
    BY <2>1 DEF Open
<1>8. mem' # mem
  BY DEF Open
<1>9. Open(u) => /\ mem[u] \in Records /\ Released(mem[u]) \in Records
                 /\ AfterTeardown(Released(mem[u])) \in Records
                 /\ Said([mem[u] EXCEPT !.busy = @ + 1]) \in Records
  BY <1>5, FairRecords DEF Fair
<1>10. CASE HandleCloseSession
  <2>1. Head(box).kind = "CloseSession"
    BY <1>10 DEF HandleCloseSession, Heads
  <2>2. ~(Due(Told) /\ BeginTeardown("Close", Told))
    BY <1>3, <1>6, <1>9 DEF Due, Own, BeginTeardown
  <2>3. ~Due(u) /\ PutAway(u, mem[u])
    BY <1>3, <1>8, <1>10, <2>2 DEF HandleCloseSession
  <2>4. u = s
    BY <1>7, <2>3
  <2>5. Believed(s) # "SetupRan"
    BY <1>5, <2>3, <2>4 DEF Due, Own, Grown, Believed
  <2>6. ~Succeeded(Outcomes, s)
    <3>1. x.kind \notin Light /\ x.n = 1
      <4>1. First.n = 1
        BY ThingIs DEF First
      <4> QED
        BY <1>3, <1>5, <2>1, <4>1 DEF Light
    <3>2. \A i \in DOMAIN box : box[i].s = s /\ box[i].kind \in Outcomes => i = 1
      BY <1>2, <1>5, <2>4, <3>1, Sole
    <3>3. box[1] = Head(box)
      BY <1>4, InBox
    <3> QED
      BY <2>1, <3>2, <3>3 DEF Succeeded, Outcomes
  <2> QED
    BY <1>2, <1>4, <2>5, <2>6 DEF Sits, Known
<1>11. CASE HandleFinishSessionTeardown
  <2>1. Head(box).kind = "Close"
    BY <1>11 DEF HandleFinishSessionTeardown, Heads
  <2>2. Open(u)
    BY <1>3, <1>8, <1>11 DEF HandleFinishSessionTeardown
  <2>3. Head(box).ok /\ PutAway(u, AfterTeardown(Released(mem[u])))
    BY <1>3, <1>6, <1>9, <1>11, <2>1, <2>2 DEF HandleFinishSessionTeardown
  <2>4. u = s
    BY <1>7, <2>3
  <2>5. Succeeded(Tears, s)
    <3>1. Tears \in SUBSET Outcomes /\ "Close" \in Tears
      BY DEF Tears, Outcomes
    <3> QED
      BY <1>3, <1>4, <2>1, <2>3, <2>4, <3>1, SucceededIs
  <2> QED
    BY <1>2, <1>4, <2>5 DEF Sits
<1> QED
  BY <1>1, <1>10, <1>11

\* With a user who waits and no fork, no session is closed while its workspace is up:
\* whatever was killed, failed or loaded before, its teardown has run by then.
THEOREM ClosedIsDown == Spec => ClosedLeavesNothingUp
<1>1. LifeInv /\ Patient /\ Settled /\ [Next]_vars =>
        [\A s \in Sessions :
           /\ Open(s) /\ ~Open(s)' /\ archiving = {} /\ NoForks /\ mishaps' = {}
           /\ Head(box).kind \in {"CloseSession", "Close"}
           => workspace'[s] # "up"]_vars
  BY ClosedDown
<1> QED
  BY <1>1, LifeInvariant, PatientInvariant, SettledInvariant, PTL DEF Spec, ClosedLeavesNothingUp

=============================================================================
