-------------------------- MODULE SessionLifecycle --------------------------
(* The life of a session outside its turns: created with a setup script,     *)
(* forked, torn down, closed, archived alone or with its tree, loaded again, *)
(* and brought back by a restart.  The session actor's handlers are          *)
(* `feat/session/session_actor/handlers/lifecycle.rs`, `persistence.rs`,     *)
(* `session_load.rs` and `startup.rs`; the keys that call them are the       *)
(* intents of `feat/ui/sidebar/sessions` and `feat/session_lifecycle`.       *)
(* Beside it runs the queue actor (`feat/queue_actor`), which takes up what  *)
(* was submitted during a turn when it hears that the turn has ended.        *)
(*                                                                           *)
(* A history is its length; a script is the workspace it puts up or takes    *)
(* down.  Builtin lifecycles run inside the handler and are left out: every  *)
(* script here is a shell command.  The store never refuses a call.          *)
EXTENDS Naturals, Sequences, FiniteSets, Bags

CONSTANTS
  Sessions,   \* the sessions of the instance
  Parent,     \* Parent[s]: the session s is a fork of, or s itself
  NoSession,  \* a session that is not in memory, or has no row in the store
  Budgets     \* how often the user, the scripts and the machine do what they may

Kinds == {"create", "fork", "close", "archive", "closeTree", "archiveTree", "teardown", "rerun",
          "esc", "submit", "load", "spawn", "fail", "crash", "rash"}

ASSUME SessionsAssumption ==
  /\ Sessions # {} /\ NoSession \notin Sessions
  /\ Parent \in [Sessions -> Sessions]
  /\ \A s \in Sessions : Parent[Parent[s]] = Parent[s]
  /\ Budgets \subseteq [Kinds -> Nat]

VARIABLES
  mem,        \* AppState.session: the sessions in memory
  store,      \* the rows of the sqlite store
  bridge,     \* messages of the intents, each published by a task of its own
  box,        \* the session actor's mailbox
  scripts,    \* the shell commands spawned so far
  child,      \* lifecycle_child: the command a cancel would kill, or 0
  archiving,  \* the members an archive-tree handler has left to put away
  talking,    \* the sessions whose turn the provider is still answering
  idles,      \* the queue actor's mailbox: how often it is yet to hear that s is Idle
  hand,       \* the session whose text the queue actor has popped, or none
  overtaken,  \* the members a turn began in while an archive-tree handler had them left
  workspace,  \* what the scripts have done to each workspace
  left,       \* what is left of the budgets
  mishaps     \* "rash" once the user has not waited, "crash" once the process died

queue == <<idles, hand, overtaken>>
vars == <<mem, store, bridge, box, scripts, child, archiving, talking, queue, workspace, left,
          mishaps>>
user == <<bridge, left, mishaps>>
idle == <<scripts, child, archiving, talking, queue, workspace>>

-----------------------------------------------------------------------------
Message(k, s) == [kind |-> k, s |-> s]
Finish(k, s, ok) == [kind |-> k, s |-> s, ok |-> ok]

Open(s) == mem[s] # NoSession
Kept(s) == Open(s) /\ mem[s].kept
Own(s) == Open(s) /\ ~mem[s].ghost
Stored(s) == store[s] # NoSession

\* A session with a lifecycle that nothing has run of yet.
Created == [script |-> "NothingRan", ghost |-> FALSE, kept |-> TRUE,
            busy |-> 0, turn |-> FALSE, queued |-> 0, size |-> 0]

\* SessionMap::get_or_create on an id that is not in memory: no lifecycle, no
\* parent, and not persistable until the user has interacted with it.
Ghost == [Created EXCEPT !.ghost = TRUE, !.kept = FALSE]
GetOrCreate(s) == IF Open(s) THEN mem[s] ELSE Ghost

Row(rec, archived) == [script |-> rec.script, ghost |-> rec.ghost, size |-> rec.size,
                       archived |-> archived]

FromEmptyRow(row) == [Created EXCEPT !.script = row.script, !.ghost = row.ghost]   \* mutant

\* What load_session rebuilds from a row, marked as interacted.
FromRow(row) == [Created EXCEPT !.script = row.script, !.ghost = row.ghost, !.size = row.size]

Said(rec) == [rec EXCEPT !.size = @ + 1]
IsIdle(rec) == rec.busy = 0 /\ ~rec.turn

SaveAsLoaded(s, rec, archived) ==                                       \* mutant
  store' = IF rec.kept THEN [store EXCEPT ![s] = Row(rec, FALSE)] ELSE store

\* save_active_session, which skips what is not persistable.
Save(s, rec, archived) ==
  store' = IF rec.kept THEN [store EXCEPT ![s] = Row(rec, archived)] ELSE store

Amend(s, rec) == mem' = [mem EXCEPT ![s] = rec]
AmendAndSave(s, rec) == Amend(s, rec) /\ Save(s, rec, FALSE)

\* Archive, persist, remove: the end of every way to put a session away.
PutAway(s, rec) == mem' = [mem EXCEPT ![s] = NoSession] /\ Save(s, rec, TRUE)

\* The link memory has of s to its parent, or else the store.
Link(s) ==
  LET ghost == IF Open(s) THEN mem[s].ghost ELSE ~Stored(s) \/ store[s].ghost
  IN IF ghost THEN s ELSE Parent[s]

\* resolve_tree_closure: a fork's parent is a session that is no fork here, so
\* the closure of a session is itself and its forks.
Closure(r) == {r} \cup {s \in Sessions : Link(s) = r}

RootIsIdle(r) == Open(r) => IsIdle(mem[r])                              \* mutant

\* guarded_tree_closure lets the tree through: no loaded member is busy.
TreeIsIdle(r) == \A s \in Closure(r) : Open(s) => IsIdle(mem[s])

-----------------------------------------------------------------------------
(* The scripts of a session and what they do to the workspace its forks share. *)
Works(i) == scripts[i].st = "runs"

Effect(kind) == IF kind = "setup" THEN "up" ELSE "down"

\* The command starts and takes the one slot for a cancel, or does not start and
\* its Finish is published at once.
Spawn(kind, s, reports) ==
  \/ /\ scripts' = Append(scripts, [kind |-> kind, s |-> s, st |-> "runs"])
     /\ child' = Len(scripts) + 1
     /\ box' = Tail(box)
     /\ UNCHANGED left
  \/ /\ left["spawn"] > 0 /\ left' = [left EXCEPT !["spawn"] = @ - 1]
     /\ box' = Tail(box) \o reports
     /\ UNCHANGED <<scripts, child>>

\* The teardown of an open session: mark it busy, say so, start the script.
BeginTeardown(kind, s) ==
  /\ AmendAndSave(s, Said([mem[s] EXCEPT !.busy = @ + 1]))
  /\ Spawn(kind, s, <<Finish(kind, s, FALSE)>>)
  /\ UNCHANGED <<bridge, archiving, talking, queue, workspace, mishaps>>

\* A command ends by itself.  Its task publishes the Finish message.
ScriptEnds(i, ok) ==
  /\ Works(i)
  /\ ok \/ left["fail"] > 0
  /\ left' = IF ok THEN left ELSE [left EXCEPT !["fail"] = @ - 1]
  /\ scripts' = [scripts EXCEPT ![i].st = "ended"]
  /\ workspace' = IF ok THEN [workspace EXCEPT ![Parent[scripts[i].s]] = Effect(scripts[i].kind)]
                  ELSE workspace
  /\ box' = Append(box, Finish(scripts[i].kind, scripts[i].s, ok))
  /\ UNCHANGED <<mem, store, bridge, child, archiving, talking, queue, mishaps>>

\* The wrapper of a killed command sees its reader aborted.
ScriptReportsKill(i) ==
  /\ scripts[i].st = "killed"
  /\ scripts' = [scripts EXCEPT ![i].st = "ended"]
  /\ box' = Append(box, Finish(scripts[i].kind, scripts[i].s, FALSE))
  /\ UNCHANGED <<mem, store, user, child, archiving, talking, queue, workspace>>

\* The answer to a turn is complete, or cancelled.
TurnEnds(s) ==
  /\ s \in talking
  /\ talking' = talking \ {s}
  /\ box' = Append(box, Message("StreamCompleted", s))
  /\ UNCHANGED <<mem, store, user, scripts, child, archiving, queue, workspace>>

-----------------------------------------------------------------------------
(* The session actor.  It takes no message while it archives a tree.         *)
Heads(k) == archiving = {} /\ box # <<>> /\ Head(box).kind = k
Done == box' = Tail(box)
Told == Head(box).s

HandlePushChatEntry ==
  /\ Heads("PushChatEntry") /\ Done
  /\ AmendAndSave(Told, Said(GetOrCreate(Told)))
  /\ UNCHANGED <<user, idle>>

HandlePersistSession ==
  /\ Heads("PersistSession") /\ Done
  /\ IF Open(Told) THEN Save(Told, mem[Told], FALSE) ELSE UNCHANGED store
  /\ UNCHANGED <<mem, user, idle>>

HandleMarkSessionInteracted ==
  /\ Heads("MarkSessionInteracted") /\ Done
  /\ IF Open(Told) THEN AmendAndSave(Told, [mem[Told] EXCEPT !.kept = TRUE])
     ELSE UNCHANGED <<mem, store>>
  /\ UNCHANGED <<user, idle>>

\* A text of a working session goes to the session's queue, and is not saved.
HandleEnqueueUserMessage ==
  /\ Heads("EnqueueUserMessage") /\ Done
  /\ LET rec == GetOrCreate(Told)
     IN \/ rec.turn /\ Amend(Told, [rec EXCEPT !.queued = @ + 1]) /\ UNCHANGED <<store, talking>>
        \/ /\ ~rec.turn
           /\ AmendAndSave(Told, [Said(rec) EXCEPT !.turn = TRUE])
           /\ talking' = talking \cup {Told}
  /\ UNCHANGED <<user, scripts, child, archiving, queue, workspace>>

\* The end of a turn is announced to the queue actor, the cancelled one also when
\* ESC has ended the turn before; what failed puts the queue back into the input box.
OnStreamCompleted ==
  /\ Heads("StreamCompleted") /\ Done
  /\ \E reason \in {"Finished", "Error", "Canceled"} :
       LET rec == GetOrCreate(Told)
           rest == IF reason = "Finished" THEN rec.queued ELSE 0
       IN /\ AmendAndSave(Told, [Said(rec) EXCEPT !.turn = FALSE, !.queued = rest])
          /\ idles' = IF rec.turn \/ reason = "Canceled" THEN [idles EXCEPT ![Told] = @ + 1]
                      ELSE idles
  /\ UNCHANGED <<user, scripts, child, archiving, talking, hand, overtaken, workspace>>

\* The session is marked busy if it is there; the script is spawned all the same.
HandleRunSessionSetup ==
  /\ Heads("RunSessionSetup")
  /\ Spawn("setup", Told, <<Message("PushChatEntry", Told)>>)
  /\ IF Open(Told) /\ scripts' # scripts
     THEN Amend(Told, [mem[Told] EXCEPT !.busy = @ + 1]) ELSE UNCHANGED mem
  /\ UNCHANGED <<store, bridge, archiving, talking, queue, workspace, mishaps>>

Unreleased(rec) == rec                                                  \* mutant

\* complete_busy, which stops at zero.
Released(rec) == [rec EXCEPT !.busy = IF @ = 0 THEN 0 ELSE @ - 1]

AfterSetup(rec) == IF rec.script = "NothingRan" THEN [rec EXCEPT !.script = "SetupRan"] ELSE rec
TeardownForgotten(rec) == rec                                           \* mutant
AfterTeardown(rec) == IF rec.script = "SetupRan" THEN [rec EXCEPT !.script = "TeardownRan"] ELSE rec

SetupAlwaysCounts ==                                                    \* mutant
  /\ Heads("setup")
  /\ child' = 0
  /\ IF Open(Told) THEN Amend(Told, AfterSetup(Released(mem[Told]))) ELSE UNCHANGED mem
  /\ box' = Append(Tail(box), Message("PushChatEntry", Told))
  /\ UNCHANGED <<store, user, scripts, archiving, talking, queue, workspace>>

HandleFinishSessionSetup ==
  /\ Heads("setup")
  /\ child' = 0
  /\ IF Open(Told)
     THEN Amend(Told, IF Head(box).ok THEN AfterSetup(Released(mem[Told])) ELSE Released(mem[Told]))
     ELSE UNCHANGED mem
  /\ box' = Append(Tail(box), Message("PushChatEntry", Told))
  /\ UNCHANGED <<store, user, scripts, archiving, talking, queue, workspace>>

HandleRunSessionTeardown ==
  /\ Heads("RunSessionTeardown")
  /\ \/ Own(Told) /\ BeginTeardown("None", Told)
     \/ ~Own(Told) /\ Done /\ UNCHANGED <<mem, store, user, idle>>

NeverDue(s) == FALSE                                                    \* mutant

\* A teardown is due before the session may go.
Due(s) == Own(s) /\ mem[s].script = "SetupRan"

HandleCloseSession ==
  /\ Heads("CloseSession")
  /\ \/ Due(Told) /\ BeginTeardown("Close", Told)
     \/ Open(Told) /\ ~Due(Told) /\ Done /\ PutAway(Told, mem[Told]) /\ UNCHANGED <<user, idle>>
     \/ ~Open(Told) /\ Done /\ UNCHANGED <<mem, store, user, idle>>

HandleArchiveSession ==
  /\ Heads("ArchiveSession") /\ Done
  /\ IF Open(Told) THEN PutAway(Told, mem[Told]) ELSE UNCHANGED <<mem, store>>
  /\ UNCHANGED <<user, idle>>

\* archive_tree_from_root: every member or, if one is busy, none, as the memory is
\* by then.
ArchiveTree(r) == \E t \in {r} : archiving' = IF TreeIsIdle(t)' THEN Closure(t)' ELSE {}

HandleArchiveSessionTree ==
  /\ Heads("ArchiveSessionTree") /\ Done
  /\ UNCHANGED <<mem, store, user, scripts, child, talking, queue, workspace>>
  /\ ArchiveTree(Told)

HandleTeardownSessionTree ==
  /\ Heads("TeardownSessionTree")
  /\ \/ /\ TreeIsIdle(Told) /\ Open(Told) /\ Due(Told)
        /\ BeginTeardown("CloseTree", Told)
     \/ /\ TreeIsIdle(Told) /\ Open(Told) /\ ~Due(Told) /\ Done
        /\ UNCHANGED <<mem, store, user, scripts, child, talking, queue, workspace>>
        /\ ArchiveTree(Told)
     \/ /\ ~TreeIsIdle(Told) \/ ~Open(Told)
        /\ Done /\ UNCHANGED <<mem, store, user, idle>>

\* One member goes, the root first: saved as archived, then removed.  The row of
\* a member that is not saved so gets the flag from set_archived_many.
ArchiveNext(s) ==
  /\ s \in archiving
  /\ Parent[s] \notin archiving \ {s}
  /\ archiving' = archiving \ {s} /\ overtaken' = overtaken \ {s}
  /\ \/ Kept(s) /\ PutAway(s, mem[s])
     \/ /\ ~Kept(s)
        /\ mem' = [mem EXCEPT ![s] = NoSession]
        /\ store' = IF Stored(s) THEN [store EXCEPT ![s].archived = TRUE] ELSE store
  /\ UNCHANGED <<user, box, scripts, child, talking, idles, hand, workspace>>

HandleFinishSessionTeardown ==
  /\ Heads("None") \/ Heads("Close") \/ Heads("CloseTree")
  /\ child' = 0
  /\ LET kind == Head(box).kind
         rec == AfterTeardown(Released(mem[Told]))
     IN \/ ~Open(Told) /\ Done /\ UNCHANGED <<mem, store, archiving>>
        \/ /\ Open(Told) /\ ~Head(box).ok
           /\ Amend(Told, Released(mem[Told]))
           /\ box' = Append(Tail(box), Message("PushChatEntry", Told))
           /\ UNCHANGED <<store, archiving>>
        \/ /\ Open(Told) /\ Head(box).ok /\ kind = "None"
           /\ AmendAndSave(Told, rec)
           /\ box' = Append(Tail(box), Message("PushChatEntry", Told))
           /\ UNCHANGED archiving
        \/ /\ Open(Told) /\ Head(box).ok /\ kind = "Close" /\ Done
           /\ PutAway(Told, rec)
           /\ UNCHANGED archiving
        \/ /\ Open(Told) /\ Head(box).ok /\ kind = "CloseTree" /\ Done
           /\ AmendAndSave(Told, rec)
           /\ ArchiveTree(Told)
  /\ UNCHANGED <<user, scripts, talking, queue, workspace>>

\* Whatever session it names, the command in the slot is the one killed.
HandleCancelLifecycleCommand ==
  /\ Heads("CancelLifecycleCommand") /\ Done
  /\ child' = 0
  /\ scripts' = IF child # 0 /\ Works(child) THEN [scripts EXCEPT ![child].st = "killed"]
                ELSE scripts
  /\ UNCHANGED <<mem, store, user, archiving, talking, queue, workspace>>

OnLoadRequested ==
  /\ Heads("SessionLoadRequested") /\ Done
  /\ IF Stored(Told) THEN AmendAndSave(Told, FromRow(store[Told])) ELSE UNCHANGED <<mem, store>>
  /\ UNCHANGED <<user, idle>>

\* The store copies the row of the parent, script state and all.
OnSessionForkRequested ==
  /\ Heads("SessionForkRequested") /\ Done
  /\ LET row == store[Parent[Told]]
     IN IF Stored(Parent[Told]) THEN AmendAndSave(Told, FromRow(row)) ELSE UNCHANGED <<mem, store>>
  /\ UNCHANGED <<user, idle>>

-----------------------------------------------------------------------------
(* The queue actor, a task beside the session actor: no guard keeps it out of a *)
(* cascade.                                                                     *)

\* It hears that s is Idle, and pops the first text queued by then.
PopOnIdle(s) ==
  /\ hand = NoSession /\ idles[s] > 0
  /\ idles' = [idles EXCEPT ![s] = @ - 1]
  /\ LET rec == GetOrCreate(s)
     IN \/ rec.queued = 0 /\ Amend(s, rec) /\ UNCHANGED hand
        \/ rec.queued > 0 /\ Amend(s, [rec EXCEPT !.queued = @ - 1]) /\ hand' = s
  /\ UNCHANGED <<store, user, box, scripts, child, archiving, talking, overtaken, workspace>>

\* The text begins a turn, whatever the phase is by now, and asks to be saved.
DispatchPopped ==
  /\ hand # NoSession /\ hand' = NoSession
  /\ Amend(hand, [Said(GetOrCreate(hand)) EXCEPT !.turn = TRUE])
  /\ talking' = talking \cup {hand}
  /\ box' = Append(box, Message("PersistSession", hand))
  /\ overtaken' = overtaken \cup ({hand} \cap archiving)
  /\ UNCHANGED <<store, user, scripts, child, archiving, idles, workspace>>

-----------------------------------------------------------------------------
(* The user, whose keys read the memory and publish through the bridge.      *)

\* A message or a command about s, by name or with the tree it is in.
Concerns(m, s) ==
  \/ m.s = s
  \/ m.kind \in {"ArchiveSessionTree", "TeardownSessionTree", "CloseTree"} /\ m.s = Parent[s]

\* Something of s is on its way: the screen does not show yet what was asked last.
InFlight(s) ==
  \/ \E m \in BagToSet(bridge) : Concerns(m, s)
  \/ \E i \in DOMAIN box : Concerns(box[i], s)
  \/ \E i \in DOMAIN scripts : Concerns(scripts[i], s) /\ scripts[i].st # "ended"
  \/ s \in archiving \cup talking \cup {hand} \/ idles[s] > 0

\* An input of a kind; acting on sessions before the last request for one of them
\* shows is rash.
Act(k, on) ==
  LET rash == \E s \in on : InFlight(s)
  IN /\ left[k] > 0
     /\ rash => left["rash"] > 0
     /\ left' = [left EXCEPT ![k] = @ - 1, !["rash"] = IF rash THEN @ - 1 ELSE @]
     /\ mishaps' = IF rash THEN mishaps \cup {"rash"} ELSE mishaps

Publish(kinds, s) == bridge' = bridge (+) SetToBag({Message(k, s) : k \in kinds})

\* A key of the sidebar: the session under the cursor must be idle.
Key(k, s, kinds) ==
  /\ Open(s) /\ IsIdle(mem[s])
  /\ Act(k, {s}) /\ Publish(kinds, s)
  /\ UNCHANGED <<mem, store, box, idle>>

\* A new session of a lifecycle.
CreateSession(s) ==
  /\ Parent[s] = s /\ ~Open(s) /\ ~Stored(s) /\ ~InFlight(s)
  /\ Act("create", {s})
  /\ Amend(s, Created)
  /\ Publish({"PersistSession", "PushChatEntry", "RunSessionSetup"}, s)
  /\ UNCHANGED <<store, box, idle>>

ForkFromEntry(s) ==
  /\ Parent[s] # s /\ ~Open(s) /\ ~Stored(s) /\ ~InFlight(s)
  /\ Own(Parent[s]) /\ mem[Parent[s]].size > 0
  /\ Act("fork", {s, Parent[s]}) /\ Publish({"SessionForkRequested"}, s)
  /\ UNCHANGED <<mem, store, box, idle>>

RerunSetup(s) ==
  /\ Own(s) /\ mem[s].script = "NothingRan"
  /\ Key("rerun", s, {"PushChatEntry", "RunSessionSetup"})

Teardown(s) == Own(s) /\ Key("teardown", s, {"RunSessionTeardown"})

\* The tree keys want the whole visible tree idle.
TreeKey(k, s, kinds) ==
  /\ Open(s) /\ TreeIsIdle(s)
  /\ Act(k, {x \in Sessions : s \in {x, Parent[x]}}) /\ Publish(kinds, s)
  /\ UNCHANGED <<mem, store, box, idle>>

SubmitMessage(s) ==
  /\ Open(s)
  /\ Act("submit", {s}) /\ Publish({"EnqueueUserMessage", "MarkSessionInteracted"}, s)
  /\ UNCHANGED <<mem, store, box, idle>>

LoadSession(s) ==
  /\ Stored(s)
  /\ Act("load", {s}) /\ Publish({"SessionLoadRequested"}, s)
  /\ UNCHANGED <<mem, store, box, idle>>

\* ESC twice on a session that works: the count goes to zero and the queue back into
\* the input box at once, the command is cancelled by message.
EscConfirm(s) ==
  /\ Open(s) /\ ~IsIdle(mem[s])
  /\ left["esc"] > 0 /\ left' = [left EXCEPT !["esc"] = @ - 1]
  /\ Amend(s, [mem[s] EXCEPT !.busy = 0, !.turn = FALSE, !.queued = 0])
  /\ IF mem[s].busy > 0 THEN Publish({"CancelLifecycleCommand"}, s) ELSE UNCHANGED bridge
  /\ UNCHANGED <<store, box, idle, mishaps>>

-----------------------------------------------------------------------------
\* The process dies and is started again, which loads every row that is not
\* archived.  A command it had spawned goes on by itself, or does not.
CrashAndRestart ==
  /\ left["crash"] > 0 /\ left' = [left EXCEPT !["crash"] = @ - 1]
  /\ mem' = [s \in Sessions |-> IF Stored(s) /\ ~store[s].archived THEN FromRow(store[s])
                                ELSE NoSession]
  /\ workspace' \in [Sessions -> {"none", "up", "down"}]
  /\ \A w \in Sessions :
       \/ workspace'[w] = workspace[w]
       \/ \E i \in DOMAIN scripts : /\ Works(i) /\ Parent[scripts[i].s] = w
                                    /\ workspace'[w] = Effect(scripts[i].kind)
  /\ bridge' = EmptyBag /\ box' = <<>> /\ scripts' = <<>> /\ child' = 0
  /\ archiving' = {} /\ talking' = {}
  /\ idles' = [s \in Sessions |-> 0] /\ hand' = NoSession /\ overtaken' = {}
  /\ mishaps' = mishaps \cup {"crash"}
  /\ UNCHANGED store

BridgePublish(m) ==
  /\ bridge' = bridge (-) SetToBag({m})
  /\ box' = Append(box, m)
  /\ UNCHANGED <<mem, store, idle, left, mishaps>>

-----------------------------------------------------------------------------
Init ==
  /\ mem = [s \in Sessions |-> NoSession] /\ store = mem
  /\ bridge = EmptyBag /\ box = <<>> /\ scripts = <<>> /\ child = 0
  /\ archiving = {} /\ talking = {}
  /\ idles = [s \in Sessions |-> 0] /\ hand = NoSession /\ overtaken = {}
  /\ workspace = [s \in Sessions |-> "none"]
  /\ left \in Budgets /\ mishaps = {}

User(s) ==
  \/ CreateSession(s) \/ ForkFromEntry(s) \/ SubmitMessage(s) \/ LoadSession(s)
  \/ EscConfirm(s) \/ RerunSetup(s) \/ Teardown(s)
  \/ Key("close", s, {"CloseSession"}) \/ Key("archive", s, {"ArchiveSession"})
  \/ TreeKey("closeTree", s, {"TeardownSessionTree"})
  \/ TreeKey("archiveTree", s, {"ArchiveSessionTree"})

SessionActor ==
  \/ HandlePushChatEntry \/ HandlePersistSession \/ HandleMarkSessionInteracted
  \/ HandleEnqueueUserMessage \/ OnStreamCompleted
  \/ HandleRunSessionSetup \/ HandleFinishSessionSetup
  \/ HandleRunSessionTeardown \/ HandleFinishSessionTeardown
  \/ HandleCloseSession \/ HandleArchiveSession \/ HandleArchiveSessionTree
  \/ HandleTeardownSessionTree \/ HandleCancelLifecycleCommand
  \/ OnLoadRequested \/ OnSessionForkRequested
  \/ \E s \in archiving : ArchiveNext(s)

QueueActor == DispatchPopped \/ \E s \in Sessions : PopOnIdle(s)

Tasks ==
  \/ \E m \in BagToSet(bridge) : BridgePublish(m)
  \/ \E i \in DOMAIN scripts : ScriptReportsKill(i) \/ \E ok \in BOOLEAN : ScriptEnds(i, ok)
  \/ \E s \in talking : TurnEnds(s)

Next == (\E s \in Sessions : User(s)) \/ SessionActor \/ QueueActor \/ Tasks \/ CrashAndRestart

Spec == Init /\ [][Next]_vars

-----------------------------------------------------------------------------
Records == [script : {"NothingRan", "SetupRan", "TeardownRan"}, ghost : BOOLEAN,
            kept : BOOLEAN, busy : Nat, turn : BOOLEAN, queued : Nat, size : Nat]
Rows == [script : {"NothingRan", "SetupRan", "TeardownRan"}, ghost : BOOLEAN,
         size : Nat, archived : BOOLEAN]

\* The absence of a session is no session and no row.
ASSUME NoSessionAssumption == NoSession \notin Records \cup Rows

Outcomes == {"setup", "None", "Close", "CloseTree"}
Requests ==
  {"PushChatEntry", "PersistSession", "MarkSessionInteracted", "EnqueueUserMessage",
   "StreamCompleted", "RunSessionSetup", "RunSessionTeardown", "CloseSession",
   "ArchiveSession", "ArchiveSessionTree", "TeardownSessionTree",
   "CancelLifecycleCommand", "SessionLoadRequested", "SessionForkRequested"}
Asked == [kind : Requests, s : Sessions]
Messages == Asked \cup [kind : Outcomes, s : Sessions, ok : BOOLEAN]

\* Every variable holds a value of its kind; only what the session actor
\* subscribes to reaches its mailbox.
LifeTypeOK ==
  /\ mem \in [Sessions -> Records \cup {NoSession}]
  /\ store \in [Sessions -> Rows \cup {NoSession}]
  /\ IsABag(bridge) /\ DOMAIN bridge \subseteq Asked
  /\ box \in Seq(Messages)
  /\ scripts \in Seq([kind : Outcomes, s : Sessions, st : {"runs", "killed", "ended"}])
  /\ child \in 0..Len(scripts)
  /\ archiving \subseteq Sessions /\ talking \subseteq Sessions
  /\ idles \in [Sessions -> Nat] /\ hand \in Sessions \cup {NoSession}
  /\ overtaken \subseteq archiving
  /\ workspace \in [Sessions -> {"none", "up", "down"}]
  /\ left \in [Kinds -> Nat] /\ mishaps \subseteq {"rash", "crash"}

-----------------------------------------------------------------------------
\* What is out on behalf of s: commands not ended and endings not yet handled.
Outstanding(s) ==
  Cardinality({i \in DOMAIN scripts : scripts[i].s = s /\ scripts[i].st # "ended"})
  + Cardinality({i \in DOMAIN box : box[i].s = s /\ box[i].kind \in Outcomes})

\* The busy count of a session never exceeds the commands that will release it:
\* whatever is cancelled, closed, loaded again or restarted meanwhile, no session
\* is left busy for good, refusing every key of the sidebar.
BusyIsOwned == \A s \in Sessions : Open(s) => mem[s].busy \in 0..Outstanding(s)

\* Nothing is on its way anywhere.
AtRest == \A s \in Sessions : ~InFlight(s)

\* At rest a restart would bring back exactly the sessions that are open, with
\* the same history and the same script state.
RestIsSaved ==
  AtRest => \A s \in Sessions :
    /\ Kept(s) => Stored(s) /\ store[s] = Row(mem[s], FALSE)
    /\ Stored(s) /\ ~store[s].archived => Open(s)

NoForks == \A s \in Sessions : Parent[s] # s => ~Open(s) /\ ~Stored(s)

\* What the application believes of s.
Believed(s) == IF Open(s) THEN mem[s].script ELSE store[s].script

\* With a user who waits and no fork, a session at rest counts as set up exactly
\* when its workspace is up: whatever is cancelled, killed or failing, no
\* workspace is forgotten and none is torn down twice.
WorkspaceKnown ==
  mishaps = {} /\ NoForks =>
    \A s \in Sessions : ~InFlight(s) /\ (Open(s) \/ Stored(s)) =>
      (Believed(s) = "SetupRan" <=> workspace[s] = "up")

\* Whatever happens, a script state is only ever stored of a script that ran.
StoredScriptsRan ==
  \A s \in Sessions : Stored(s) /\ store[s].script # "NothingRan" => workspace[Parent[s]] # "none"

\* With a user who waits, no write ever takes a text back: a stored history only
\* grows, through closing, archiving, loading, forking and crashes.
StoredTextsKept ==
  []["rash" \notin mishaps' => \A s \in Sessions : Stored(s) => Stored(s)' /\ store'[s].size >= store[s].size]_vars

\* With a user who waits and no fork, closing a session leaves no workspace up:
\* whatever was killed, failed or loaded before, the teardown has run by the time
\* the session goes.
ClosedLeavesNothingUp ==
  [][\A s \in Sessions :
       /\ Open(s) /\ ~Open(s)' /\ archiving = {} /\ NoForks /\ mishaps' = {}
       /\ Head(box).kind \in {"CloseSession", "Close"}
       => workspace'[s] # "up"]_vars

\* A member that works stops the tree, and while the cascade takes its members one
\* by one only the queue actor may begin a turn of one that is left: what the cascade
\* removes is not busy, and in no turn but such a one.
TreeSparesTheBusy ==
  [][\A s \in archiving : Open(s) /\ ~Open(s)' /\ archiving' = archiving \ {s}
       => mem[s].busy = 0 /\ (mem[s].turn => s \in overtaken)]_vars

=============================================================================
