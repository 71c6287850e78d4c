---------------------------- MODULE McpConnections ----------------------------
(* One MCP server of one session: McpCoordinatorActor, which spawns and kills *)
(* the pair's McpActor, the actors it has spawned so far, their liveness      *)
(* watchers, the orchestrator's routing map, and one tool call.  The picker   *)
(* writes the enabled set and tells the coordinator; the restart tool and the *)
(* inspector ask it for a restart.                                            *)
(*                                                                            *)
(* stop_gracefully puts a stop behind what the actor's mailbox holds and does *)
(* not wait: the old actor may still connect, call or say goodbye while its   *)
(* successor starts.  What an actor publishes carries the session and the     *)
(* server, not the actor.                                                     *)
EXTENDS Integers, Sequences, FiniteSets, SequencesExt

CONSTANT Budgets  \* how many inputs of each kind a behaviour may take

Inputs == {"asks",   \* pickers confirmed with a changed set, and restarts
           "deaths"} \* connects that fail and servers that die

ASSUME BudgetAssumption == Budgets \subseteq [Inputs -> Nat]

VARIABLES
  \* the session's shared state
  enabled,     \* the server is in enabled_mcp_servers
  status,      \* mcp_server_status
  \* McpCoordinatorActor
  coordBox,    \* its mailbox
  tracked,     \* spawned[key]: the actor, 0 if absent
  starting,    \* the actor a restart waits for, 0 if none
  \* per McpActor, in order of their spawning
  actor,       \* how far it is
  box,         \* its mailbox
  up,          \* actors whose transport is open
  watched,     \* actors whose liveness watcher runs
  \* ToolOrchestratorActor
  orchBox,     \* its mailbox
  routable,    \* session_tools has the server's tools
  \* the picker and the call
  confirmed,   \* the picker's messages in the bridge's hands, oldest first
  overtaken,   \* the last confirm was published before an earlier one
  call,        \* where the tool call is
  served,      \* actors that passed the call to their server
  budget,      \* what is left of each kind of input
  restarted    \* a restart has been asked for

sharedVars == <<enabled, status>>
coordVars == <<coordBox, tracked, starting>>
actorVars == <<actor, box, up, watched>>
orchVars == <<orchBox, routable>>
pickerVars == <<confirmed, overtaken>>
inputVars == <<pickerVars, budget, restarted>>
callVars == <<call, served>>
vars == <<sharedVars, coordVars, actorVars, orchVars, inputVars, callVars>>

Statuses == {"Starting", "Running", "Dead"}
CoordMsgs == [type : {"SessionCreated", "RestartMcpServer"}]
             \cup [type : {"McpEnablementChanged"}, on : BOOLEAN]
             \cup [type : {"McpServerStatus"}, status : Statuses]
OrchMsgs == {"RegisterTools", "ToolsUnregistered", "ToolExecutionCompleted"}
ActorStates == {"spawned", "connecting", "listed", "running", "failed", "calling",
                "stopping", "parted", "gone"}
Ids == 1..Len(actor)
Subscribed(id) == actor[id] \notin {"spawned", "gone"}
Told(id) == actor[id] \in {"stopping", "parted", "gone"}
            \/ \E i \in DOMAIN box[id] : box[id][i] = "stop"

Init ==
  /\ enabled \in BOOLEAN /\ status = "none"
  /\ coordBox = <<[type |-> "SessionCreated"]>> /\ tracked = 0 /\ starting = 0
  /\ actor = <<>> /\ box = <<>> /\ up = {} /\ watched = {}
  /\ orchBox = <<>> /\ routable = FALSE
  /\ confirmed = <<>> /\ overtaken = FALSE /\ call = "idle" /\ served = {}
  /\ budget \in Budgets /\ restarted = FALSE

Spend(kind) == budget[kind] > 0 /\ budget' = [budget EXCEPT ![kind] = @ - 1]

-----------------------------------------------------------------------------
(* The picker, the inspector and the restart tool *)

\* confirm_mcp writes the set and hands the bridge its message, with a copy of it.
ConfirmPicker ==
  /\ Spend("asks")
  /\ enabled' = ~enabled
  /\ confirmed' = Append(confirmed, ~enabled) /\ overtaken' = FALSE
  /\ UNCHANGED <<status, coordVars, actorVars, orchVars, callVars, restarted>>

\* Each closure's task publishes when it gets to run: a later confirm may be first.
PublishConfirmed ==
  /\ \E i \in DOMAIN confirmed :
       /\ coordBox' = Append(coordBox, [type |-> "McpEnablementChanged", on |-> confirmed[i]])
       /\ confirmed' = RemoveAt(confirmed, i)
       /\ overtaken' = (overtaken \/ (i = Len(confirmed) /\ i > 1))
  /\ UNCHANGED <<sharedVars, tracked, starting, actorVars, orchVars, callVars, budget,
                 restarted>>

\* RestartMcpServer, from the tool or the inspector; neither looks at the set.
AskRestart ==
  /\ Spend("asks") /\ restarted' = TRUE
  /\ coordBox' = Append(coordBox, [type |-> "RestartMcpServer"])
  /\ UNCHANGED <<sharedVars, tracked, starting, actorVars, orchVars, callVars, pickerVars>>

-----------------------------------------------------------------------------
(* McpCoordinatorActor *)

NextMsg(type) ==
  /\ starting = 0 /\ coordBox # <<>> /\ Head(coordBox).type = type
  /\ coordBox' = Tail(coordBox)

NeverStops(id) == box                                                 \* mutant

StopBox(id) == IF id = 0 THEN box ELSE [box EXCEPT ![id] = Append(@, "stop")]

ForgetsToStop == tracked' = 0 /\ UNCHANGED <<actor, box>>             \* mutant

\* kill_one, without a word to whoever is not tracked.
Kill == tracked' = 0 /\ box' = StopBox(tracked) /\ UNCHANGED actor

\* spawn_one.
Spawn(boxes) ==
  /\ actor' = Append(actor, "spawned") /\ box' = Append(boxes, <<>>)
  /\ tracked' = Len(actor) + 1

\* reconcile: the tracked actor against the desired set.
Reconcile(desired) ==
  IF desired /\ tracked = 0 THEN Spawn(box)
  ELSE IF ~desired /\ tracked # 0 THEN Kill
  ELSE UNCHANGED <<tracked, actor, box>>

AssumesEmpty ==                                                       \* mutant
  /\ NextMsg("SessionCreated") /\ Reconcile(FALSE)
  /\ UNCHANGED <<sharedVars, starting, up, watched, orchVars, inputVars, callVars>>

\* SessionCreated reconciles with the set as it is now.
HandleSessionCreated ==
  /\ NextMsg("SessionCreated") /\ Reconcile(enabled)
  /\ UNCHANGED <<sharedVars, starting, up, watched, orchVars, inputVars, callVars>>

\* McpEnablementChanged with the set it carries.
HandleEnablementChanged ==
  /\ NextMsg("McpEnablementChanged") /\ Reconcile(Head(coordBox).on)
  /\ UNCHANGED <<sharedVars, starting, up, watched, orchVars, inputVars, callVars>>

\* restart_one: kill, respawn, and wait for the new actor with the mailbox shut.
HandleRestart ==
  /\ NextMsg("RestartMcpServer")
  /\ Spawn(StopBox(tracked)) /\ starting' = Len(actor) + 1
  /\ UNCHANGED <<sharedVars, up, watched, orchVars, inputVars, callVars>>

\* wait_for_startup returned, or RESTART_TIMEOUT is over.
EndRestart ==
  /\ starting # 0 /\ starting' = 0
  /\ UNCHANGED <<sharedVars, coordBox, tracked, actorVars, orchVars, inputVars, callVars>>

\* McpServerStatus is written as it comes.
HandleStatus ==
  /\ NextMsg("McpServerStatus")
  /\ status' = Head(coordBox).status
  /\ UNCHANGED <<enabled, tracked, starting, actorVars, orchVars, inputVars, callVars>>

-----------------------------------------------------------------------------
(* McpActor *)

PublishStatus(s) == coordBox' = Append(coordBox, [type |-> "McpServerStatus", status |-> s])

ActorStep(id, from, to) ==
  /\ actor[id] \in from
  /\ actor' = [actor EXCEPT ![id] = to]
  /\ UNCHANGED <<sharedVars, tracked, starting, pickerVars, restarted>>

\* on_start: subscribe, say Starting, ...
Announce(id) ==
  /\ ActorStep(id, {"spawned"}, "connecting") /\ PublishStatus("Starting")
  /\ UNCHANGED <<box, up, watched, orchVars, callVars, budget>>

\* ... connect and list, register the tools, ...
RegisterTools(id) ==
  /\ ActorStep(id, {"connecting"}, "listed")
  /\ orchBox' = Append(orchBox, "RegisterTools")
  /\ up' = up \cup {id}
  /\ UNCHANGED <<coordBox, box, watched, routable, callVars, budget>>

\* ... say Running and set the watcher to work.
SayRunning(id) ==
  /\ ActorStep(id, {"listed"}, "running") /\ PublishStatus("Running")
  /\ watched' = watched \cup {id}
  /\ UNCHANGED <<box, up, orchVars, callVars, budget>>

\* No connection: the actor stays, without a client.
ConnectFails(id) ==
  /\ ActorStep(id, {"connecting"}, "failed") /\ PublishStatus("Dead")
  /\ Spend("deaths")
  /\ UNCHANGED <<box, up, watched, orchVars, callVars>>

ServerDies(id) ==
  /\ id \in up /\ Spend("deaths")
  /\ up' = up \ {id}
  /\ UNCHANGED <<sharedVars, coordVars, actor, box, watched, orchVars, callVars,
                 pickerVars, restarted>>

\* spawn_liveness_watch: a closed transport is reported once.
ReportDeath(id) ==
  /\ id \in watched \ up
  /\ watched' = watched \ {id}
  /\ PublishStatus("Dead")
  /\ UNCHANGED <<sharedVars, tracked, starting, actor, box, up, orchVars, inputVars,
                 callVars>>

DropsAnswer == UNCHANGED orchBox                                      \* mutant

Answer == orchBox' = Append(orchBox, "ToolExecutionCompleted")

\* ExecuteTool: at once with no client, else by the server.
TakeCall(id) ==
  /\ box[id] # <<>> /\ Head(box[id]) = "call"
  /\ box' = [box EXCEPT ![id] = Tail(@)]
  /\ \/ /\ ActorStep(id, {"running"}, "calling")
        /\ served' = served \cup {id} /\ UNCHANGED orchBox
     \/ /\ ActorStep(id, {"failed"}, "failed")
        /\ Answer /\ UNCHANGED served
  /\ UNCHANGED <<coordBox, up, watched, routable, call, budget>>

\* The server's answer, its error, or tool_default_timeout_secs.
EndCall(id) ==
  /\ ActorStep(id, {"calling"}, "running") /\ Answer
  /\ UNCHANGED <<coordBox, box, up, watched, routable, callVars, budget>>

LeavesWatcher(id) ==                                                  \* mutant
  /\ box[id] # <<>> /\ Head(box[id]) = "stop"
  /\ ActorStep(id, {"running", "failed"}, "stopping")
  /\ up' = up \ {id}
  /\ UNCHANGED <<coordBox, box, watched, orchVars, callVars, budget>>

\* on_stop: the watcher off, the client shut down, ...
BeginStop(id) ==
  /\ box[id] # <<>> /\ Head(box[id]) = "stop"
  /\ ActorStep(id, {"running", "failed"}, "stopping")
  /\ watched' = watched \ {id} /\ up' = up \ {id}
  /\ UNCHANGED <<coordBox, box, orchVars, callVars, budget>>

PartsSilently(id) ==                                                  \* mutant
  /\ ActorStep(id, {"stopping"}, "parted")
  /\ UNCHANGED <<coordBox, box, up, watched, orchVars, callVars, budget>>

\* ... Dead, ...
SayDead(id) ==
  /\ ActorStep(id, {"stopping"}, "parted") /\ PublishStatus("Dead")
  /\ UNCHANGED <<box, up, watched, orchVars, callVars, budget>>

\* ... and the tools are gone, with whatever the mailbox still holds.
Unregister(id) ==
  /\ ActorStep(id, {"parted"}, "gone")
  /\ orchBox' = Append(orchBox, "ToolsUnregistered")
  /\ box' = [box EXCEPT ![id] = <<>>]
  /\ UNCHANGED <<coordBox, up, watched, routable, callVars, budget>>

-----------------------------------------------------------------------------
(* ToolOrchestratorActor *)

\* handle_register_tools, ToolsUnregistered, handle_tool_execution_completed.
HandleOrch ==
  /\ orchBox # <<>> /\ orchBox' = Tail(orchBox)
  /\ routable' = CASE Head(orchBox) = "RegisterTools" -> TRUE
                   [] Head(orchBox) = "ToolsUnregistered" -> FALSE
                   [] OTHER -> routable
  /\ call' = IF Head(orchBox) = "ToolExecutionCompleted" /\ call = "routed"
             THEN "answered" ELSE call
  /\ UNCHANGED <<sharedVars, coordVars, actorVars, inputVars, served>>

\* mcp_rejection_reason finds none.
Takes == enabled /\ status = "Running"

\* dispatch_tool_call on an idle mailbox: an unknown tool and a server that cannot
\* take the call are answered at once, else every McpActor subscribed gets it.
DispatchCall ==
  /\ call = "idle" /\ orchBox = <<>>
  /\ IF routable /\ Takes
     THEN /\ call' = "routed"
          /\ box' = [id \in Ids |-> IF Subscribed(id) THEN Append(box[id], "call")
                                    ELSE box[id]]
     ELSE call' = "answered" /\ UNCHANGED box
  /\ UNCHANGED <<sharedVars, coordVars, actor, up, watched, orchVars, inputVars, served>>

-----------------------------------------------------------------------------
Coordinator == HandleSessionCreated \/ HandleEnablementChanged \/ HandleRestart
               \/ EndRestart \/ HandleStatus
Actor(id) == Announce(id) \/ RegisterTools(id) \/ SayRunning(id) \/ ReportDeath(id)
             \/ TakeCall(id) \/ EndCall(id) \/ BeginStop(id) \/ SayDead(id)
             \/ Unregister(id)
Work == PublishConfirmed \/ Coordinator \/ HandleOrch \/ \E id \in Ids : Actor(id)

Next == \/ Work \/ ConfirmPicker \/ AskRestart \/ DispatchCall
        \/ \E id \in Ids : ConnectFails(id) \/ ServerDies(id)

Spec == Init /\ [][Next]_vars

\* As long as an actor or a task can do something, one of them does.
FairSpec == Spec /\ WF_vars(Work)

-----------------------------------------------------------------------------
\* Every variable holds a value of its kind; an open transport has an actor that
\* has connected and not stopped, and a restart waits for the actor it spawned.
McpTypeOK ==
  /\ enabled \in BOOLEAN /\ status \in Statuses \cup {"none"}
  /\ coordBox \in Seq(CoordMsgs) /\ orchBox \in Seq(OrchMsgs)
  /\ actor \in Seq(ActorStates) /\ box \in Seq(Seq({"call", "stop"})) /\ DOMAIN box = Ids
  /\ tracked \in 0..Len(actor) /\ starting \in {0, tracked}
  /\ up \subseteq {id \in Ids : actor[id] \in {"listed", "running", "calling"}}
  /\ watched \subseteq {id \in Ids : actor[id] \in {"running", "calling"}}
  /\ routable \in BOOLEAN /\ confirmed \in Seq(BOOLEAN) /\ overtaken \in BOOLEAN
  /\ call \in {"idle", "routed", "answered"} /\ served \subseteq Ids
  /\ budget \in [Inputs -> Nat] /\ restarted \in BOOLEAN

\* Whatever the coordinator has spawned and tracks no longer has been told to stop,
\* once: no server process outlives its entry in the map, and what is tracked has
\* not been told.
NoOrphanActor == \A id \in Ids : Told(id) <=> id # tracked

\* All actors and watchers have said what they had to say.
Quiet ==
  /\ coordBox = <<>> /\ orchBox = <<>> /\ starting = 0 /\ confirmed = <<>>
  /\ \A id \in Ids : box[id] = <<>> /\ actor[id] \in {"running", "failed", "gone"}
  /\ watched \subseteq up

\* When everything has settled, the actor that runs is the one the last picker
\* asked for (a restart asks for one too), unless the bridge published that picker's
\* message before an earlier one; and no other actor is left.
DesiredWhenQuiet ==
  Quiet => /\ ~overtaken /\ enabled => tracked # 0
           /\ ~overtaken /\ ~restarted /\ tracked # 0 => enabled
           /\ \A id \in Ids : actor[id] # "gone" => id = tracked

\* Unless an actor had to give way to a later one, the settled views agree: the
\* status says Running exactly if the tracked actor's transport is open, and the
\* orchestrator routes exactly to an actor that listed its tools.
ViewsAgree ==
  Quiet /\ Len(actor) = 1
    => /\ status = "Running" <=> tracked # 0 /\ tracked \in up
       /\ tracked = 0 => status = "Dead" /\ ~routable
       /\ tracked \in up => routable

\* A tool call is passed to a server at most once, however many actors of the pair
\* live at that moment: the model asks for one effect and gets one.
ServedOnce == Cardinality(served) <= 1

\* A call that was routed is answered, if no actor had been told to stop by then.
RoutedIsAnswered == call = "routed" ~> call = "answered" \/ \E id \in Ids : Told(id)

\* A server that was restarted and runs is back: its status says so and its tools
\* can be called.
RestartedIsUsable ==
  Quiet /\ enabled /\ tracked # 0 /\ tracked \in up => status = "Running" /\ routable

=============================================================================
