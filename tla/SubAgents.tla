------------------------------ MODULE SubAgents ------------------------------
(* One call of the task tool: the tool's future, the two listener actors it  *)
(* spawns and the child session it starts.  The child is a session like any  *)
(* other, so its turn is TurnEngine's: the user may watch it, steer it and   *)
(* write to it, from the moment it is in the session map.                    *)
(*                                                                           *)
(* The future spawns the completion listener, announces the child, waits for *)
(* its discovery to settle (SETTLE_BUDGET at most), enqueues the prompt and  *)
(* waits for the listener, up to the call's deadline if it has one.  The     *)
(* parent's batch being cancelled drops the future at any await: the child   *)
(* runs on, and the listeners find their channels closed.                    *)
EXTENDS TurnEngine

CONSTANTS Prompt,       \* the text the parent's call carries
          Discoveries,  \* the scans and MCP servers of the child's discovery
          Deadline      \* the call has a max_duration_secs

ASSUME PromptAssumption == Prompt \in Msgs
ASSUME DeadlineAssumption == Deadline \in BOOLEAN

VARIABLES
  call,       \* where the future is
  scanning,   \* discoveries that have not announced their end
  ledger,     \* TaskSettleListenerActor: what it still waits for
  heard,      \* Idle announcements in TaskPhaseListenerActor's mailbox
  listening,  \* that actor is running
  signalled   \* the oneshot it completes has been sent

callVars == <<call, scanning, ledger, heard, listening, signalled>>
subVars == <<vars, callVars>>

InFlight == {"spawned", "settling", "waiting"}
Answers == {"Finished", "TimedOut"}
CallStates == {"called", "aborted"} \cup InFlight \cup Answers

SubInit ==
  /\ Init
  /\ call = "called" /\ scanning = {} /\ ledger = {}
  /\ heard = 0 /\ listening = FALSE /\ signalled = FALSE

-----------------------------------------------------------------------------
(* The future of the call *)

\* run() up to the publish of SessionCreated: the child is in the session map, the
\* completion listener is subscribed, the discovery actors set to work.
SpawnChild ==
  /\ call = "called"
  /\ call' = "spawned" /\ listening' = TRUE /\ scanning' = Discoveries
  /\ UNCHANGED <<vars, ledger, heard, signalled>>

\* await_discovery_settlement subscribes behind that publish; what was announced in
\* between has not been heard.
OpenGate ==
  /\ call = "spawned"
  /\ call' = "settling" /\ ledger' = Discoveries
  /\ UNCHANGED <<vars, scanning, heard, listening, signalled>>

\* ContextFilesLoaded, SkillsLoaded, PromptTemplatesLoaded, or a server that is
\* Running or Dead.
DiscoveryEnds(d) ==
  /\ d \in scanning
  /\ scanning' = scanning \ {d}
  /\ ledger' = ledger \ (IF call = "settling" THEN {d} ELSE {})
  /\ UNCHANGED <<vars, call, heard, listening, signalled>>

\* The quorum is met, or the budget is over: the prompt goes out either way.
EnqueuePrompt ==
  /\ call = "settling"
  /\ call' = "waiting"
  /\ sessionBox' = Append(sessionBox, Enqueue({Prompt}))
  /\ submitted' = submitted \cup {Prompt}
  /\ UNCHANGED <<sessionVars, job, hand, llmVars, stream, aborted, toolVars, llmBox,
                 toolBox, idleEvents, cancelPrompt, bridge, budget, overwritten,
                 scanning, ledger, heard, listening, signalled>>

\* await_child: the completion signal, looked at before the clock, ...
ReturnAnswer ==
  /\ call = "waiting" /\ signalled
  /\ call' = "Finished"
  /\ UNCHANGED <<vars, scanning, ledger, heard, listening, signalled>>

\* ... or the deadline, which cancels the child.
Expire ==
  /\ call = "waiting" /\ Deadline /\ ~signalled
  /\ call' = "TimedOut"
  /\ llmBox' = Append(llmBox, [type |-> "CancelStream", nth |-> 0])
  /\ UNCHANGED <<sessionVars, job, hand, llmVars, stream, aborted, toolVars, sessionBox,
                 toolBox, idleEvents, userVars, overwritten,
                 scanning, ledger, heard, listening, signalled>>

\* The orchestrator cancels the parent's batch and aborts the call's task.
AbortCall ==
  /\ call \in InFlight
  /\ call' = "aborted"
  /\ UNCHANGED <<vars, scanning, ledger, heard, listening, signalled>>

-----------------------------------------------------------------------------
(* TaskPhaseListenerActor *)

\* A step of the child's turn: each announcement of Idle, from Idle to Idle included,
\* reaches a listener that still runs.
ChildStep(step) ==
  /\ step
  /\ heard' = IF listening /\ idleEvents' > idleEvents THEN heard + 1 ELSE heard
  /\ UNCHANGED <<call, scanning, ledger, listening, signalled>>

\* ctx.stop().
StopListening == listening' = FALSE

OnlyAtTheEnd == call = "waiting"                                        \* mutant

\* The oneshot holds the signal until the future gets to it; a dropped one is closed.
ChannelOpen == call \in InFlight

\* The first one is forwarded, unless nobody waits any more; the actor stops.
Signal ==
  /\ listening /\ heard > 0
  /\ heard' = 0 /\ StopListening
  /\ signalled' = ChannelOpen
  /\ UNCHANGED <<vars, call, scanning, ledger>>

-----------------------------------------------------------------------------
\* The user and the plugins find the child once it is in the session map.
Outside ==
  /\ call # "called"
  /\ Frontend \/ Plugins
  /\ Prompt \in submitted' => Prompt \in submitted

Child ==
  \/ \E m \in bridge : BridgePublish(m)
  \/ SessionActor \/ Queue \/ Llm \/ Orchestrator
  \/ \E g \in Gens : StreamTask(g)
  \/ \E g \in running : ToolFinishes(g)

Call == SpawnChild \/ OpenGate \/ EnqueuePrompt \/ ReturnAnswer \/ Signal
        \/ \E d \in scanning : DiscoveryEnds(d)

SubNext ==
  \/ ChildStep(Outside) \/ ChildStep(Child)
  \/ Call \/ Expire \/ AbortCall

SubSpec == SubInit /\ [][SubNext]_subVars

\* As long as a task or an actor can do something, one of them does.  The deadline
\* may be far away, and nobody has to abort the call.
FairSubSpec == SubSpec /\ WF_subVars(ChildStep(Child) \/ Call)


-----------------------------------------------------------------------------
\* Every variable the call adds holds a value of its kind; the completion listener
\* is gone once it has signalled, and the settle ledger never closes on a discovery
\* that is still running.
SubTypeOK ==
  /\ TypeOK
  /\ call \in CallStates /\ listening \in BOOLEAN /\ signalled \in BOOLEAN
  /\ scanning \subseteq Discoveries /\ ledger \subseteq Discoveries /\ heard \in Nat
  /\ signalled => ~listening
  /\ call = "settling" => scanning \subseteq ledger

\* The user has written nothing to the child.
LeftAlone == submitted \subseteq {Prompt}

\* The answer of a finished call is read from a child that is done: the prompt has
\* been dispatched, the session rests, no stream talks and no tool runs in it.
\* (A user who writes to the child may have his message answered instead.)
FinishedChildRests ==
  call = "Finished" /\ LeftAlone
    => /\ phase = "Idle" /\ queue = <<>> /\ running = {}
       /\ \A g \in Gens : ~Live(g)
       /\ \E i \in DOMAIN history : Prompt \in history[i]

\* A call that is made is answered, or its future is dropped.
EveryCallAnswered == call \in InFlight ~> call \in Answers \cup {"aborted"}

\* The child of a dropped call is not cancelled, but its turn comes to an end.
OrphanEnds == call = "aborted" ~> phase = "Idle"

=============================================================================
