------------------------------ MODULE StallWatch ------------------------------
(* The turn of TurnEngine with the stall-watchdog plugin at work on it.      *)
(*                                                                           *)
(* PluginCoordinatorActor subscribes to the messages of the turn that show   *)
(* whether a stream is alive and writes each as one line to the plugin's     *)
(* stdin (`feed`: its mailbox, the plugin actor's and the pipe are FIFO, one *)
(* behind the other).  The guest keeps a timer and a restart budget for the  *)
(* session; a tick that finds the timer armed and the window over makes it   *)
(* ask for a restart or, with no restarts left, for a cancel.  The host's    *)
(* pump publishes what the guest asks for (`asks`).  The lines carry a       *)
(* session, never a generation.                                              *)
(*                                                                           *)
(* A stream may hang: its provider holds the connection and sends nothing.   *)
(* The window is a minute and a message is handled in milliseconds: a trip   *)
(* finds the actors caught up.  (A restart that races with the turn's own    *)
(* messages is TurnEngine's StallTrip.)                                      *)
EXTENDS TurnEngine

CONSTANTS MaxRestarts,  \* max_restarts of the plugin's configuration
          Hangs         \* streams that may hang

ASSUME RestartsAssumption == MaxRestarts \in Nat \ {0}   \* parse_max_restarts
ASSUME HangsAssumption == Hangs \in Nat

VARIABLES
  feed,    \* host events the guest has not read
  watch,   \* SessionStall: armed, consecutive restarts
  asks,    \* messages of the guest that the host has not applied
  hung     \* generations whose provider has gone silent

watchVars == <<feed, watch, asks, hung>>
allVars == <<vars, watchVars>>

Unwatched == [armed |-> FALSE, restarts |-> 0]     \* no entry in `sessions`
Events == {"start", "ping", "finished", "stopped"}

WatchInit ==
  /\ Init
  /\ feed = <<>> /\ watch = Unwatched /\ asks = <<>> /\ hung = {}

-----------------------------------------------------------------------------
(* PluginCoordinatorActor *)

DropsStarts == {"StreamToken", "StreamCompleted", "ToolExecutionCompleted"}   \* mutant

\* The messages forward_event passes on to this plugin.
Forwarded == {"SendToLlmProvider", "StreamToken", "StreamCompleted",
              "ToolExecutionCompleted"}

\* The wire event of a message: a tool's result counts as a sign of life.
Event(m) ==
  CASE m.type = "SendToLlmProvider" -> "start"
    [] m.type \in {"StreamToken", "ToolExecutionCompleted"} -> "ping"
    [] m.type = "StreamCompleted" /\ m.reason = "Finished" -> "finished"
    [] OTHER -> "stopped"

\* The bus hands the coordinator what it hands the session actor: a step publishes
\* at most one message to both.
Heard ==
  LET last == sessionBox'[Len(sessionBox')]
  IN IF Len(sessionBox') > Len(sessionBox) /\ last.type \in Forwarded
     THEN <<Event(last)>>
     ELSE <<>>

\* apply_plugin_restart_stalled_stream, apply_plugin_cancel_stream: the pump task
\* publishes the guest's requests in order.  Neither looks at the session.
ApplyAsk ==
  /\ asks # <<>>
  /\ asks' = Tail(asks)
  /\ IF Head(asks) = "restart"
     THEN sessionBox' = Append(sessionBox, [type |-> "RetryStalledSession"])
          /\ UNCHANGED llmBox
     ELSE llmBox' = Append(llmBox, [type |-> "CancelStream", nth |-> 0])
          /\ UNCHANGED sessionBox
  /\ UNCHANGED <<sessionVars, job, hand, llmVars, stream, aborted, toolVars, toolBox,
                 idleEvents, userVars, overwritten, feed, watch, hung>>

-----------------------------------------------------------------------------
(* The guest *)

StopsKeepArmed(event) ==                                                \* mutant
  CASE event = "start" -> [watch EXCEPT !.armed = TRUE]
    [] event = "ping" -> [watch EXCEPT !.restarts = 0]
    [] event = "finished" -> Unwatched
    [] event = "stopped" -> watch

\* on_stream_start arms and keeps the budget, on_stream_event proves the restart
\* connected, on_stream_end forgets a turn that completed and disarms otherwise.
Seen(event) ==
  CASE event = "start" -> [watch EXCEPT !.armed = TRUE]
    [] event = "ping" -> [watch EXCEPT !.restarts = 0]
    [] event = "finished" -> Unwatched
    [] event = "stopped" -> [watch EXCEPT !.armed = FALSE]

ReadEvent ==
  /\ feed # <<>>
  /\ feed' = Tail(feed)
  /\ watch' = Seen(Head(feed))
  /\ UNCHANGED <<vars, asks, hung>>

\* Every mailbox and pipe is empty and no handler stands between two locks.
CaughtUp ==
  /\ feed = <<>> /\ asks = <<>> /\ bridge = {} /\ idleEvents = 0
  /\ sessionBox = <<>> /\ llmBox = <<>> /\ toolBox = <<>>
  /\ job = NoJob /\ hand = NoHand

\* Nothing will be heard of the session inside the window: no stream makes progress
\* and no tool is about to return.
Silence == CaughtUp /\ running = {} /\ \A g \in Gens \ hung : ~Live(g)

MayRestart == watch.restarts < MaxRestarts

\* on_tick past the window: a restart within the budget, else give up and disarm.
Trip ==
  /\ watch.armed /\ Silence
  /\ IF MayRestart
     THEN /\ watch' = [watch EXCEPT !.restarts = @ + 1]
          /\ asks' = Append(asks, "restart")
     ELSE /\ watch' = [watch EXCEPT !.armed = FALSE]
          /\ asks' = Append(asks, "cancel")
  /\ UNCHANGED <<vars, feed, hung>>

-----------------------------------------------------------------------------
\* The provider of a live stream falls silent for good.
Hang(g) ==
  /\ Cardinality(hung) < Hangs /\ Live(g) /\ g \notin hung /\ stream[g].st # "handoff"
  /\ hung' = hung \cup {g}
  /\ UNCHANGED <<vars, feed, watch, asks>>

Watched(step) == step /\ feed' = feed \o Heard /\ UNCHANGED <<watch, asks, hung>>

\* What the actors and the tasks do; a stream that hangs does not publish.
Work ==
  \/ \E m \in bridge : BridgePublish(m)
  \/ SessionActor \/ Queue \/ Llm \/ Orchestrator
  \/ \E g \in Gens \ hung : StreamTask(g)
  \/ \E g \in hung : StreamStops(g)
  \/ \E g \in running : ToolFinishes(g)

Guest == ReadEvent \/ Trip \/ ApplyAsk

\* The other plugins are quiet: every plugin request here is one of the watchdog.
WatchNext ==
  \/ Watched(Frontend) \/ Watched(Work)
  \/ Guest \/ \E g \in Gens : Hang(g)

WatchSpec == WatchInit /\ [][WatchNext]_allVars

-----------------------------------------------------------------------------
\* Every variable the plugin adds holds a value of its kind; the
\* restart budget is never overdrawn.
WatchTypeOK ==
  /\ TypeOK
  /\ feed \in Seq(Events) /\ asks \in Seq({"restart", "cancel"})
  /\ watch \in [armed : BOOLEAN, restarts : 0..MaxRestarts]
  /\ hung \subseteq Gens

\* A stream the provider still owes something on.
Open(g) == Live(g) /\ stream[g].st \in {"open", "tokens"}

\* Once the actors have caught up, a stream that is still open has a timer running
\* on it: whatever ends, cancels and restarts the guest has read in between, no
\* stream is left for nobody to restart.
LiveStreamsWatched == CaughtUp /\ (\E g \in Gens : Open(g)) => watch.armed

\* The other way round: a timer that runs when the actors have caught up runs on a
\* turn that has not ended, so no restart and no "giving up" reaches a session at
\* rest.
TimersHaveTurns == CaughtUp /\ watch.armed => phase # "Idle"

-----------------------------------------------------------------------------
(* Liveness.  As long as an actor, a task or the plugin can do something, one   *)
(* of them does, in whatever order (every input is bounded, so none can starve *)
(* another for ever).  A stream that hangs never ends by itself.               *)

WatchFairness == WF_allVars(Watched(Work) \/ Guest)

FairWatchSpec == WatchSpec /\ WatchFairness

=============================================================================
