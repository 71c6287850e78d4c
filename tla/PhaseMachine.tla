---------------------------- MODULE PhaseMachine ----------------------------
(* The per-session phase machine (session/phase_machine).  A transition the  *)
(* machine rejects leaves the phase as it was: ChatSessionState logs the     *)
(* TransitionError and carries on, so every operator below is total.         *)
(*                                                                           *)
(* soft_cancel and set_tool_loop_disabled have no caller outside the tests,  *)
(* so the two flags they set stay FALSE and are left out.                    *)
-----------------------------------------------------------------------------

Phases == {"Idle", "Sending", "Streaming"}

\* SessionPhaseMachine::transition: swap to `next` from `expected`, else reject.
Transition(phase, expected, next) == IF phase = expected THEN next ELSE phase

OnDispatchMessage(phase) == Transition(phase, "Idle", "Sending")

OnFirstToken(phase) == Transition(phase, "Sending", "Streaming")

FinishesFromSending(phase) == Transition(phase, "Sending", "Idle")    \* mutant

\* Rejected from Sending: a turn no token reached is not finished by it.
OnStreamCompletedFinished(phase) == Transition(phase, "Streaming", "Idle")

\* Hard cancel, accepted from Streaming and from Sending.
Cancel(phase) == IF phase \in {"Streaming", "Sending"} THEN "Idle" ELSE phase

\* ChatSessionState::begin_streaming accepts Idle by passing through Sending.
BeginStreaming(phase) == OnFirstToken(OnDispatchMessage(phase))

\* ChatSessionState::begin_sending.
BeginSending(phase) == OnDispatchMessage(phase)

=============================================================================
