---------------------------- MODULE ToolBatches ----------------------------
(* ToolOrchestratorActor: it hands the calls of a batch to tool tasks and    *)
(* tool actors, counts their results per session, and reports the batch.  A  *)
(* result names its session and its call, and not its batch.                 *)
(* The session's turn is the environment here: it asks for a batch, waits    *)
(* for it, and may cancel it (CancelStream) or restart the turn over it (a   *)
(* retried or superseded stream whose hand-off still arrives).               *)
EXTENDS Integers, Sequences, FiniteSets

CONSTANTS Sessions,
          Kinds,         \* how the calls in use are dispatched, see CallKinds
          MaxBatches,    \* batches, of all sessions together
          MaxCalls,      \* calls per batch
          MaxCancels, MaxSupersedes, MaxLate

\* builtin: a spawned task, aborted by a cancel
\* actor:   web-fetch, web-search or an MCP actor, which no cancel reaches
\* refused: an unknown tool or an MCP server that is not running, answered at once
CallKinds == {"builtin", "actor", "refused"}

ASSUME KindsAssumption == Kinds \subseteq CallKinds
ASSUME BoundsAssumption == /\ MaxBatches \in Nat /\ MaxCalls \in Nat
                           /\ MaxCancels \in Nat /\ MaxSupersedes \in Nat
                           /\ MaxLate \in Nat

VARIABLES
  \* ToolOrchestratorActor
  pending,      \* session -> its PendingBatch
  dispatching,  \* the batch whose calls the actor is handing out
  box,          \* its mailbox
  \* the tools
  running,      \* builtin calls whose task runs
  aborted,      \* builtin calls whose task was aborted
  routed,       \* calls with an actor
  \* the session's turn
  asked,        \* batches asked for so far
  waiting,      \* session -> the batch its turn waits for, 0 if none
  completed,    \* the ToolBatchCompleted published
  disturbed,    \* sessions that ever cancelled or superseded a batch
  cancels, supersedes, late

toolVars == <<running, aborted, routed>>
turnVars == <<asked, waiting, disturbed, cancels, supersedes>>
vars == <<pending, dispatching, box, toolVars, turnVars, completed, late>>

Call == [s : Sessions, of : 1..MaxBatches, n : 1..MaxCalls, kind : Kinds]
NoBatch == [of |-> 0, remaining |-> 0, results |-> {}, handles |-> {}]
PendingBatch == {NoBatch} \cup
  [of : 1..MaxBatches, remaining : 1..MaxCalls, results : SUBSET Call,
   handles : SUBSET Call]
NoDispatch == [s |-> "none", of |-> 0, calls |-> <<>>, next |-> 1]

Batch(s, of, kinds) ==
  [n \in DOMAIN kinds |-> [s |-> s, of |-> of, n |-> n, kind |-> kinds[n]]]
KindSeqs == UNION {[1..n -> Kinds] : n \in 0..MaxCalls}

Execute(s, of, calls) == [type |-> "ExecuteToolBatch", s |-> s, of |-> of, calls |-> calls]
Cancel(s) == [type |-> "CancelToolBatch", s |-> s]
Done(call) == [type |-> "ToolExecutionCompleted", call |-> call]

Init ==
  /\ pending = [s \in Sessions |-> NoBatch] /\ dispatching = NoDispatch /\ box = <<>>
  /\ running = {} /\ aborted = {} /\ routed = {}
  /\ asked = 0 /\ waiting = [s \in Sessions |-> 0]
  /\ completed = {} /\ disturbed = {} /\ cancels = 0 /\ supersedes = 0 /\ late = 0

-----------------------------------------------------------------------------
(* The session's turn *)

\* handle_done_event publishes ExecuteToolBatch, the calls it accumulated with
\* it: none if the provider stopped for tools and named no tool.
Ask(s, kinds) ==
  LET of == asked + 1
  IN /\ asked < MaxBatches
     /\ \/ waiting[s] = 0 /\ UNCHANGED <<supersedes, disturbed>>
        \/ /\ waiting[s] # 0 /\ supersedes < MaxSupersedes
           /\ supersedes' = supersedes + 1
           /\ disturbed' = disturbed \cup {s}
     /\ box' = Append(box, Execute(s, of, Batch(s, of, kinds)))
     /\ asked' = of
     /\ waiting' = [waiting EXCEPT ![s] = of]
     /\ UNCHANGED <<pending, dispatching, toolVars, completed, cancels, late>>

\* cancel_stream sends CancelToolBatch for any tracked session, whether a batch
\* runs or not, and the turn no longer waits.
AskCancel(s) ==
  /\ cancels < MaxCancels /\ cancels' = cancels + 1
  /\ box' = Append(box, Cancel(s))
  /\ waiting' = [waiting EXCEPT ![s] = 0]
  /\ disturbed' = disturbed \cup {s}
  /\ UNCHANGED <<pending, dispatching, toolVars, asked, completed, supersedes, late>>

-----------------------------------------------------------------------------
(* ToolOrchestratorActor *)

NextMsg(type) ==
  /\ dispatching = NoDispatch /\ box # <<>> /\ Head(box).type = type
  /\ box' = Tail(box)

\* ToolBatchCompleted: the session, its results, and no word of which batch.
Report(s, of, results) ==
  /\ completed' = completed \cup {[s |-> s, of |-> of, results |-> results]}
  /\ waiting' = [waiting EXCEPT ![s] = 0]

DispatchesEmptyBatch ==                                               \* mutant
  LET m == Head(box)
  IN /\ NextMsg("ExecuteToolBatch")
     /\ dispatching' = [s |-> m.s, of |-> m.of, calls |-> m.calls, next |-> 1]
     /\ UNCHANGED <<pending, toolVars, turnVars, completed, late>>

\* An empty batch is answered at once and leaves the pending batch alone; else
\* the calls go out one by one.
HandleExecuteToolBatch ==
  LET m == Head(box)
  IN /\ NextMsg("ExecuteToolBatch")
     /\ \/ m.calls = <<>> /\ Report(m.s, m.of, {}) /\ UNCHANGED dispatching
        \/ /\ m.calls # <<>>
           /\ dispatching' = [s |-> m.s, of |-> m.of, calls |-> m.calls, next |-> 1]
           /\ UNCHANGED <<completed, waiting>>
     /\ UNCHANGED <<pending, toolVars, asked, disturbed, cancels, supersedes, late>>

\* dispatch_tool_call, by registration.
DispatchToolCall ==
  LET call == dispatching.calls[dispatching.next]
  IN /\ dispatching # NoDispatch /\ dispatching.next <= Len(dispatching.calls)
     /\ dispatching' = [dispatching EXCEPT !.next = @ + 1]
     /\ \/ /\ call.kind = "builtin" /\ running' = running \cup {call}
           /\ UNCHANGED <<routed, box>>
        \/ /\ call.kind = "actor" /\ routed' = routed \cup {call}
           /\ UNCHANGED <<running, box>>
        \/ /\ call.kind = "refused" /\ box' = Append(box, Done(call))
           /\ UNCHANGED <<running, routed>>
     /\ UNCHANGED <<pending, aborted, turnVars, completed, late>>

CountsHandles(calls) ==                                               \* mutant
  Cardinality({n \in DOMAIN calls : calls[n].kind = "builtin"})

\* `remaining` is taken from the calls, not from the handles they returned.
Expected(calls) == Len(calls)

\* The batch is inserted once all its calls are out.  A batch that is still
\* pending is replaced, its tasks left running.
TrackBatch ==
  LET calls == dispatching.calls
  IN /\ dispatching # NoDispatch /\ dispatching.next > Len(calls)
     /\ pending' = [pending EXCEPT ![dispatching.s] =
          [of |-> dispatching.of, remaining |-> Expected(calls), results |-> {},
           handles |-> {calls[n] : n \in {n \in DOMAIN calls : calls[n].kind = "builtin"}}]]
     /\ dispatching' = NoDispatch
     /\ UNCHANGED <<box, toolVars, turnVars, completed, late>>

\* handle_cancel_tool_batch: the batch is forgotten, its tasks aborted.
HandleCancelToolBatch ==
  LET handles == pending[Head(box).s].handles
  IN /\ NextMsg("CancelToolBatch")
     /\ pending' = [pending EXCEPT ![Head(box).s] = NoBatch]
     /\ running' = running \ handles
     /\ aborted' = aborted \cup (handles \cap running)
     /\ UNCHANGED <<dispatching, routed, turnVars, completed, late>>

KeepsPending(s, results) ==                                           \* mutant
  pending' = [pending EXCEPT ![s].results = results]

\* pending.remove(session_id)
Forget(s, results) == pending' = [pending EXCEPT ![s] = NoBatch]

LateCompletion(batch) == batch.remaining = 0                          \* mutant

\* The result at hand brings `remaining` to zero.
IsLast(batch) == batch.remaining = 1

\* handle_tool_execution_completed: whatever batch is pending counts the result;
\* with none it is dropped.
HandleToolExecutionCompleted ==
  LET call == Head(box).call
      s == call.s
      batch == pending[s]
      results == batch.results \cup {call}
  IN /\ NextMsg("ToolExecutionCompleted")
     /\ \/ /\ batch = NoBatch
           /\ UNCHANGED <<pending, completed, waiting>>
        \/ /\ batch # NoBatch /\ ~IsLast(batch)
           /\ pending' = [pending EXCEPT ![s].remaining = @ - 1, ![s].results = results]
           /\ UNCHANGED <<completed, waiting>>
        \/ /\ batch # NoBatch /\ IsLast(batch)
           /\ Forget(s, results)
           /\ Report(s, batch.of, results)
     /\ UNCHANGED <<dispatching, toolVars, asked, disturbed, cancels, supersedes, late>>

-----------------------------------------------------------------------------
(* The tools.  A builtin answers whatever happens: its timeout and its panic *)
(* are results too.                                                          *)

BuiltinEnds(call) ==
  /\ call \in running
  /\ running' = running \ {call}
  /\ box' = Append(box, Done(call))
  /\ UNCHANGED <<pending, dispatching, aborted, routed, turnVars, completed, late>>

ActorAnswers(call) ==
  /\ call \in routed
  /\ routed' = routed \ {call}
  /\ box' = Append(box, Done(call))
  /\ UNCHANGED <<pending, dispatching, running, aborted, turnVars, completed, late>>

\* abort() takes effect where the task next yields: it may be past its publish.
AbortedEnds(call) ==
  /\ call \in aborted /\ late < MaxLate
  /\ late' = late + 1
  /\ aborted' = aborted \ {call}
  /\ box' = Append(box, Done(call))
  /\ UNCHANGED <<pending, dispatching, running, routed, turnVars, completed>>

-----------------------------------------------------------------------------
Turn == \E s \in Sessions : AskCancel(s) \/ \E kinds \in KindSeqs : Ask(s, kinds)
Orchestrator == HandleExecuteToolBatch \/ DispatchToolCall \/ TrackBatch
                \/ HandleCancelToolBatch \/ HandleToolExecutionCompleted

Next == \/ Turn \/ Orchestrator
        \/ \E call \in running : BuiltinEnds(call)
        \/ \E call \in routed : ActorAnswers(call)
        \/ \E call \in aborted : AbortedEnds(call)

Spec == Init /\ [][Next]_vars

\* The actor and the tools run: a builtin has a timeout, the tool actors answer
\* every request they take.  The turn owes nothing.
FairSpec == /\ Spec
            /\ WF_vars(Orchestrator)
            /\ WF_vars(\E call \in running : BuiltinEnds(call))
            /\ WF_vars(\E call \in routed : ActorAnswers(call))

-----------------------------------------------------------------------------
Msg == [type : {"ExecuteToolBatch"}, s : Sessions, of : 1..MaxBatches, calls : Seq(Call)]
       \cup [type : {"CancelToolBatch"}, s : Sessions]
       \cup [type : {"ToolExecutionCompleted"}, call : Call]

\* Every variable holds a value of its kind; a pending batch waits for at least
\* one result (`remaining` is unsigned and is decremented unchecked).
TypeOK ==
  /\ pending \in [Sessions -> PendingBatch]
  /\ \/ dispatching = NoDispatch
     \/ /\ dispatching.s \in Sessions /\ dispatching.of \in 1..MaxBatches
        /\ dispatching.calls \in Seq(Call) /\ dispatching.calls # <<>>
        /\ dispatching.next \in 1..(Len(dispatching.calls) + 1)
  /\ box \in Seq(Msg)
  /\ running \subseteq Call /\ aborted \subseteq Call /\ routed \subseteq Call
  /\ asked \in 0..MaxBatches /\ waiting \in [Sessions -> 0..MaxBatches]
  /\ completed \subseteq [s : Sessions, of : 1..MaxBatches, results : SUBSET Call]
  /\ disturbed \subseteq Sessions
  /\ cancels \in 0..MaxCancels /\ supersedes \in 0..MaxSupersedes /\ late \in 0..MaxLate

\* A batch's results are the results of its own calls, all of them, whatever
\* the other sessions' batches, cancels and stragglers do meanwhile: a session
\* that never cancelled or superseded a batch gets exactly what it asked for.
UndisturbedBatchIsExact ==
  \A c \in completed : c.s \notin disturbed =>
    /\ \A call \in c.results : call.s = c.s /\ call.of = c.of
    /\ \A d \in completed : d.s = c.s /\ d.of = c.of => d = c
    /\ \A call \in running \cup routed : call.s = c.s => call.of # c.of

\* However results, cancels and replaced batches interleave, no result is counted
\* for two batches, and none of another session is counted at all.
ResultCountedOnce ==
  /\ \A c, d \in completed : c # d => c.results \cap d.results = {}
  /\ \A c \in completed, s \in Sessions : c.results \cap pending[s].results = {}
  /\ \A s \in Sessions : \A call \in pending[s].results : call.s = s

\* A turn that waits for a batch stops waiting, answered or cancelled: whatever
\* the batch counts and loses on the way, its count reaches zero.
EveryBatchAnswered == \A s \in Sessions : waiting[s] # 0 ~> waiting[s] = 0

=============================================================================
