-------------------------- MODULE ToolBatchesProofs --------------------------
(* The safety of the orchestrator's counting, for any number of sessions,    *)
(* batches and calls: every result is counted at most once, and an           *)
(* undisturbed session's batch is answered with the results of its calls.    *)
EXTENDS ToolBatches, FiniteSetTheorems, TLAPS

\* The messages of a mailbox, without their order.
Mail(b) == {b[i] : i \in DOMAIN b}

IsBatch(m) == m.type = "ExecuteToolBatch"

\* Two messages for the same batch, or for the same call.
Alike(m, n) == /\ m.type = n.type
               /\ \/ IsBatch(m) /\ m.of = n.of
                  \/ m.type = "ToolExecutionCompleted" /\ m.call = n.call

Distinct(b) == \A i, j \in DOMAIN b : Alike(b[i], b[j]) => i = j

\* The calls a batch message carries are its own, numbered from one.
Shaped(s, of, calls) ==
  /\ Len(calls) <= MaxCalls
  /\ \A n \in DOMAIN calls : calls[n].s = s /\ calls[n].of = of /\ calls[n].n = n

\* Each batch is on its way once, and its calls are its own.
BatchesOnce ==
  /\ Distinct(box)
  /\ \A m \in Mail(box) : IsBatch(m) => Shaped(m.s, m.of, m.calls) /\ m.of <= asked
  /\ dispatching # NoDispatch =>
       /\ dispatching \in [s : Sessions, of : 1..MaxBatches, calls : Seq(Call), next : Nat]
       /\ Shaped(dispatching.s, dispatching.of, dispatching.calls)
       /\ dispatching.of <= asked
       /\ \A m \in Mail(box) : IsBatch(m) => m.of # dispatching.of
  /\ \A s \in Sessions : /\ waiting[s] <= asked
                         /\ \A x \in pending[s].handles : x.s = s

\* Where a call is.
Undispatched(x) ==
  \/ x.of > asked
  \/ \E m \in Mail(box) : IsBatch(m) /\ m.of = x.of
  \/ dispatching # NoDispatch /\ dispatching.of = x.of /\ dispatching.next <= x.n

Answered(x) == Done(x) \in Mail(box)

Counted(x) == \/ \E s \in Sessions : x \in pending[s].results
              \/ \E c \in completed : x \in c.results

OneOf(u, r, b, t, a, k) ==
  /\ u => ~r /\ ~b /\ ~t /\ ~a /\ ~k
  /\ r => ~b /\ ~t /\ ~a /\ ~k
  /\ b => ~t /\ ~a /\ ~k
  /\ t => ~a /\ ~k
  /\ a => ~k

\* A call waits for its dispatch, runs, was aborted, is with an actor, is answered or
\* was counted.
CallsOnce ==
  \A x \in Call : OneOf(Undispatched(x), x \in running, x \in aborted, x \in routed,
                        Answered(x), Counted(x))

Outstanding(s) == {x \in Call : x.s = s /\ (x \in running \cup routed \/ Answered(x))}

\* A session that never cancelled or superseded a batch: what it waits for is queued,
\* being dispatched or pending, and everything of it that runs is of that batch.
NoCancel(s) == (\A x \in aborted : x.s # s) /\ Cancel(s) \notin Mail(box)

OneQueued(s) ==
  \A m \in Mail(box) : IsBatch(m) /\ m.s = s =>
    /\ m.of = waiting[s] /\ pending[s] = NoBatch /\ Outstanding(s) = {}
    /\ dispatching = NoDispatch \/ dispatching.s # s

OneDispatching(s) ==
  dispatching # NoDispatch /\ dispatching.s = s =>
    /\ dispatching.of = waiting[s] /\ pending[s] = NoBatch
    /\ Cardinality(Outstanding(s)) < dispatching.next

OnePending(s) ==
  pending[s] # NoBatch =>
    /\ pending[s].of = waiting[s]
    /\ \A x \in pending[s].results : x.of = waiting[s]
    /\ Cardinality(Outstanding(s)) <= pending[s].remaining

ReportedExactly(s) ==
  \A c \in completed : c.s = s =>
    /\ c.of <= asked /\ c.of # waiting[s]
    /\ \A x \in c.results : x.s = s /\ x.of = c.of
    /\ \A d \in completed : d.s = s /\ d.of = c.of => d = c

Steady(s) == /\ NoCancel(s)
             /\ IsFiniteSet(Outstanding(s))
             /\ \A x \in Outstanding(s) : x.of = waiting[s]
             /\ OneQueued(s) /\ OneDispatching(s) /\ OnePending(s) /\ ReportedExactly(s)

OneAtATime == \A s \in Sessions \ disturbed : Steady(s)

-----------------------------------------------------------------------------
(* Mailboxes. *)

LEMMA MailAppended ==
  ASSUME NEW S, NEW b \in Seq(S), NEW m \in S
  PROVE  /\ Mail(Append(b, m)) = Mail(b) \cup {m}
         /\ Distinct(b) /\ (\A n \in Mail(b) : ~Alike(n, m) /\ ~Alike(m, n))
              => Distinct(Append(b, m))
<1>1. /\ DOMAIN b = 1..Len(b) /\ Len(b) \in Nat
      /\ DOMAIN Append(b, m) = 1..(Len(b) + 1)
      /\ \A i \in 1..Len(b) : Append(b, m)[i] = b[i]
      /\ Append(b, m)[Len(b) + 1] = m
  OBVIOUS
<1>2. \A i \in 1..(Len(b) + 1) : i \in 1..Len(b) \/ i = Len(b) + 1
  BY <1>1
<1>3. Len(b) + 1 \in 1..(Len(b) + 1) /\ \A i \in 1..Len(b) : i \in 1..(Len(b) + 1)
  BY <1>1
<1>4. Mail(Append(b, m)) = Mail(b) \cup {m}
  BY <1>1, <1>2, <1>3 DEF Mail
<1>5. ASSUME Distinct(b), \A n \in Mail(b) : ~Alike(n, m) /\ ~Alike(m, n)
      PROVE  Distinct(Append(b, m))
  <2>1. \A i \in 1..Len(b) : ~Alike(b[i], m) /\ ~Alike(m, b[i])
    BY <1>1, <1>5 DEF Mail
  <2> QED
    BY <1>1, <1>2, <1>5, <2>1 DEF Distinct
<1> QED
  BY <1>4, <1>5

LEMMA MailTaken ==
  ASSUME NEW S, NEW b \in Seq(S), b # <<>>
  PROVE  /\ Head(b) \in Mail(b) /\ Head(b) \in S /\ Mail(b) \subseteq S
         /\ Mail(b) = Mail(Tail(b)) \cup {Head(b)}
         /\ Distinct(b) => /\ Distinct(Tail(b))
                           /\ \A n \in Mail(Tail(b)) : ~Alike(Head(b), n)
<1>1. /\ DOMAIN b = 1..Len(b) /\ Len(b) \in Nat /\ Len(b) > 0 /\ Head(b) = b[1]
      /\ DOMAIN Tail(b) = 1..(Len(b) - 1)
      /\ \A i \in 1..(Len(b) - 1) : Tail(b)[i] = b[i + 1] /\ i + 1 \in 1..Len(b)
      /\ \A i \in 1..Len(b) : b[i] \in S
  OBVIOUS
<1>2. 1 \in 1..Len(b) /\ \A i \in 1..Len(b) : i = 1 \/ i - 1 \in 1..(Len(b) - 1)
  BY <1>1
<1>3. \A i \in 1..Len(b) : i # 1 => b[i] = Tail(b)[i - 1]
  <2> SUFFICES ASSUME NEW i \in 1..Len(b), i # 1 PROVE b[i] = Tail(b)[i - 1]
    OBVIOUS
  <2>1. i - 1 \in 1..(Len(b) - 1) /\ (i - 1) + 1 = i
    BY <1>1
  <2> QED
    BY <1>1, <2>1
<1>4. /\ Head(b) \in Mail(b) /\ Head(b) \in S /\ Mail(b) \subseteq S
      /\ Mail(b) = Mail(Tail(b)) \cup {Head(b)}
  <2>1. Head(b) \in Mail(b) /\ Head(b) \in S /\ Mail(b) \subseteq S
    BY <1>1, <1>2 DEF Mail
  <2>2. Mail(Tail(b)) \subseteq Mail(b)
    BY <1>1 DEF Mail
  <2>3. \A i \in 1..Len(b) : b[i] \in Mail(Tail(b)) \cup {Head(b)}
    BY <1>1, <1>2, <1>3 DEF Mail
  <2>4. Mail(b) \subseteq Mail(Tail(b)) \cup {Head(b)}
    BY <1>1, <2>3 DEF Mail
  <2> QED
    BY <2>1, <2>2, <2>4
<1>5. ASSUME Distinct(b), NEW i \in DOMAIN Tail(b), NEW j \in DOMAIN Tail(b),
             Alike(Tail(b)[i], Tail(b)[j])
      PROVE  i = j
  <2>1. i + 1 \in DOMAIN b /\ j + 1 \in DOMAIN b /\ Alike(b[i + 1], b[j + 1])
    BY <1>1, <1>5
  <2>2. i + 1 = j + 1
    BY <1>5, <2>1 DEF Distinct
  <2> QED
    BY <1>1, <2>2
<1>6. ASSUME Distinct(b), NEW n \in Mail(Tail(b)), Alike(Head(b), n)
      PROVE  FALSE
  <2>1. PICK i \in DOMAIN Tail(b) : n = Tail(b)[i]
    BY DEF Mail
  <2>2. i + 1 \in DOMAIN b /\ 1 \in DOMAIN b /\ Alike(b[1], b[i + 1])
    BY <1>1, <1>2, <1>6, <2>1
  <2>3. 1 = i + 1
    BY <1>6, <2>2 DEF Distinct
  <2> QED
    BY <1>1, <2>3
<1> QED
  BY <1>4, <1>5, <1>6 DEF Distinct

LEMMA MessageFields ==
  ASSUME NEW m \in Msg
  PROVE  /\ IsBatch(m) => /\ m.s \in Sessions /\ m.of \in 1..MaxBatches
                          /\ m.calls \in Seq(Call)
         /\ m.type = "CancelToolBatch" => m.s \in Sessions /\ m = Cancel(m.s)
         /\ m.type = "ToolExecutionCompleted" => m.call \in Call /\ m = Done(m.call)
BY DEF Msg, IsBatch, Cancel, Done

LEMMA MessageKinds ==
  /\ \A s \in Sessions : Cancel(s) \in Msg /\ ~IsBatch(Cancel(s))
  /\ \A x \in Call : /\ Done(x) \in Msg /\ ~IsBatch(Done(x))
                     /\ \A s : Done(x) # Cancel(s)
  /\ \A x, y : Done(x) = Done(y) => x = y
  /\ \A s \in Sessions, of \in 1..MaxBatches, calls \in Seq(Call) :
       /\ Execute(s, of, calls) \in Msg /\ IsBatch(Execute(s, of, calls))
       /\ \A t : Execute(s, of, calls) # Cancel(t)
       /\ \A x : Execute(s, of, calls) # Done(x)
       /\ Execute(s, of, calls).s = s /\ Execute(s, of, calls).of = of
       /\ Execute(s, of, calls).calls = calls
<1>1. \A s \in Sessions : Cancel(s) \in Msg /\ ~IsBatch(Cancel(s))
  BY DEF Msg, IsBatch, Cancel
<1>2. \A x : ~IsBatch(Done(x)) /\ \A s : Done(x) # Cancel(s)
  <2> TAKE x
  <2>1. Done(x).type = "ToolExecutionCompleted" /\ \A s : Cancel(s).type = "CancelToolBatch"
    BY DEF Cancel, Done
  <2> QED
    BY <2>1 DEF IsBatch
<1>3. \A x \in Call : Done(x) \in Msg
  BY DEF Msg, Done
<1>4. \A x, y : Done(x) = Done(y) => x = y
  <2> TAKE x, y
  <2>1. Done(x).call = x /\ Done(y).call = y
    BY DEF Done
  <2> QED
    BY <2>1
<1>5. ASSUME NEW s \in Sessions, NEW of \in 1..MaxBatches, NEW calls \in Seq(Call)
      PROVE  /\ Execute(s, of, calls) \in Msg /\ IsBatch(Execute(s, of, calls))
             /\ \A t : Execute(s, of, calls) # Cancel(t)
             /\ \A x : Execute(s, of, calls) # Done(x)
             /\ Execute(s, of, calls).s = s /\ Execute(s, of, calls).of = of
             /\ Execute(s, of, calls).calls = calls
  <2>1. /\ Execute(s, of, calls).type = "ExecuteToolBatch"
        /\ \A t : Cancel(t).type = "CancelToolBatch"
        /\ \A x : Done(x).type = "ToolExecutionCompleted"
    BY DEF Execute, Cancel, Done
  <2>2. Execute(s, of, calls) \in Msg
    BY DEF Msg, Execute
  <2> QED
    BY <2>1, <2>2 DEF IsBatch, Execute
<1> QED
  BY <1>1, <1>2, <1>3, <1>4, <1>5

LEMMA BatchCalls ==
  ASSUME NEW s \in Sessions, NEW of \in 1..MaxBatches, NEW kinds \in KindSeqs
  PROVE  Batch(s, of, kinds) \in Seq(Call) /\ Shaped(s, of, Batch(s, of, kinds))
<1>1. PICK n \in 0..MaxCalls : kinds \in [1..n -> Kinds]
  BY DEF KindSeqs
<1> DEFINE calls == Batch(s, of, kinds)
<1>2. n \in Nat /\ n <= MaxCalls /\ \A i \in 1..n : i \in 1..MaxCalls
  BY <1>1, BoundsAssumption
<1>3. calls = [i \in 1..n |-> [s |-> s, of |-> of, n |-> i, kind |-> kinds[i]]]
  BY <1>1 DEF Batch
<1>4. calls \in [1..n -> Call]
  BY <1>1, <1>2, <1>3 DEF Call
<1>5. calls \in Seq(Call) /\ Len(calls) = n
  BY <1>2, <1>4
<1>6. \A i \in DOMAIN calls : calls[i].s = s /\ calls[i].of = of /\ calls[i].n = i
  BY <1>3
<1> QED
  BY <1>2, <1>5, <1>6 DEF Shaped

\* What taking a message off the mailbox leaves there.
LEMMA Taken ==
  ASSUME TypeOK, NEW type, NextMsg(type)
  PROVE  /\ Head(box) \in Mail(box) /\ Head(box) \in Msg /\ Head(box).type = type
         /\ Mail(box) \subseteq Msg /\ box' \in Seq(Msg) /\ dispatching = NoDispatch
         /\ Mail(box) = Mail(box') \cup {Head(box)}
         /\ Distinct(box) => /\ Distinct(box')
                             /\ \A n \in Mail(box') : ~Alike(Head(box), n)
<1>1. box \in Seq(Msg) /\ box # <<>> /\ box' = Tail(box)
  BY DEF TypeOK, NextMsg
<1>2. box' \in Seq(Msg)
  BY <1>1
<1> QED
  BY <1>1, <1>2, MailTaken DEF NextMsg

\* What putting one there adds.
LEMMA Posted ==
  ASSUME TypeOK, NEW m \in Msg, box' = Append(box, m)
  PROVE  /\ box' \in Seq(Msg) /\ Mail(box) \subseteq Msg
         /\ Mail(box') = Mail(box) \cup {m}
         /\ Distinct(box) /\ (\A n \in Mail(box) : ~Alike(n, m) /\ ~Alike(m, n))
              => Distinct(box')
<1>1. box \in Seq(Msg)
  BY DEF TypeOK
<1>2. box' \in Seq(Msg) /\ Mail(box) \subseteq Msg
  BY <1>1 DEF Mail
<1> QED
  BY <1>1, <1>2, MailAppended

LEMMA PostedQuietly ==
  ASSUME TypeOK, BatchesOnce, NEW m \in Msg, ~IsBatch(m), box' = Append(box, m),
         m.type = "ToolExecutionCompleted" => ~Answered(m.call)
  PROVE  /\ box' \in Seq(Msg) /\ Distinct(box')
         /\ Mail(box') = Mail(box) \cup {m}
<1>1. \A n \in Mail(box) : ~Alike(n, m) /\ ~Alike(m, n)
  <2> SUFFICES ASSUME NEW n \in Mail(box), Alike(n, m) \/ Alike(m, n) PROVE FALSE
    OBVIOUS
  <2>1. /\ n.type = "ToolExecutionCompleted" /\ m.type = "ToolExecutionCompleted"
        /\ n.call = m.call
    BY DEF Alike, IsBatch
  <2>2. n \in Msg
    BY Posted
  <2>3. n = Done(m.call)
    BY <2>1, <2>2, MessageFields
  <2> QED
    BY <2>1, <2>3 DEF Answered
<1> QED
  BY <1>1, Posted DEF BatchesOnce

-----------------------------------------------------------------------------
(* Types, and each batch on its way once. *)

LEMMA ReportTypes ==
  ASSUME TypeOK, NEW s \in Sessions, NEW of \in 1..MaxBatches, NEW results \in SUBSET Call,
         Report(s, of, results)
  PROVE  /\ completed' \subseteq [s : Sessions, of : 1..MaxBatches, results : SUBSET Call]
         /\ waiting' \in [Sessions -> 0..MaxBatches]
         /\ \A t \in Sessions : waiting'[t] = IF t = s THEN 0 ELSE waiting[t]
<1>1. [s |-> s, of |-> of, results |-> results]
        \in [s : Sessions, of : 1..MaxBatches, results : SUBSET Call]
  OBVIOUS
<1>2. completed' \subseteq [s : Sessions, of : 1..MaxBatches, results : SUBSET Call]
  BY <1>1 DEF Report, TypeOK
<1> QED
  BY <1>2, BoundsAssumption DEF Report, TypeOK

LEMMA DispatchedCall ==
  ASSUME TypeOK, BatchesOnce, DispatchToolCall,
         NEW call, call = dispatching.calls[dispatching.next]
  PROVE  /\ call \in Call /\ call.s = dispatching.s /\ call.of = dispatching.of
         /\ call.n = dispatching.next
         /\ dispatching.s \in Sessions /\ dispatching.of \in 1..MaxBatches
         /\ dispatching.calls \in Seq(Call) /\ dispatching.calls # <<>>
         /\ dispatching.next \in 1..Len(dispatching.calls)
         /\ dispatching'.s = dispatching.s /\ dispatching'.of = dispatching.of
         /\ dispatching'.calls = dispatching.calls
         /\ dispatching'.next = dispatching.next + 1
         /\ dispatching # NoDispatch /\ dispatching' # NoDispatch
         /\ dispatching'
              \in [s : Sessions, of : 1..MaxBatches, calls : Seq(Call), next : Nat]
<1>1. /\ dispatching.s \in Sessions /\ dispatching.of \in 1..MaxBatches
      /\ dispatching.calls \in Seq(Call) /\ dispatching.calls # <<>>
      /\ dispatching.next \in 1..(Len(dispatching.calls) + 1)
      /\ dispatching.next <= Len(dispatching.calls)
      /\ dispatching # NoDispatch
  BY DEF TypeOK, DispatchToolCall
<1>2. dispatching.next \in 1..Len(dispatching.calls)
  BY <1>1
<1>3. /\ dispatching \in [s : Sessions, of : 1..MaxBatches, calls : Seq(Call), next : Nat]
      /\ Shaped(dispatching.s, dispatching.of, dispatching.calls)
  BY <1>1 DEF BatchesOnce
<1>4. call \in Call /\ call.s = dispatching.s /\ call.of = dispatching.of
      /\ call.n = dispatching.next
  BY <1>1, <1>2, <1>3 DEF Shaped
<1>5. dispatching' = [dispatching EXCEPT !.next = @ + 1]
  BY DEF DispatchToolCall
<1>6. /\ dispatching'.s = dispatching.s /\ dispatching'.of = dispatching.of
      /\ dispatching'.calls = dispatching.calls
      /\ dispatching'.next = dispatching.next + 1
      /\ dispatching' \in [s : Sessions, of : 1..MaxBatches, calls : Seq(Call), next : Nat]
  BY <1>3, <1>5
<1>7. dispatching' # NoDispatch
  BY <1>1, <1>6 DEF NoDispatch
<1> QED
  BY <1>1, <1>2, <1>4, <1>6, <1>7

\* The batch that TrackBatch has dispatched.
LEMMA TrackedBatch ==
  ASSUME TypeOK, BatchesOnce, TrackBatch
  PROVE  /\ dispatching.s \in Sessions /\ dispatching.of \in 1..MaxBatches
         /\ dispatching # NoDispatch /\ dispatching.next = Len(dispatching.calls) + 1
         /\ \A s \in Sessions : s # dispatching.s => pending'[s] = pending[s]
         /\ LET batch == pending'[dispatching.s]
            IN /\ batch \in PendingBatch /\ batch # NoBatch
               /\ batch.of = dispatching.of /\ batch.remaining = Len(dispatching.calls)
               /\ batch.results = {}
               /\ \A x \in batch.handles : x.s = dispatching.s
         /\ pending' \in [Sessions -> PendingBatch]
<1> DEFINE calls == dispatching.calls
           handles == {calls[n] : n \in {n \in DOMAIN calls : calls[n].kind = "builtin"}}
           batch == [of |-> dispatching.of, remaining |-> Len(calls), results |-> {},
                     handles |-> handles]
<1>1. /\ dispatching.s \in Sessions /\ dispatching.of \in 1..MaxBatches
      /\ calls \in Seq(Call) /\ calls # <<>>
      /\ dispatching.next \in 1..(Len(calls) + 1) /\ dispatching.next > Len(calls)
      /\ dispatching # NoDispatch
  BY DEF TypeOK, TrackBatch
<1>2. Len(calls) \in Nat /\ Len(calls) # 0 /\ DOMAIN calls = 1..Len(calls)
  BY <1>1
<1>3. Len(calls) <= MaxCalls /\ \A n \in DOMAIN calls : calls[n].s = dispatching.s
  BY <1>1 DEF BatchesOnce, Shaped
<1>4. handles \subseteq Call /\ \A x \in handles : x.s = dispatching.s
  BY <1>1, <1>3
<1>5. Len(calls) \in 1..MaxCalls
  BY <1>2, <1>3, BoundsAssumption
<1>6. batch \in PendingBatch
  <2> HIDE DEF calls, handles
  <2> QED
    BY <1>1, <1>4, <1>5 DEF PendingBatch
<1>7. batch # NoBatch
  BY <1>1 DEF NoBatch
<1>8. pending' = [pending EXCEPT ![dispatching.s] = batch]
  BY DEF TrackBatch, Expected
<1>9. pending \in [Sessions -> PendingBatch]
  BY DEF TypeOK
<1>10. /\ batch.of = dispatching.of /\ batch.remaining = Len(calls)
       /\ batch.results = {} /\ batch.handles = handles
  OBVIOUS
<1>11. dispatching.next = Len(calls) + 1
  BY <1>1, <1>2
<1> HIDE DEF batch, handles
<1> QED
  BY <1>1, <1>4, <1>6, <1>7, <1>8, <1>9, <1>10, <1>11

\* A result that is not the last of its batch.
LEMMA CountedResult ==
  ASSUME TypeOK, NEW call \in Call, pending[call.s] # NoBatch, ~IsLast(pending[call.s]),
         pending' = [pending EXCEPT ![call.s].remaining = @ - 1,
                                    ![call.s].results = pending[call.s].results \cup {call}]
  PROVE  /\ pending' \in [Sessions -> PendingBatch]
         /\ \A s \in Sessions : s # call.s => pending'[s] = pending[s]
         /\ LET batch == pending'[call.s]
            IN /\ batch # NoBatch /\ batch.of = pending[call.s].of
               /\ batch.remaining = pending[call.s].remaining - 1
               /\ batch.results = pending[call.s].results \cup {call}
               /\ batch.handles = pending[call.s].handles
<1> DEFINE s == call.s
           old == pending[s]
           new == [of |-> old.of, remaining |-> old.remaining - 1,
                   results |-> old.results \cup {call}, handles |-> old.handles]
<1>1. s \in Sessions
  BY DEF Call
<1>2. pending \in [Sessions -> PendingBatch]
  BY DEF TypeOK
<1>3. old \in [of : 1..MaxBatches, remaining : 1..MaxCalls, results : SUBSET Call,
               handles : SUBSET Call]
  BY <1>1, <1>2 DEF PendingBatch
<1>4. old.remaining # 1
  BY DEF IsLast
<1>5. pending' = [pending EXCEPT ![s] = [[old EXCEPT !.remaining = @ - 1]
                                           EXCEPT !.results = old.results \cup {call}]]
  <2> HIDE DEF old
  <2>1. pending' = [pending EXCEPT ![s].remaining = @ - 1, ![s].results = old.results \cup {call}]
    BY DEF old
  <2> QED
    BY <1>1, <1>2, <2>1 DEF old
<1>6. [[old EXCEPT !.remaining = @ - 1] EXCEPT !.results = old.results \cup {call}] = new
  <2> DEFINE one == [old EXCEPT !.remaining = @ - 1]
  <2>1. one = [of |-> old.of, remaining |-> old.remaining - 1, results |-> old.results,
               handles |-> old.handles]
    <3> HIDE DEF old
    <3> QED
      BY <1>3
  <2>2. [one EXCEPT !.results = old.results \cup {call}]
          = [of |-> one.of, remaining |-> one.remaining,
             results |-> old.results \cup {call}, handles |-> one.handles]
    <3> HIDE DEF old, one
    <3> QED
      BY <2>1
  <2> QED
    BY <2>1, <2>2
<1>7. old.remaining - 1 \in 1..MaxCalls
  BY <1>3, <1>4, BoundsAssumption
<1>8. new \in PendingBatch /\ new # NoBatch
  <2>1. /\ old.of \in 1..MaxBatches /\ old.results \cup {call} \in SUBSET Call
        /\ old.handles \in SUBSET Call
    BY <1>3
  <2>2. old.of # 0
    BY <2>1
  <2> HIDE DEF old
  <2> QED
    BY <1>7, <2>1, <2>2 DEF PendingBatch, NoBatch
<1>9. pending' = [pending EXCEPT ![s] = new]
  BY <1>5, <1>6
<1>10. /\ new.of = old.of /\ new.remaining = old.remaining - 1
       /\ new.results = old.results \cup {call} /\ new.handles = old.handles
  OBVIOUS
<1> HIDE DEF new
<1> QED
  BY <1>1, <1>2, <1>8, <1>9, <1>10

LEMMA TypeStep == TypeOK /\ BatchesOnce /\ [Next]_vars => TypeOK'
<1> SUFFICES ASSUME TypeOK, BatchesOnce, [Next]_vars PROVE TypeOK'
  OBVIOUS
<1> USE DEF toolVars, turnVars
<1>1. ASSUME NEW s \in Sessions, NEW kinds \in KindSeqs, Ask(s, kinds)
      PROVE  TypeOK'
  <2>1. asked + 1 \in 1..MaxBatches
    BY <1>1, BoundsAssumption DEF Ask, TypeOK
  <2>2. Execute(s, asked + 1, Batch(s, asked + 1, kinds)) \in Msg
    BY <2>1, BatchCalls, MessageKinds
  <2>3. box' \in Seq(Msg)
    BY <1>1, <2>2 DEF Ask, TypeOK
  <2>4. supersedes' \in 0..MaxSupersedes /\ disturbed' \subseteq Sessions
    BY <1>1, BoundsAssumption DEF Ask, TypeOK
  <2>5. waiting' \in [Sessions -> 0..MaxBatches] /\ asked' \in 0..MaxBatches
    BY <1>1, <2>1, BoundsAssumption DEF Ask, TypeOK
  <2> QED
    BY <1>1, <2>3, <2>4, <2>5 DEF Ask, TypeOK
<1>2. ASSUME NEW s \in Sessions, AskCancel(s)
      PROVE  TypeOK'
  <2>1. box' \in Seq(Msg)
    BY <1>2, MessageKinds DEF AskCancel, TypeOK
  <2>2. cancels' \in 0..MaxCancels
    BY <1>2, BoundsAssumption DEF AskCancel, TypeOK
  <2>3. waiting' \in [Sessions -> 0..MaxBatches] /\ disturbed' \subseteq Sessions
    BY <1>2, BoundsAssumption DEF AskCancel, TypeOK
  <2> QED
    BY <1>2, <2>1, <2>2, <2>3 DEF AskCancel, TypeOK
<1>3. CASE HandleExecuteToolBatch
  <2> DEFINE m == Head(box)
  <2>1. m \in Mail(box) /\ m \in Msg /\ IsBatch(m) /\ box' \in Seq(Msg)
    BY <1>3, Taken DEF HandleExecuteToolBatch, IsBatch
  <2>2. m.s \in Sessions /\ m.of \in 1..MaxBatches /\ m.calls \in Seq(Call)
    BY <2>1, MessageFields
  <2>3. CASE Report(m.s, m.of, {}) /\ UNCHANGED dispatching
    <3>1. /\ completed' \subseteq [s : Sessions, of : 1..MaxBatches, results : SUBSET Call]
          /\ waiting' \in [Sessions -> 0..MaxBatches]
      BY <2>2, <2>3, ReportTypes
    <3> QED
      BY <1>3, <2>1, <2>3, <3>1 DEF HandleExecuteToolBatch, TypeOK
  <2>4. CASE /\ m.calls # <<>> /\ UNCHANGED <<completed, waiting>>
             /\ dispatching' = [s |-> m.s, of |-> m.of, calls |-> m.calls, next |-> 1]
    <3>1. 1 \in 1..(Len(m.calls) + 1)
      BY <2>2
    <3>2. /\ dispatching'.s = m.s /\ dispatching'.of = m.of /\ dispatching'.calls = m.calls
          /\ dispatching'.next = 1
      BY <2>4
    <3> HIDE DEF m
    <3> QED
      BY <1>3, <2>1, <2>2, <2>4, <3>1, <3>2 DEF HandleExecuteToolBatch, TypeOK
  <2> QED
    BY <1>3, <2>3, <2>4 DEF HandleExecuteToolBatch
<1>4. CASE DispatchToolCall
  <2> DEFINE call == dispatching.calls[dispatching.next]
  <2>1. /\ call \in Call /\ dispatching'.s \in Sessions /\ dispatching'.of \in 1..MaxBatches
        /\ dispatching'.calls \in Seq(Call) /\ dispatching'.calls # <<>>
        /\ dispatching.next \in 1..Len(dispatching.calls)
        /\ dispatching'.calls = dispatching.calls
        /\ dispatching'.next = dispatching.next + 1
    BY <1>4, DispatchedCall
  <2>2. dispatching'.next \in 1..(Len(dispatching'.calls) + 1)
    BY <2>1
  <2>3. /\ running' \subseteq Call /\ routed' \subseteq Call /\ box' \in Seq(Msg)
    <3>1. Done(call) \in Msg
      BY <2>1, MessageKinds
    <3>2. /\ running' = running \/ running' = running \cup {call}
          /\ routed' = routed \/ routed' = routed \cup {call}
          /\ box' = box \/ box' = Append(box, Done(call))
      BY <1>4 DEF DispatchToolCall
    <3>3. call \in Call
      BY <2>1
    <3> HIDE DEF call
    <3>4. running' \subseteq Call /\ routed' \subseteq Call
      BY <3>2, <3>3 DEF TypeOK
    <3>5. box' \in Seq(Msg)
      BY <3>1, <3>2, Posted DEF TypeOK
    <3> QED
      BY <3>4, <3>5
  <2> HIDE DEF call
  <2> QED
    BY <1>4, <2>1, <2>2, <2>3 DEF DispatchToolCall, TypeOK
<1>5. CASE TrackBatch
  BY <1>5, TrackedBatch DEF TrackBatch, TypeOK
<1>6. CASE HandleCancelToolBatch
  <2>1. Head(box) \in Msg /\ Head(box).type = "CancelToolBatch" /\ box' \in Seq(Msg)
    BY <1>6, Taken DEF HandleCancelToolBatch
  <2>2. Head(box).s \in Sessions
    BY <2>1, MessageFields
  <2>3. pending' \in [Sessions -> PendingBatch]
    BY <1>6 DEF HandleCancelToolBatch, TypeOK, PendingBatch
  <2>4. running' \subseteq Call /\ aborted' \subseteq Call
    BY <1>6 DEF HandleCancelToolBatch, TypeOK
  <2> QED
    BY <1>6, <2>1, <2>3, <2>4 DEF HandleCancelToolBatch, TypeOK
<1>7. CASE HandleToolExecutionCompleted
  <2> DEFINE call == Head(box).call
             batch == pending[call.s]
             results == batch.results \cup {call}
  <2>1. call \in Call /\ box' \in Seq(Msg)
    BY <1>7, Taken, MessageFields DEF HandleToolExecutionCompleted
  <2>2. call.s \in Sessions /\ batch \in PendingBatch
    BY <2>1 DEF TypeOK, Call
  <2>3. CASE UNCHANGED <<pending, completed, waiting>>
    BY <1>7, <2>1, <2>3 DEF HandleToolExecutionCompleted, TypeOK
  <2>4. CASE /\ batch # NoBatch /\ ~IsLast(batch) /\ UNCHANGED <<completed, waiting>>
             /\ pending' = [pending EXCEPT ![call.s].remaining = @ - 1,
                                           ![call.s].results = results]
    <3>1. pending' \in [Sessions -> PendingBatch]
      BY <2>1, <2>4, CountedResult
    <3> QED
      BY <1>7, <2>1, <2>4, <3>1 DEF HandleToolExecutionCompleted, TypeOK
  <2>5. CASE batch # NoBatch /\ Forget(call.s, results) /\ Report(call.s, batch.of, results)
    <3>1. batch.of \in 1..MaxBatches /\ results \subseteq Call
      BY <2>1, <2>2, <2>5 DEF PendingBatch
    <3>2. /\ completed' \subseteq [s : Sessions, of : 1..MaxBatches, results : SUBSET Call]
          /\ waiting' \in [Sessions -> 0..MaxBatches]
      <4> HIDE DEF call, batch, results
      <4> QED
        BY <2>2, <2>5, <3>1, ReportTypes
    <3>3. pending' \in [Sessions -> PendingBatch]
      BY <2>5 DEF Forget, TypeOK, PendingBatch
    <3> QED
      BY <1>7, <2>1, <3>2, <3>3 DEF HandleToolExecutionCompleted, TypeOK
  <2> QED
    BY <1>7, <2>3, <2>4, <2>5 DEF HandleToolExecutionCompleted
<1>8. ASSUME NEW call \in running, BuiltinEnds(call) PROVE TypeOK'
  BY <1>8, MessageKinds DEF BuiltinEnds, TypeOK
<1>9. ASSUME NEW call \in routed, ActorAnswers(call) PROVE TypeOK'
  BY <1>9, MessageKinds DEF ActorAnswers, TypeOK
<1>10. ASSUME NEW call \in aborted, AbortedEnds(call) PROVE TypeOK'
  <2>1. late' \in 0..MaxLate
    BY <1>10, BoundsAssumption DEF AbortedEnds, TypeOK
  <2> QED
    BY <1>10, <2>1, MessageKinds DEF AbortedEnds, TypeOK
<1>11. CASE UNCHANGED vars
  BY <1>11 DEF vars, TypeOK
<1> QED
  BY <1>1, <1>2, <1>3, <1>4, <1>5, <1>6, <1>7, <1>8, <1>9, <1>10, <1>11
     DEF Next, Turn, Orchestrator

LEMMA BatchesKept ==
  ASSUME TypeOK, BatchesOnce, Distinct(box'), asked' = asked,
         \A m \in Mail(box') : IsBatch(m) => m \in Mail(box),
         dispatching' = dispatching \/ dispatching' = NoDispatch,
         \A s \in Sessions : waiting'[s] \in {waiting[s], 0},
         \A s \in Sessions : \A x \in pending'[s].handles : x.s = s
  PROVE  BatchesOnce'
<1>1. \A m \in Mail(box') : IsBatch(m) => Shaped(m.s, m.of, m.calls) /\ m.of <= asked'
  BY DEF BatchesOnce
<1>2. dispatching' # NoDispatch =>
        /\ dispatching'
             \in [s : Sessions, of : 1..MaxBatches, calls : Seq(Call), next : Nat]
        /\ Shaped(dispatching'.s, dispatching'.of, dispatching'.calls)
        /\ dispatching'.of <= asked'
        /\ \A m \in Mail(box') : IsBatch(m) => m.of # dispatching'.of
  BY DEF BatchesOnce
<1>3. \A s \in Sessions : waiting'[s] <= asked'
  <2>1. asked \in Nat /\ 0 <= asked
    BY BoundsAssumption DEF TypeOK
  <2>2. \A s \in Sessions : waiting[s] <= asked
    BY DEF BatchesOnce
  <2> QED
    BY <2>1, <2>2
<1> QED
  BY <1>1, <1>2, <1>3 DEF BatchesOnce

LEMMA BatchesStep == TypeOK /\ BatchesOnce /\ CallsOnce /\ [Next]_vars => BatchesOnce'
<1> SUFFICES ASSUME TypeOK, BatchesOnce, CallsOnce, [Next]_vars PROVE BatchesOnce'
  OBVIOUS
<1> USE DEF toolVars, turnVars
<1>h. \A s \in Sessions : \A x \in pending[s].handles : x.s = s
  BY DEF BatchesOnce
<1>1. ASSUME NEW s \in Sessions, NEW kinds \in KindSeqs, Ask(s, kinds)
      PROVE  BatchesOnce'
  <2> DEFINE of == asked + 1
             calls == Batch(s, of, kinds)
             m == Execute(s, of, calls)
  <2>1. of \in 1..MaxBatches /\ asked \in Nat /\ asked' = of
    BY <1>1, BoundsAssumption DEF Ask, TypeOK
  <2>2. calls \in Seq(Call) /\ Shaped(s, of, calls)
    BY <2>1, BatchCalls
  <2>3. m \in Msg /\ IsBatch(m) /\ m.s = s /\ m.of = of /\ m.calls = calls
    BY <2>1, <2>2, MessageKinds
  <2> HIDE DEF calls, m
  <2>4. box' = Append(box, m)
    BY <1>1 DEF Ask, m, calls
  <2>5. \A n \in Mail(box) : IsBatch(n) => n.of \in Nat /\ n.of < of /\ n.of <= asked'
    <3> SUFFICES ASSUME NEW n \in Mail(box), IsBatch(n)
                 PROVE  n.of \in Nat /\ n.of < of /\ n.of <= asked'
      OBVIOUS
    <3>1. n \in Msg
      BY <2>3, <2>4, Posted
    <3>2. n.of \in 1..MaxBatches /\ n.of <= asked
      BY <3>1, MessageFields DEF BatchesOnce
    <3> QED
      BY <2>1, <3>2
  <2>6. \A n \in Mail(box) : ~Alike(n, m) /\ ~Alike(m, n)
    BY <2>1, <2>3, <2>5 DEF Alike, IsBatch
  <2>7. Mail(box') = Mail(box) \cup {m} /\ Distinct(box')
    BY <2>3, <2>4, <2>6, Posted DEF BatchesOnce
  <2>8. \A n \in Mail(box') : IsBatch(n) => Shaped(n.s, n.of, n.calls) /\ n.of <= asked'
    BY <2>1, <2>2, <2>3, <2>5, <2>7 DEF BatchesOnce
  <2>9. dispatching' = dispatching /\ pending' = pending
        /\ waiting' = [waiting EXCEPT ![s] = of]
    BY <1>1 DEF Ask
  <2>10. dispatching # NoDispatch => dispatching.of <= asked' /\ dispatching.of # of
    <3>1. dispatching # NoDispatch => dispatching.of \in 1..MaxBatches /\ dispatching.of <= asked
      BY DEF BatchesOnce, TypeOK
    <3> QED
      BY <2>1, <3>1
  <2>11. dispatching' # NoDispatch =>
           \A n \in Mail(box') : IsBatch(n) => n.of # dispatching'.of
    BY <2>3, <2>7, <2>9, <2>10 DEF BatchesOnce
  <2>12. \A t \in Sessions : waiting'[t] <= asked'
    <3>1. \A t \in Sessions : waiting'[t] = of \/ (waiting'[t] = waiting[t] /\ waiting[t] \in Nat)
      BY <2>9, BoundsAssumption DEF TypeOK
    <3> QED
      BY <2>1, <3>1 DEF BatchesOnce
  <2> QED
    BY <2>7, <2>8, <2>9, <2>10, <2>11, <2>12 DEF BatchesOnce
<1>2. ASSUME NEW s \in Sessions, AskCancel(s)
      PROVE  BatchesOnce'
  <2>1. Distinct(box') /\ Mail(box') = Mail(box) \cup {Cancel(s)} /\ ~IsBatch(Cancel(s))
    <3>1. Cancel(s) \in Msg /\ ~IsBatch(Cancel(s)) /\ Cancel(s).type = "CancelToolBatch"
      BY MessageKinds DEF Cancel
    <3> QED
      BY <1>2, <3>1, PostedQuietly DEF AskCancel
  <2>2. \A t \in Sessions : waiting'[t] \in {waiting[t], 0}
    BY <1>2 DEF AskCancel, TypeOK
  <2> QED
    BY <1>2, <1>h, <2>1, <2>2, BatchesKept DEF AskCancel
<1>3. CASE HandleExecuteToolBatch
  <2> DEFINE m == Head(box)
  <2>1. /\ m \in Mail(box) /\ m \in Msg /\ IsBatch(m) /\ Distinct(box')
        /\ Mail(box) = Mail(box') \cup {m} /\ \A n \in Mail(box') : ~Alike(m, n)
    BY <1>3, Taken DEF HandleExecuteToolBatch, IsBatch, BatchesOnce
  <2>2. m.s \in Sessions /\ m.of \in 1..MaxBatches /\ m.calls \in Seq(Call)
    BY <2>1, MessageFields
  <2>3. CASE Report(m.s, m.of, {}) /\ UNCHANGED dispatching
    <3>1. \A t \in Sessions : waiting'[t] \in {waiting[t], 0}
      BY <2>3 DEF Report, TypeOK
    <3> QED
      BY <1>3, <1>h, <2>1, <2>3, <3>1, BatchesKept DEF HandleExecuteToolBatch
  <2>4. CASE /\ m.calls # <<>> /\ UNCHANGED <<completed, waiting>>
             /\ dispatching' = [s |-> m.s, of |-> m.of, calls |-> m.calls, next |-> 1]
    <3>1. /\ dispatching'.s = m.s /\ dispatching'.of = m.of /\ dispatching'.calls = m.calls
          /\ dispatching'
               \in [s : Sessions, of : 1..MaxBatches, calls : Seq(Call), next : Nat]
      BY <2>2, <2>4
    <3>2. Shaped(m.s, m.of, m.calls) /\ m.of <= asked
      BY <2>1 DEF BatchesOnce
    <3>3. \A n \in Mail(box') : IsBatch(n) => n.of # m.of
      BY <2>1 DEF Alike, IsBatch
    <3>4. UNCHANGED <<pending, asked, waiting>>
      BY <1>3, <2>4 DEF HandleExecuteToolBatch
    <3> HIDE DEF m
    <3> QED
      BY <2>1, <3>1, <3>2, <3>3, <3>4 DEF BatchesOnce
  <2> QED
    BY <1>3, <2>3, <2>4 DEF HandleExecuteToolBatch
<1>4. CASE DispatchToolCall
  <2> DEFINE call == dispatching.calls[dispatching.next]
  <2>1. /\ call \in Call /\ call.of = dispatching.of /\ call.n = dispatching.next
        /\ dispatching'.s = dispatching.s /\ dispatching'.of = dispatching.of
        /\ dispatching'.calls = dispatching.calls
        /\ dispatching # NoDispatch
        /\ dispatching'
             \in [s : Sessions, of : 1..MaxBatches, calls : Seq(Call), next : Nat]
        /\ dispatching.next \in Nat
    BY <1>4, DispatchedCall
  <2>2. Undispatched(call)
    BY <2>1 DEF Undispatched
  <2>3. ~Answered(call)
    BY <2>1, <2>2 DEF CallsOnce, OneOf
  <2>4. /\ Distinct(box')
        /\ \A n \in Mail(box') : IsBatch(n) => n \in Mail(box)
    <3>1. CASE box' = box
      BY <3>1 DEF BatchesOnce
    <3>2. CASE box' = Append(box, Done(call))
      <4>1. Done(call) \in Msg /\ ~IsBatch(Done(call)) /\ Done(call).call = call
        BY <2>1, MessageKinds DEF Done
      <4> HIDE DEF call
      <4> QED
        BY <2>3, <3>2, <4>1, PostedQuietly
    <3> QED
      BY <1>4, <3>1, <3>2 DEF DispatchToolCall
  <2>5. UNCHANGED <<pending, asked, waiting>>
    BY <1>4 DEF DispatchToolCall
  <2> QED
    BY <2>1, <2>4, <2>5 DEF BatchesOnce
<1>5. CASE TrackBatch
  <2>1. \A s \in Sessions : \A x \in pending'[s].handles : x.s = s
    BY <1>5, <1>h, TrackedBatch
  <2> QED
    BY <1>5, <2>1, BatchesKept DEF TrackBatch, BatchesOnce
<1>6. CASE HandleCancelToolBatch
  <2>1. Distinct(box') /\ Mail(box') \subseteq Mail(box)
    BY <1>6, Taken DEF HandleCancelToolBatch, BatchesOnce
  <2>2. \A s \in Sessions : \A x \in pending'[s].handles : x.s = s
    BY <1>6, <1>h DEF HandleCancelToolBatch, TypeOK, NoBatch
  <2> QED
    BY <1>6, <2>1, <2>2, BatchesKept DEF HandleCancelToolBatch
<1>7. CASE HandleToolExecutionCompleted
  <2> DEFINE call == Head(box).call
             batch == pending[call.s]
             results == batch.results \cup {call}
  <2>1. /\ call \in Call /\ Distinct(box') /\ Mail(box') \subseteq Mail(box)
    BY <1>7, Taken, MessageFields DEF HandleToolExecutionCompleted, BatchesOnce
  <2>2. call.s \in Sessions
    BY <2>1 DEF Call
  <2>3. CASE UNCHANGED <<pending, completed, waiting>>
    BY <1>7, <1>h, <2>1, <2>3, BatchesKept DEF HandleToolExecutionCompleted
  <2>4. CASE /\ batch # NoBatch /\ ~IsLast(batch) /\ UNCHANGED <<completed, waiting>>
             /\ pending' = [pending EXCEPT ![call.s].remaining = @ - 1,
                                           ![call.s].results = results]
    <3>1. \A s \in Sessions : pending'[s].handles = pending[s].handles
      BY <2>1, <2>2, <2>4, CountedResult
    <3> QED
      BY <1>7, <1>h, <2>1, <2>4, <3>1, BatchesKept DEF HandleToolExecutionCompleted
  <2>5. CASE Forget(call.s, results) /\ Report(call.s, batch.of, results)
    <3>1. \A s \in Sessions : \A x \in pending'[s].handles : x.s = s
      BY <1>h, <2>5 DEF Forget, TypeOK, NoBatch
    <3>2. \A t \in Sessions : waiting'[t] \in {waiting[t], 0}
      BY <2>5 DEF Report, TypeOK
    <3> QED
      BY <1>7, <2>1, <3>1, <3>2, BatchesKept DEF HandleToolExecutionCompleted
  <2> QED
    BY <1>7, <2>3, <2>4, <2>5 DEF HandleToolExecutionCompleted
<1>8. ASSUME NEW call \in Call, ~Answered(call), box' = Append(box, Done(call)),
             UNCHANGED <<pending, dispatching, asked, waiting>>
      PROVE  BatchesOnce'
  <2>1. Done(call) \in Msg /\ ~IsBatch(Done(call)) /\ Done(call).call = call
    BY MessageKinds DEF Done
  <2>2. Distinct(box') /\ Mail(box') = Mail(box) \cup {Done(call)}
    BY <1>8, <2>1, PostedQuietly
  <2> QED
    BY <1>8, <1>h, <2>1, <2>2, BatchesKept
<1>9. ASSUME NEW call \in running, BuiltinEnds(call) PROVE BatchesOnce'
  BY <1>8, <1>9 DEF BuiltinEnds, TypeOK, CallsOnce, OneOf
<1>10. ASSUME NEW call \in routed, ActorAnswers(call) PROVE BatchesOnce'
  BY <1>8, <1>10 DEF ActorAnswers, TypeOK, CallsOnce, OneOf
<1>11. ASSUME NEW call \in aborted, AbortedEnds(call) PROVE BatchesOnce'
  BY <1>8, <1>11 DEF AbortedEnds, TypeOK, CallsOnce, OneOf
<1>12. CASE UNCHANGED vars
  BY <1>12 DEF vars, BatchesOnce
<1> QED
  BY <1>1, <1>2, <1>3, <1>4, <1>5, <1>6, <1>7, <1>9, <1>10, <1>11, <1>12
     DEF Next, Turn, Orchestrator

-----------------------------------------------------------------------------
(* Each call in one place. *)

LEMMA StillUndispatched ==
  ASSUME asked' = asked, dispatching' = dispatching \/ dispatching' = NoDispatch,
         \A m \in Mail(box') : IsBatch(m) => m \in Mail(box),
         NEW x \in Call, Undispatched(x)'
  PROVE  Undispatched(x)
BY DEF Undispatched

LEMMA CallsStep == TypeOK /\ BatchesOnce /\ CallsOnce /\ [Next]_vars => CallsOnce'
<1> SUFFICES ASSUME TypeOK, BatchesOnce, CallsOnce, [Next]_vars, NEW x \in Call
             PROVE  OneOf(Undispatched(x), x \in running, x \in aborted, x \in routed,
                          Answered(x), Counted(x))'
  BY DEF CallsOnce
<1> DEFINE Goal == OneOf(Undispatched(x), x \in running, x \in aborted, x \in routed,
                         Answered(x), Counted(x))'
<1> USE DEF toolVars, turnVars
<1>o. OneOf(Undispatched(x), x \in running, x \in aborted, x \in routed,
            Answered(x), Counted(x))
  BY DEF CallsOnce
<1>1. ASSUME NEW s \in Sessions, NEW kinds \in KindSeqs, Ask(s, kinds)
      PROVE  Goal
  <2> DEFINE of == asked + 1
             calls == Batch(s, of, kinds)
             m == Execute(s, of, calls)
  <2>1. of \in 1..MaxBatches /\ asked \in Nat /\ asked' = of
    BY <1>1, BoundsAssumption DEF Ask, TypeOK
  <2>2. calls \in Seq(Call)
    BY <2>1, BatchCalls
  <2>3. m \in Msg /\ IsBatch(m) /\ m.of = of /\ m # Done(x)
    BY <2>1, <2>2, MessageKinds
  <2> HIDE DEF calls, m
  <2>4. box' = Append(box, m)
    BY <1>1 DEF Ask, m, calls
  <2>5. Mail(box') = Mail(box) \cup {m}
    BY <2>3, <2>4, Posted
  <2>6. x.of \in Nat
    BY BoundsAssumption DEF Call
  <2>7. Undispatched(x)' => Undispatched(x)
    BY <1>1, <2>1, <2>3, <2>5, <2>6 DEF Undispatched, Ask
  <2>8. Answered(x)' => Answered(x)
    BY <2>3, <2>5 DEF Answered
  <2>9. UNCHANGED <<running, aborted, routed, pending, completed>>
    BY <1>1 DEF Ask
  <2> QED
    BY <1>o, <2>7, <2>8, <2>9 DEF OneOf, Counted
<1>2. ASSUME NEW s \in Sessions, AskCancel(s)
      PROVE  Goal
  <2>1. Mail(box') = Mail(box) \cup {Cancel(s)} /\ ~IsBatch(Cancel(s)) /\ Done(x) # Cancel(s)
    BY <1>2, MessageKinds, Posted DEF AskCancel
  <2>2. Undispatched(x)' => Undispatched(x)
    BY <1>2, <2>1, StillUndispatched DEF AskCancel
  <2> QED
    BY <1>2, <1>o, <2>1, <2>2 DEF AskCancel, OneOf, Answered, Counted
<1>3. CASE HandleExecuteToolBatch
  <2> DEFINE m == Head(box)
  <2>1. /\ m \in Mail(box) /\ m \in Msg /\ IsBatch(m) /\ Mail(box') \subseteq Mail(box)
        /\ dispatching = NoDispatch
    BY <1>3, Taken DEF HandleExecuteToolBatch, IsBatch
  <2>2. asked' = asked /\ UNCHANGED <<running, aborted, routed, pending>>
    BY <1>3 DEF HandleExecuteToolBatch
  <2>3. CASE Report(m.s, m.of, {}) /\ UNCHANGED dispatching
    <3>1. Undispatched(x)' => Undispatched(x)
      BY <2>1, <2>2, <2>3, StillUndispatched
    <3>2. Counted(x)' => Counted(x)
      BY <2>2, <2>3 DEF Counted, Report
    <3> QED
      BY <1>o, <2>1, <2>2, <3>1, <3>2 DEF OneOf, Answered
  <2>4. CASE /\ m.calls # <<>> /\ UNCHANGED <<completed, waiting>>
             /\ dispatching' = [s |-> m.s, of |-> m.of, calls |-> m.calls, next |-> 1]
    <3>1. dispatching'.of = m.of
      BY <2>4
    <3>2. Undispatched(x)' => Undispatched(x)
      BY <2>1, <2>2, <3>1 DEF Undispatched
    <3> QED
      BY <1>o, <2>1, <2>2, <2>4, <3>2 DEF OneOf, Answered, Counted
  <2> QED
    BY <1>3, <2>3, <2>4 DEF HandleExecuteToolBatch
<1>4. CASE DispatchToolCall
  <2>0. PICK call \in Call : call = dispatching.calls[dispatching.next]
    BY <1>4, DispatchedCall
  <2>1. /\ call.of = dispatching.of /\ call.n = dispatching.next
        /\ dispatching'.of = dispatching.of
        /\ dispatching'.next = dispatching.next + 1
        /\ dispatching # NoDispatch /\ dispatching.next \in Nat
        /\ dispatching.of <= asked /\ dispatching.of \in Nat /\ asked \in Nat
        /\ \A n \in Mail(box) : IsBatch(n) => n.of # dispatching.of
    BY <1>4, <2>0, DispatchedCall, BoundsAssumption DEF BatchesOnce, TypeOK
  <2>2. Undispatched(call)
    BY <2>1 DEF Undispatched
  <2>3. UNCHANGED <<pending, asked, aborted, completed>>
    BY <1>4 DEF DispatchToolCall
  <2>4. /\ Done(call) \in Msg /\ ~IsBatch(Done(call))
        /\ Done(call) = Done(x) => x = call
    BY <2>1, MessageKinds
  <2>5. /\ running' = running \/ running' = running \cup {call}
        /\ routed' = routed \/ routed' = routed \cup {call}
        /\ box' = box \/ box' = Append(box, Done(call))
        /\ \/ UNCHANGED <<running, routed>> \/ UNCHANGED <<running, box>>
           \/ UNCHANGED <<routed, box>>
    BY <1>4, <2>0 DEF DispatchToolCall
  <2>6. Mail(box') \subseteq Mail(box) \cup {Done(call)}
    BY <2>4, <2>5, Posted
  <2>7. Undispatched(x)' => Undispatched(x)
    <3>1. \A n \in Mail(box') : IsBatch(n) => n \in Mail(box)
      BY <2>4, <2>6
    <3>2. x.n \in Nat
      BY BoundsAssumption DEF Call
    <3> QED
      BY <2>1, <2>3, <3>1, <3>2 DEF Undispatched
  <2>8. ~Undispatched(call)'
    <3>1. \A n \in Mail(box') : IsBatch(n) => n.of # call.of
      BY <2>1, <2>4, <2>6
    <3>2. ~(call.of > asked')
      BY <2>1, <2>3
    <3>3. ~(dispatching'.next <= call.n)
      BY <2>1
    <3> QED
      BY <3>1, <3>2, <3>3 DEF Undispatched
  <2>9. Counted(x)' <=> Counted(x)
    BY <2>3 DEF Counted
  <2>10. CASE x = call
    <3>1. /\ x \notin running /\ x \notin aborted /\ x \notin routed /\ ~Answered(x)
          /\ ~Counted(x)
      BY <1>o, <2>2, <2>10 DEF OneOf
    <3>2. CASE UNCHANGED <<running, routed>>
      BY <2>3, <2>8, <2>9, <2>10, <3>1, <3>2 DEF OneOf
    <3>3. CASE UNCHANGED <<running, box>>
      BY <2>3, <2>8, <2>9, <2>10, <3>1, <3>3 DEF OneOf, Answered
    <3>4. CASE UNCHANGED <<routed, box>>
      BY <2>3, <2>8, <2>9, <2>10, <3>1, <3>4 DEF OneOf, Answered
    <3> QED
      BY <2>5, <3>2, <3>3, <3>4
  <2>11. CASE x # call
    <3>1. Answered(x)' => Answered(x)
      BY <2>4, <2>6, <2>11 DEF Answered
    <3>2. /\ x \in running' <=> x \in running
          /\ x \in routed' <=> x \in routed
          /\ x \in aborted' <=> x \in aborted
      BY <2>3, <2>5, <2>11
    <3> QED
      BY <1>o, <2>7, <2>9, <3>1, <3>2 DEF OneOf
  <2> QED
    BY <2>10, <2>11
<1>5. CASE TrackBatch
  <2>1. Undispatched(x)' => Undispatched(x)
    BY <1>5, StillUndispatched DEF TrackBatch
  <2>2. Counted(x)' => Counted(x)
    BY <1>5, TrackedBatch DEF Counted, TrackBatch
  <2> QED
    BY <1>5, <1>o, <2>1, <2>2 DEF TrackBatch, OneOf, Answered
<1>6. CASE HandleCancelToolBatch
  <2>1. Mail(box') \subseteq Mail(box)
    BY <1>6, Taken DEF HandleCancelToolBatch
  <2>2. Undispatched(x)' => Undispatched(x)
    BY <1>6, <2>1, StillUndispatched DEF HandleCancelToolBatch
  <2>3. Counted(x)' => Counted(x)
    <3>1. \A s \in Sessions : pending'[s] = pending[s] \/ pending'[s].results = {}
      BY <1>6 DEF HandleCancelToolBatch, TypeOK, NoBatch
    <3> QED
      BY <1>6, <3>1 DEF Counted, HandleCancelToolBatch
  <2>4. /\ x \in running' => x \in running /\ x \notin pending[Head(box).s].handles
        /\ x \in aborted' => \/ x \in aborted
                             \/ x \in running /\ x \in pending[Head(box).s].handles
        /\ routed' = routed
    BY <1>6 DEF HandleCancelToolBatch
  <2> QED
    BY <1>o, <2>1, <2>2, <2>3, <2>4 DEF OneOf, Answered
<1>7. CASE HandleToolExecutionCompleted
  <2>0. PICK call \in Call : Head(box) = Done(call) /\ Head(box).call = call
    BY <1>7, Taken, MessageFields DEF HandleToolExecutionCompleted
  <2> DEFINE batch == pending[call.s]
             results == batch.results \cup {call}
  <2>1. /\ Head(box) = Done(call) /\ Head(box) \in Mail(box)
        /\ Mail(box') \subseteq Mail(box)
        /\ \A n \in Mail(box') : ~Alike(Head(box), n)
    BY <1>7, <2>0, Taken DEF HandleToolExecutionCompleted, BatchesOnce
  <2>2. call.s \in Sessions
    BY DEF Call
  <2>3. Answered(call) /\ ~Answered(call)'
    <3>1. Alike(Done(call), Done(call))
      BY DEF Alike, Done
    <3> QED
      BY <2>1, <3>1 DEF Answered
  <2>4. Undispatched(x)' => Undispatched(x)
    BY <1>7, <2>1, StillUndispatched DEF HandleToolExecutionCompleted
  <2>5. Counted(x)' => Counted(x) \/ x = call
    <3>1. CASE UNCHANGED <<pending, completed, waiting>>
      BY <3>1 DEF Counted
    <3>2. CASE /\ batch # NoBatch /\ ~IsLast(batch) /\ UNCHANGED <<completed, waiting>>
               /\ pending' = [pending EXCEPT ![call.s].remaining = @ - 1,
                                             ![call.s].results = results]
      <4>1. /\ \A s \in Sessions : s # call.s => pending'[s] = pending[s]
            /\ pending'[call.s].results = results
        BY <2>1, <3>2, CountedResult
      <4> QED
        BY <2>2, <3>2, <4>1 DEF Counted
    <3>3. CASE Forget(call.s, results) /\ Report(call.s, batch.of, results)
      <4>1. \A s \in Sessions : pending'[s] = pending[s] \/ pending'[s].results = {}
        BY <3>3 DEF Forget, TypeOK, NoBatch
      <4>2. \A c \in completed' : c \in completed \/ c.results = results
        BY <3>3 DEF Report
      <4> QED
        BY <2>2, <4>1, <4>2 DEF Counted
    <3> QED
      BY <1>7, <2>0, <3>1, <3>2, <3>3 DEF HandleToolExecutionCompleted
  <2>6. UNCHANGED <<running, aborted, routed>>
    BY <1>7 DEF HandleToolExecutionCompleted
  <2>7. CASE x = call
    BY <1>o, <2>3, <2>4, <2>6, <2>7 DEF OneOf
  <2>8. CASE x # call
    BY <1>o, <2>1, <2>4, <2>5, <2>6, <2>8 DEF OneOf, Answered
  <2> QED
    BY <2>7, <2>8
<1>8. ASSUME NEW call \in Call, box' = Append(box, Done(call)),
             UNCHANGED <<pending, dispatching, asked, completed>>,
             running' \subseteq running, aborted' \subseteq aborted, routed' \subseteq routed,
             call \in running \cup aborted \cup routed,
             call \notin running' \cup aborted' \cup routed'
      PROVE  Goal
  <2>1. Done(call) \in Msg /\ ~IsBatch(Done(call)) /\ (Done(call) = Done(x) => x = call)
    BY MessageKinds
  <2>2. Mail(box') = Mail(box) \cup {Done(call)}
    BY <1>8, <2>1, Posted
  <2>3. Undispatched(x)' => Undispatched(x)
    BY <1>8, <2>1, <2>2, StillUndispatched
  <2>4. Counted(x)' <=> Counted(x)
    BY <1>8 DEF Counted
  <2>5. CASE x = call
    BY <1>8, <1>o, <2>3, <2>4, <2>5 DEF OneOf
  <2>6. CASE x # call
    <3>1. Answered(x)' => Answered(x)
      BY <2>1, <2>2, <2>6 DEF Answered
    <3> QED
      BY <1>8, <1>o, <2>3, <2>4, <3>1 DEF OneOf
  <2> QED
    BY <2>5, <2>6
<1>9. ASSUME NEW call \in running, BuiltinEnds(call) PROVE Goal
  <2>1. call \in Call /\ call \notin aborted \cup routed
    BY DEF TypeOK, CallsOnce, OneOf
  <2> QED
    BY <1>8, <1>9, <2>1 DEF BuiltinEnds
<1>10. ASSUME NEW call \in routed, ActorAnswers(call) PROVE Goal
  <2>1. call \in Call /\ call \notin aborted \cup running
    BY DEF TypeOK, CallsOnce, OneOf
  <2> QED
    BY <1>8, <1>10, <2>1 DEF ActorAnswers
<1>11. ASSUME NEW call \in aborted, AbortedEnds(call) PROVE Goal
  <2>1. call \in Call /\ call \notin running \cup routed
    BY DEF TypeOK, CallsOnce, OneOf
  <2> QED
    BY <1>8, <1>11, <2>1 DEF AbortedEnds
<1>12. CASE UNCHANGED vars
  BY <1>12, <1>o DEF vars, Undispatched, Answered, Counted
<1> QED
  BY <1>1, <1>2, <1>3, <1>4, <1>5, <1>6, <1>7, <1>9, <1>10, <1>11, <1>12
     DEF Next, Turn, Orchestrator

-----------------------------------------------------------------------------
(* Results are counted once. *)

LEMMA CountsKept ==
  ASSUME ResultCountedOnce,
         \A s \in Sessions : pending'[s].results \subseteq pending[s].results,
         \A c \in completed' : c \in completed \/ c.results = {}
  PROVE  ResultCountedOnce'
<1>1. \A c, d \in completed' : c # d => c.results \cap d.results = {}
  BY DEF ResultCountedOnce
<1>2. \A c \in completed', s \in Sessions : c.results \cap pending'[s].results = {}
  BY DEF ResultCountedOnce
<1>3. \A s \in Sessions : \A call \in pending'[s].results : call.s = s
  BY DEF ResultCountedOnce
<1> QED
  BY <1>1, <1>2, <1>3 DEF ResultCountedOnce

LEMMA CountStep ==
  TypeOK /\ BatchesOnce /\ CallsOnce /\ ResultCountedOnce /\ [Next]_vars
    => ResultCountedOnce'
<1> SUFFICES ASSUME TypeOK, BatchesOnce, CallsOnce, ResultCountedOnce, [Next]_vars
             PROVE  ResultCountedOnce'
  OBVIOUS
<1>1. CASE UNCHANGED <<pending, completed>>
  BY <1>1, CountsKept
<1>2. CASE HandleExecuteToolBatch
  BY <1>2, CountsKept DEF HandleExecuteToolBatch, Report
<1>3. CASE TrackBatch
  <2>1. \A s \in Sessions : pending'[s].results \subseteq pending[s].results
    BY <1>3, TrackedBatch
  <2> QED
    BY <1>3, <2>1, CountsKept DEF TrackBatch
<1>4. CASE HandleCancelToolBatch
  <2>1. \A s \in Sessions : pending'[s] = pending[s] \/ pending'[s].results = {}
    BY <1>4 DEF HandleCancelToolBatch, TypeOK, NoBatch
  <2> QED
    BY <1>4, <2>1, CountsKept DEF HandleCancelToolBatch
<1>5. CASE HandleToolExecutionCompleted
  <2>0. PICK call \in Call : Head(box) = Done(call) /\ Head(box).call = call
    BY <1>5, Taken, MessageFields DEF HandleToolExecutionCompleted
  <2> DEFINE batch == pending[call.s]
             results == batch.results \cup {call}
  <2>1. call.s \in Sessions
    BY DEF Call
  <2>2. ~Counted(call)
    BY <1>5, <2>0, Taken DEF HandleToolExecutionCompleted, CallsOnce, OneOf, Answered
  <2>3. CASE UNCHANGED <<pending, completed, waiting>>
    BY <2>3, CountsKept
  <2>4. CASE /\ batch # NoBatch /\ ~IsLast(batch) /\ UNCHANGED <<completed, waiting>>
             /\ pending' = [pending EXCEPT ![call.s].remaining = @ - 1,
                                           ![call.s].results = results]
    <3>1. /\ \A s \in Sessions : s # call.s => pending'[s] = pending[s]
          /\ pending'[call.s].results = results
      BY <2>4, CountedResult
    <3>2. \A c \in completed, s \in Sessions : c.results \cap pending'[s].results = {}
      BY <2>1, <2>2, <3>1 DEF ResultCountedOnce, Counted
    <3>3. \A s \in Sessions : \A x \in pending'[s].results : x.s = s
      BY <2>1, <3>1 DEF ResultCountedOnce
    <3> HIDE DEF batch, results
    <3> QED
      BY <2>4, <3>2, <3>3 DEF ResultCountedOnce
  <2>5. CASE Forget(call.s, results) /\ Report(call.s, batch.of, results)
    <3> DEFINE new == [s |-> call.s, of |-> batch.of, results |-> results]
    <3>1. \A s \in Sessions : \/ s # call.s /\ pending'[s] = pending[s]
                              \/ pending'[s].results = {}
      BY <2>5 DEF Forget, TypeOK, NoBatch
    <3>2. completed' = completed \cup {new} /\ new.results = results
      BY <2>5 DEF Report
    <3>3. \A c \in completed : c.results \cap results = {}
      BY <2>1, <2>2 DEF ResultCountedOnce, Counted
    <3>4. \A x \in results : x.s = call.s
      BY <2>1 DEF ResultCountedOnce
    <3> HIDE DEF results, new
    <3>5. \A c, d \in completed' : c # d => c.results \cap d.results = {}
      BY <3>2, <3>3 DEF ResultCountedOnce
    <3>6. \A c \in completed', s \in Sessions : c.results \cap pending'[s].results = {}
      BY <3>1, <3>2, <3>4 DEF ResultCountedOnce
    <3>7. \A s \in Sessions : \A x \in pending'[s].results : x.s = s
      BY <3>1 DEF ResultCountedOnce
    <3> QED
      BY <3>5, <3>6, <3>7 DEF ResultCountedOnce
  <2> QED
    BY <1>5, <2>0, <2>3, <2>4, <2>5 DEF HandleToolExecutionCompleted
<1>6. CASE \/ Turn \/ DispatchToolCall \/ \E call \in running : BuiltinEnds(call)
           \/ \E call \in routed : ActorAnswers(call)
           \/ \E call \in aborted : AbortedEnds(call)
  BY <1>1, <1>6 DEF Turn, Ask, AskCancel, DispatchToolCall, BuiltinEnds, ActorAnswers,
                    AbortedEnds
<1> QED
  BY <1>1, <1>2, <1>3, <1>4, <1>5, <1>6 DEF Next, Orchestrator, vars

-----------------------------------------------------------------------------
(* An undisturbed session has one batch at a time. *)

LEMMA OutstandingKept ==
  ASSUME NEW s,
         \A x \in Call : x.s = s =>
           ((x \in running' \cup routed' \/ Answered(x)')
              <=> (x \in running \cup routed \/ Answered(x)))
  PROVE  Outstanding(s)' = Outstanding(s)
BY DEF Outstanding

\* What other sessions do does not touch a session's batch.
LEMMA SteadyKept ==
  ASSUME TypeOK, NEW s \in Sessions, Steady(s),
         Outstanding(s)' = Outstanding(s), pending'[s] = pending[s],
         waiting'[s] = waiting[s], asked' = asked \/ asked' = asked + 1,
         dispatching' = dispatching \/ dispatching' = NoDispatch \/ dispatching'.s # s,
         \A m \in Mail(box') : IsBatch(m) /\ m.s = s => m \in Mail(box),
         Cancel(s) \notin Mail(box'), \A x \in aborted' : x.s # s,
         \A c \in completed' : c.s = s => c \in completed
  PROVE  Steady(s)'
<1>1. NoCancel(s)'
  BY DEF NoCancel
<1>2. IsFiniteSet(Outstanding(s)') /\ \A x \in Outstanding(s)' : x.of = waiting'[s]
  BY DEF Steady
<1>3. OneQueued(s)'
  BY DEF Steady, OneQueued
<1>4. OneDispatching(s)'
  BY DEF Steady, OneDispatching
<1>5. OnePending(s)'
  BY DEF Steady, OnePending
<1>6. ReportedExactly(s)'
  <2> SUFFICES ASSUME NEW c \in completed', c.s = s
               PROVE  /\ c.of <= asked' /\ c.of # waiting'[s]
                      /\ \A x \in c.results : x.s = s /\ x.of = c.of
                      /\ \A d \in completed' : d.s = s /\ d.of = c.of => d = c
    BY DEF ReportedExactly
  <2>1. c \in completed
    OBVIOUS
  <2>2. c.of \in Nat /\ asked \in Nat
    BY <2>1, BoundsAssumption DEF TypeOK
  <2>3. c.of <= asked
    BY <2>1 DEF Steady, ReportedExactly
  <2> QED
    BY <2>1, <2>2, <2>3 DEF Steady, ReportedExactly
<1> QED
  BY <1>1, <1>2, <1>3, <1>4, <1>5, <1>6 DEF Steady

\* A session that waits for nothing has nothing under way.
LEMMA NothingUnderWay ==
  ASSUME TypeOK, NEW s \in Sessions, Steady(s), waiting[s] = 0
  PROVE  /\ Outstanding(s) = {} /\ pending[s] = NoBatch
         /\ dispatching = NoDispatch \/ dispatching.s # s
         /\ \A m \in Mail(box) : ~(IsBatch(m) /\ m.s = s)
<1>1. \A i : i \in 1..MaxBatches => i # 0
  BY BoundsAssumption
<1>2. \A x \in Outstanding(s) : x.of \in 1..MaxBatches
  BY DEF Outstanding, Call
<1>3. Outstanding(s) = {}
  BY <1>1, <1>2 DEF Steady
<1>4. pending[s] = NoBatch
  BY <1>1 DEF Steady, OnePending, TypeOK, PendingBatch
<1>5. dispatching = NoDispatch \/ dispatching.s # s
  BY <1>1 DEF Steady, OneDispatching, TypeOK
<1>6. \A m \in Mail(box) : IsBatch(m) => m.of \in 1..MaxBatches
  <2>1. Mail(box) \subseteq Msg
    BY DEF TypeOK, Mail
  <2> QED
    BY <2>1, MessageFields
<1>7. \A m \in Mail(box) : ~(IsBatch(m) /\ m.s = s)
  BY <1>1, <1>6 DEF Steady, OneQueued
<1> QED
  BY <1>3, <1>4, <1>5, <1>7

\* The session's report ends its wait, with nothing left under way.
LEMMA SteadyReported ==
  ASSUME TypeOK, NEW s \in Sessions, Steady(s), NEW of, NEW results, of = waiting[s],
         of \in 1..MaxBatches, of <= asked,
         Report(s, of, results), \A x \in results : x.s = s /\ x.of = of,
         Outstanding(s)' = {}, pending'[s] = NoBatch, asked' = asked,
         dispatching' = NoDispatch,
         \A m \in Mail(box') : ~(IsBatch(m) /\ m.s = s),
         Mail(box') \subseteq Mail(box), aborted' = aborted
  PROVE  Steady(s)'
<1> DEFINE new == [s |-> s, of |-> of, results |-> results]
<1>1. NoCancel(s)'
  BY DEF NoCancel, Steady
<1>2. IsFiniteSet(Outstanding(s)') /\ \A x \in Outstanding(s)' : x.of = waiting'[s]
  BY FS_EmptySet
<1>3. OneQueued(s)' /\ OneDispatching(s)' /\ OnePending(s)'
  BY DEF OneQueued, OneDispatching, OnePending
<1>4. /\ completed' = completed \cup {new} /\ waiting'[s] = 0
      /\ new.s = s /\ new.of = of /\ new.results = results
  BY DEF Report, TypeOK
<1>5. \A c \in completed : c.s = s => c.of # of /\ c.of \in 1..MaxBatches
  BY DEF Steady, ReportedExactly, TypeOK
<1>6. \A i : i \in 1..MaxBatches => i # 0
  BY BoundsAssumption
<1> HIDE DEF new
<1>7. ReportedExactly(s)'
  <2> SUFFICES ASSUME NEW c \in completed', c.s = s
               PROVE  /\ c.of <= asked' /\ c.of # waiting'[s]
                      /\ \A x \in c.results : x.s = s /\ x.of = c.of
                      /\ \A d \in completed' : d.s = s /\ d.of = c.of => d = c
    BY DEF ReportedExactly
  <2>1. CASE c = new
    BY <1>4, <1>5, <1>6, <2>1
  <2>2. CASE c # new
    BY <1>4, <1>5, <1>6, <2>2 DEF Steady, ReportedExactly
  <2> QED
    BY <2>1, <2>2
<1> QED
  BY <1>1, <1>2, <1>3, <1>7 DEF Steady

LEMMA SteadyAsk ==
  ASSUME TypeOK, BatchesOnce, OneAtATime, NEW t \in Sessions, NEW kinds \in KindSeqs,
         Ask(t, kinds), NEW s \in Sessions, s \notin disturbed'
  PROVE  Steady(s)'
<1> DEFINE of == asked + 1
           calls == Batch(t, of, kinds)
           m == Execute(t, of, calls)
<1>1. of \in 1..MaxBatches /\ asked \in Nat /\ asked' = of
  BY BoundsAssumption DEF Ask, TypeOK
<1>2. calls \in Seq(Call)
  BY <1>1, BatchCalls
<1>3. /\ m \in Msg /\ IsBatch(m) /\ m.s = t /\ m.of = of
      /\ m # Cancel(s) /\ \A x : m # Done(x)
  BY <1>1, <1>2, MessageKinds
<1>4. box' = Append(box, m)
  BY DEF Ask
<1> HIDE DEF calls, m
<1>5. Mail(box') = Mail(box) \cup {m}
  BY <1>3, <1>4, Posted
<1>6. UNCHANGED <<pending, dispatching, running, aborted, routed, completed>>
  BY DEF Ask, toolVars
<1>7. s \notin disturbed /\ Steady(s)
  BY DEF Ask, OneAtATime
<1>8. Outstanding(s)' = Outstanding(s)
  BY <1>3, <1>5, <1>6, OutstandingKept DEF Answered
<1>9. CASE s # t
  <2>1. waiting'[s] = waiting[s]
    BY <1>9 DEF Ask, TypeOK
  <2> QED
    BY <1>1, <1>3, <1>5, <1>6, <1>7, <1>8, <1>9, <2>1, SteadyKept
       DEF Steady, NoCancel
<1>10. CASE s = t
  <2>1. waiting[s] = 0 /\ waiting'[s] = of
    BY <1>10 DEF Ask, TypeOK
  <2>2. /\ Outstanding(s) = {} /\ pending[s] = NoBatch
        /\ dispatching = NoDispatch \/ dispatching.s # s
        /\ \A n \in Mail(box) : ~(IsBatch(n) /\ n.s = s)
    BY <1>7, <2>1, NothingUnderWay
  <2>3. NoCancel(s)'
    BY <1>3, <1>5, <1>6, <1>7 DEF Steady, NoCancel
  <2>4. IsFiniteSet(Outstanding(s)') /\ \A x \in Outstanding(s)' : x.of = waiting'[s]
    BY <1>8, <2>2, FS_EmptySet
  <2>5. OneQueued(s)'
    BY <1>3, <1>5, <1>6, <1>8, <1>10, <2>1, <2>2 DEF OneQueued
  <2>6. OneDispatching(s)' /\ OnePending(s)'
    BY <1>6, <2>2 DEF OneDispatching, OnePending
  <2>7. ReportedExactly(s)'
    <3>1. \A c \in completed : c.s = s => c.of <= asked /\ c.of \in 1..MaxBatches
      BY <1>7 DEF Steady, ReportedExactly, TypeOK
    <3>2. \A c \in completed : c.s = s => c.of <= of /\ c.of # of
      BY <1>1, <3>1
    <3> QED
      BY <1>1, <1>6, <1>7, <2>1, <3>2 DEF Steady, ReportedExactly
  <2> QED
    BY <2>3, <2>4, <2>5, <2>6, <2>7 DEF Steady
<1> QED
  BY <1>9, <1>10

LEMMA SteadyExecute ==
  ASSUME TypeOK, BatchesOnce, OneAtATime, HandleExecuteToolBatch,
         NEW s \in Sessions, s \notin disturbed'
  PROVE  Steady(s)'
<1> DEFINE m == Head(box)
<1>1. /\ m \in Mail(box) /\ m \in Msg /\ IsBatch(m) /\ dispatching = NoDispatch
      /\ Mail(box) = Mail(box') \cup {m} /\ \A n \in Mail(box') : ~Alike(m, n)
  BY Taken DEF HandleExecuteToolBatch, IsBatch, BatchesOnce
<1>2. m.s \in Sessions /\ m.of \in 1..MaxBatches /\ m.calls \in Seq(Call) /\ m.of <= asked
  BY <1>1, MessageFields DEF BatchesOnce
<1>3. UNCHANGED <<pending, asked, running, aborted, routed, disturbed>>
  BY DEF HandleExecuteToolBatch, toolVars
<1>4. Steady(s)
  BY <1>3 DEF OneAtATime
<1>5. Outstanding(s)' = Outstanding(s)
  <2>1. \A x \in Call : Done(x) # m
    BY <1>1, MessageKinds
  <2> QED
    BY <1>1, <1>3, <2>1, OutstandingKept DEF Answered
<1>6. CASE m.s # s
  <2>1. waiting'[s] = waiting[s]
    BY <1>2, <1>6 DEF HandleExecuteToolBatch, Report, TypeOK
  <2>2. \A c \in completed' : c.s = s => c \in completed
    BY <1>6 DEF HandleExecuteToolBatch, Report
  <2>3. dispatching' = dispatching \/ dispatching'.s = m.s
    BY DEF HandleExecuteToolBatch
  <2> QED
    BY <1>1, <1>3, <1>4, <1>5, <1>6, <2>1, <2>2, <2>3, SteadyKept DEF Steady, NoCancel
<1>7. CASE m.s = s
  <2>1. m.of = waiting[s] /\ pending[s] = NoBatch /\ Outstanding(s) = {}
    BY <1>1, <1>4, <1>7 DEF Steady, OneQueued
  <2>2. \A n \in Mail(box') : ~(IsBatch(n) /\ n.s = s)
    <3> SUFFICES ASSUME NEW n \in Mail(box'), IsBatch(n), n.s = s PROVE FALSE
      OBVIOUS
    <3>1. n \in Mail(box) /\ n.of = m.of
      BY <1>1, <1>4, <2>1 DEF Steady, OneQueued
    <3> QED
      BY <1>1, <3>1 DEF Alike, IsBatch
  <2>3. CASE Report(m.s, m.of, {}) /\ UNCHANGED dispatching
    <3> HIDE DEF m
    <3>1. Report(s, m.of, {})
      BY <1>7, <2>3
    <3> QED
      BY <1>1, <1>2, <1>3, <1>4, <1>5, <2>1, <2>2, <2>3, <3>1, SteadyReported
  <2>4. CASE /\ m.calls # <<>> /\ UNCHANGED <<completed, waiting>>
             /\ dispatching' = [s |-> m.s, of |-> m.of, calls |-> m.calls, next |-> 1]
    <3>1. dispatching'.s = s /\ dispatching'.of = m.of /\ dispatching'.next = 1
      BY <1>7, <2>4
    <3>2. NoCancel(s)'
      BY <1>1, <1>3, <1>4 DEF NoCancel, Steady
    <3>3. OneDispatching(s)' /\ IsFiniteSet(Outstanding(s)')
      <4>1. Cardinality(Outstanding(s)') = 0 /\ IsFiniteSet(Outstanding(s)')
        BY <1>5, <2>1, FS_EmptySet
      <4> QED
        BY <1>3, <2>1, <2>4, <3>1, <4>1 DEF OneDispatching
    <3>4. OneQueued(s)' /\ OnePending(s)'
      BY <1>3, <2>1, <2>2 DEF OneQueued, OnePending
    <3>5. ReportedExactly(s)'
      BY <1>3, <1>4, <2>4 DEF Steady, ReportedExactly
    <3> QED
      BY <1>5, <2>1, <3>2, <3>3, <3>4, <3>5 DEF Steady
  <2> QED
    BY <2>3, <2>4 DEF HandleExecuteToolBatch
<1> QED
  BY <1>6, <1>7

LEMMA SteadyDispatch ==
  ASSUME TypeOK, BatchesOnce, OneAtATime, DispatchToolCall,
         NEW s \in Sessions, s \notin disturbed'
  PROVE  Steady(s)'
<1>0. PICK call \in Call : call = dispatching.calls[dispatching.next]
  BY DispatchedCall
<1>1. /\ call.s = dispatching.s /\ call.of = dispatching.of
      /\ dispatching'.s = dispatching.s /\ dispatching'.of = dispatching.of
      /\ dispatching'.next = dispatching.next + 1 /\ dispatching.next \in Nat
      /\ dispatching # NoDispatch
  BY <1>0, DispatchedCall
<1>2. UNCHANGED <<pending, aborted, asked, waiting, disturbed, completed>>
  BY DEF DispatchToolCall, turnVars
<1>3. Steady(s)
  BY <1>2 DEF OneAtATime
<1>4. Done(call) \in Msg /\ ~IsBatch(Done(call)) /\ Done(call) # Cancel(s)
      /\ \A x : Done(x) = Done(call) => x = call
  BY MessageKinds
<1>5. \/ running' = running \cup {call} /\ routed' = routed /\ Mail(box') = Mail(box)
      \/ running' = running /\ routed' = routed \cup {call} /\ Mail(box') = Mail(box)
      \/ running' = running /\ routed' = routed /\ Mail(box') = Mail(box) \cup {Done(call)}
  <2>1. box' = Append(box, Done(call)) => Mail(box') = Mail(box) \cup {Done(call)}
    BY <1>4, Posted
  <2> QED
    BY <1>0, <2>1 DEF DispatchToolCall
<1>6. \A x \in Call : (x \in running' \cup routed' \/ Answered(x)')
        <=> (x \in running \cup routed \/ Answered(x)) \/ x = call
  BY <1>4, <1>5 DEF Answered
<1>7. /\ \A n \in Mail(box') : IsBatch(n) => n \in Mail(box)
      /\ Cancel(s) \notin Mail(box') /\ \A x \in aborted' : x.s # s
  BY <1>2, <1>3, <1>4, <1>5 DEF Steady, NoCancel
<1>8. CASE dispatching.s # s
  <2>1. Outstanding(s)' = Outstanding(s)
    BY <1>1, <1>6, <1>8, OutstandingKept
  <2> QED
    BY <1>1, <1>2, <1>3, <1>7, <1>8, <2>1, SteadyKept
<1>9. CASE dispatching.s = s
  <2>1. Outstanding(s)' = Outstanding(s) \cup {call}
    BY <1>1, <1>6, <1>9 DEF Outstanding
  <2>2. /\ dispatching.of = waiting[s] /\ pending[s] = NoBatch
        /\ Cardinality(Outstanding(s)) < dispatching.next
        /\ IsFiniteSet(Outstanding(s))
    BY <1>1, <1>3, <1>9 DEF Steady, OneDispatching
  <2>3. /\ IsFiniteSet(Outstanding(s)')
        /\ Cardinality(Outstanding(s)') < dispatching'.next
    <3>1. /\ IsFiniteSet(Outstanding(s) \cup {call})
          /\ \/ Cardinality(Outstanding(s) \cup {call}) = Cardinality(Outstanding(s))
             \/ Cardinality(Outstanding(s) \cup {call}) = Cardinality(Outstanding(s)) + 1
      BY <2>2, FS_AddElement
    <3>2. Cardinality(Outstanding(s)) \in Nat
      BY <2>2, FS_CardinalityType
    <3> QED
      BY <1>1, <2>1, <2>2, <3>1, <3>2
  <2>4. NoCancel(s)'
    BY <1>7 DEF NoCancel
  <2>5. \A x \in Outstanding(s)' : x.of = waiting'[s]
    BY <1>1, <1>2, <1>3, <2>1, <2>2 DEF Steady
  <2>6. OneQueued(s)'
    BY <1>1, <1>3, <1>7, <1>9 DEF Steady, OneQueued
  <2>7. OneDispatching(s)' /\ OnePending(s)'
    BY <1>1, <1>2, <2>2, <2>3 DEF OneDispatching, OnePending
  <2>8. ReportedExactly(s)'
    BY <1>2, <1>3 DEF Steady, ReportedExactly
  <2> QED
    BY <2>3, <2>4, <2>5, <2>6, <2>7, <2>8 DEF Steady
<1> QED
  BY <1>8, <1>9

LEMMA SteadyTrack ==
  ASSUME TypeOK, BatchesOnce, OneAtATime, TrackBatch,
         NEW s \in Sessions, s \notin disturbed'
  PROVE  Steady(s)'
<1>1. UNCHANGED <<box, running, routed, aborted, asked, waiting, disturbed, completed>>
      /\ dispatching' = NoDispatch
  BY DEF TrackBatch, toolVars, turnVars
<1>2. Steady(s)
  BY <1>1 DEF OneAtATime
<1>3. Outstanding(s)' = Outstanding(s)
  BY <1>1, OutstandingKept DEF Answered
<1>4. CASE dispatching.s # s
  <2>1. pending'[s] = pending[s]
    BY <1>4, TrackedBatch
  <2> QED
    BY <1>1, <1>2, <1>3, <2>1, SteadyKept DEF Steady, NoCancel
<1>5. CASE dispatching.s = s
  <2>1. /\ pending'[s].of = dispatching.of /\ pending'[s].results = {}
        /\ pending'[s].remaining = Len(dispatching.calls)
        /\ dispatching.next = Len(dispatching.calls) + 1 /\ dispatching # NoDispatch
        /\ Len(dispatching.calls) \in Nat
    BY <1>5, TrackedBatch DEF TypeOK
  <2>2. /\ dispatching.of = waiting[s]
        /\ Cardinality(Outstanding(s)) < dispatching.next
        /\ IsFiniteSet(Outstanding(s))
    BY <1>2, <1>5, <2>1 DEF Steady, OneDispatching
  <2>3. Cardinality(Outstanding(s)) <= Len(dispatching.calls)
    BY <2>1, <2>2, FS_CardinalityType
  <2>4. OnePending(s)'
    BY <1>1, <1>3, <2>1, <2>2, <2>3 DEF OnePending
  <2>5. OneQueued(s)' /\ OneDispatching(s)'
    BY <1>1, <1>2, <1>5, <2>1 DEF Steady, OneQueued, OneDispatching
  <2>6. NoCancel(s)' /\ ReportedExactly(s)'
    BY <1>1, <1>2 DEF Steady, NoCancel, ReportedExactly
  <2> QED
    BY <1>1, <1>2, <1>3, <2>4, <2>5, <2>6 DEF Steady
<1> QED
  BY <1>4, <1>5

LEMMA SteadyCancel ==
  ASSUME TypeOK, BatchesOnce, OneAtATime, HandleCancelToolBatch,
         NEW s \in Sessions, s \notin disturbed'
  PROVE  Steady(s)'
<1>1. UNCHANGED <<dispatching, routed, asked, waiting, disturbed, completed>>
  BY DEF HandleCancelToolBatch, turnVars
<1>2. Steady(s)
  BY <1>1 DEF OneAtATime
<1>3. PICK t \in Sessions : Head(box).s = t /\ Head(box) = Cancel(t)
  BY Taken, MessageFields DEF HandleCancelToolBatch
<1>4. /\ Cancel(t) \in Mail(box) /\ Mail(box') \subseteq Mail(box)
      /\ Mail(box) = Mail(box') \cup {Cancel(t)}
  BY <1>3, Taken DEF HandleCancelToolBatch
<1>5. t # s
  BY <1>2, <1>4 DEF Steady, NoCancel
<1>6. pending'[s] = pending[s]
  BY <1>3, <1>5 DEF HandleCancelToolBatch, TypeOK
<1>7. \A x \in pending[t].handles : x.s # s
  BY <1>5 DEF BatchesOnce
<1>8. /\ running' = running \ pending[t].handles
      /\ aborted' = aborted \cup (pending[t].handles \cap running)
  BY <1>3 DEF HandleCancelToolBatch
<1>9. Outstanding(s)' = Outstanding(s)
  <2>1. \A x \in Call : Done(x) # Cancel(t)
    BY MessageKinds
  <2>2. \A x \in Call : Answered(x)' <=> Answered(x)
    BY <1>4, <2>1 DEF Answered
  <2> QED
    BY <1>1, <1>7, <1>8, <2>2, OutstandingKept
<1>10. \A x \in aborted' : x.s # s
  BY <1>2, <1>7, <1>8 DEF Steady, NoCancel
<1> QED
  BY <1>1, <1>2, <1>4, <1>6, <1>9, <1>10, SteadyKept DEF Steady, NoCancel

LEMMA SteadyCount ==
  ASSUME TypeOK, BatchesOnce, CallsOnce, ResultCountedOnce, OneAtATime,
         HandleToolExecutionCompleted, NEW s \in Sessions, s \notin disturbed'
  PROVE  Steady(s)'
<1>0. PICK call \in Call : Head(box) = Done(call) /\ Head(box).call = call
  BY Taken, MessageFields DEF HandleToolExecutionCompleted
<1> DEFINE batch == pending[call.s]
           results == batch.results \cup {call}
<1>1. /\ dispatching = NoDispatch /\ dispatching' = NoDispatch
      /\ UNCHANGED <<running, routed, aborted, asked, disturbed>>
  BY DEF HandleToolExecutionCompleted, NextMsg, toolVars
<1>2. Steady(s)
  BY <1>1 DEF OneAtATime
<1>3. /\ Done(call) \in Mail(box) /\ Mail(box) = Mail(box') \cup {Done(call)}
      /\ Done(call) \notin Mail(box')
  <2>1. Alike(Done(call), Done(call))
    BY DEF Alike, Done
  <2> QED
    BY <1>0, <2>1, Taken DEF HandleToolExecutionCompleted, BatchesOnce
<1>4. call \notin running \cup routed
  BY <1>3 DEF CallsOnce, OneOf, Answered
<1>5. \A x \in Call : Answered(x)' <=> Answered(x) /\ x # call
  BY <1>3, MessageKinds DEF Answered
<1>6. call.s \in Sessions
  BY DEF Call
<1>7. CASE call.s # s
  <2>1. Outstanding(s)' = Outstanding(s)
    BY <1>1, <1>5, <1>7, OutstandingKept
  <2>2. pending'[s] = pending[s] /\ waiting'[s] = waiting[s]
    BY <1>0, <1>6, <1>7 DEF HandleToolExecutionCompleted, TypeOK, Forget, Report
  <2>3. \A c \in completed' : c.s = s => c \in completed
    <3>1. CASE completed' = completed
      BY <3>1
    <3>2. CASE completed' = completed \cup {[s |-> call.s, of |-> batch.of, results |-> results]}
      BY <1>7, <3>2
    <3> QED
      BY <1>0, <3>1, <3>2 DEF HandleToolExecutionCompleted, Report
  <2> QED
    BY <1>1, <1>2, <1>3, <2>1, <2>2, <2>3, SteadyKept DEF Steady, NoCancel
<1>8. CASE call.s = s
  <2>1. call \in Outstanding(s) /\ call.of = waiting[s]
    BY <1>2, <1>3, <1>8 DEF Outstanding, Answered, Steady
  <2>2. Outstanding(s)' = Outstanding(s) \ {call}
    BY <1>1, <1>4, <1>5 DEF Outstanding
  <2>3. /\ IsFiniteSet(Outstanding(s)') /\ IsFiniteSet(Outstanding(s))
        /\ Cardinality(Outstanding(s)') = Cardinality(Outstanding(s)) - 1
        /\ Cardinality(Outstanding(s)') \in Nat /\ Cardinality(Outstanding(s)) \in Nat
    BY <1>2, <2>1, <2>2, FS_RemoveElement, FS_CardinalityType DEF Steady
  <2>4. \A n \in Mail(box') : ~(IsBatch(n) /\ n.s = s)
    BY <1>2, <1>3, <2>1 DEF Steady, OneQueued
  <2>5. NoCancel(s)'
    BY <1>1, <1>2, <1>3 DEF Steady, NoCancel
  <2>6. OneQueued(s)' /\ OneDispatching(s)'
    BY <1>1, <2>4 DEF OneQueued, OneDispatching
  <2>7. CASE batch = NoBatch /\ UNCHANGED <<pending, completed, waiting>>
    <3>1. OnePending(s)' /\ ReportedExactly(s)'
      BY <1>1, <1>2, <1>8, <2>7 DEF Steady, OnePending, ReportedExactly
    <3>2. \A x \in Outstanding(s)' : x.of = waiting'[s]
      BY <1>2, <2>2, <2>7 DEF Steady
    <3> QED
      BY <2>3, <2>5, <2>6, <3>1, <3>2 DEF Steady
  <2>8. CASE /\ batch # NoBatch /\ ~IsLast(batch) /\ UNCHANGED <<completed, waiting>>
             /\ pending' = [pending EXCEPT ![call.s].remaining = @ - 1,
                                           ![call.s].results = results]
    <3>1. /\ pending'[s].of = pending[s].of
          /\ pending'[s].remaining = pending[s].remaining - 1
          /\ pending'[s].results = pending[s].results \cup {call}
      BY <1>8, <2>8, CountedResult
    <3>2. /\ pending[s].of = waiting[s]
          /\ \A x \in pending[s].results : x.of = waiting[s]
          /\ Cardinality(Outstanding(s)) <= pending[s].remaining
          /\ pending[s].remaining \in Nat
      BY <1>2, <1>8, <2>8, BoundsAssumption DEF Steady, OnePending, TypeOK, PendingBatch
    <3>3. Cardinality(Outstanding(s)') <= pending'[s].remaining
      BY <2>3, <3>1, <3>2
    <3> HIDE DEF batch, results
    <3>4. OnePending(s)'
      BY <2>1, <2>8, <3>1, <3>2, <3>3 DEF OnePending
    <3>5. ReportedExactly(s)' /\ \A x \in Outstanding(s)' : x.of = waiting'[s]
      BY <1>1, <1>2, <2>2, <2>8 DEF Steady, ReportedExactly
    <3> QED
      BY <2>3, <2>5, <2>6, <3>4, <3>5 DEF Steady
  <2>9. CASE /\ batch # NoBatch /\ IsLast(batch) /\ Forget(call.s, results)
             /\ Report(call.s, batch.of, results)
    <3>1. /\ pending[s].of = waiting[s] /\ pending[s].of \in 1..MaxBatches
          /\ \A x \in pending[s].results : x.of = waiting[s]
          /\ Cardinality(Outstanding(s)) <= 1
      BY <1>2, <1>8, <2>9 DEF Steady, OnePending, TypeOK, PendingBatch, IsLast
    <3>2. Outstanding(s)' = {}
      <4>1. Cardinality(Outstanding(s)') = 0
        BY <2>3, <3>1
      <4> QED
        BY <2>3, <4>1, FS_EmptySet
    <3>3. pending'[s] = NoBatch
      BY <1>8, <2>9 DEF Forget, TypeOK
    <3>4. \A x \in results : x.s = s /\ x.of = pending[s].of
      BY <1>8, <2>1, <3>1 DEF ResultCountedOnce
    <3>5. pending[s].of <= asked
      BY <3>1 DEF BatchesOnce
    <3>6. Report(s, pending[s].of, results)
      BY <1>8, <2>9
    <3>7. Mail(box') \subseteq Mail(box)
      BY <1>3
    <3> HIDE DEF batch, results
    <3> QED
      BY <1>1, <1>2, <2>4, <3>1, <3>2, <3>3, <3>4, <3>5, <3>6, <3>7, SteadyReported
  <2> QED
    BY <1>0, <2>7, <2>8, <2>9 DEF HandleToolExecutionCompleted
<1> QED
  BY <1>7, <1>8

LEMMA SteadyStep ==
  TypeOK /\ BatchesOnce /\ CallsOnce /\ ResultCountedOnce /\ OneAtATime /\ [Next]_vars
    => OneAtATime'
<1> SUFFICES ASSUME TypeOK, BatchesOnce, CallsOnce, ResultCountedOnce, OneAtATime,
                    [Next]_vars, NEW s \in Sessions, s \notin disturbed'
             PROVE  Steady(s)'
  BY DEF OneAtATime
<1> USE DEF toolVars, turnVars
<1>1. ASSUME NEW t \in Sessions, AskCancel(t) PROVE Steady(s)'
  <2>1. s # t /\ s \notin disturbed
    BY <1>1 DEF AskCancel
  <2>2. Cancel(t) \in Msg /\ ~IsBatch(Cancel(t)) /\ \A x \in Call : Done(x) # Cancel(t)
    BY MessageKinds
  <2>3. Cancel(t) # Cancel(s)
    BY <2>1 DEF Cancel
  <2>4. Mail(box') = Mail(box) \cup {Cancel(t)}
    BY <1>1, <2>2, Posted DEF AskCancel
  <2>5. Outstanding(s)' = Outstanding(s)
    BY <1>1, <2>2, <2>4, OutstandingKept DEF AskCancel, Answered
  <2>6. waiting'[s] = waiting[s]
    BY <1>1, <2>1 DEF AskCancel, TypeOK
  <2>7. Steady(s)
    BY <2>1 DEF OneAtATime
  <2> QED
    BY <1>1, <2>2, <2>3, <2>4, <2>5, <2>6, <2>7, SteadyKept
       DEF AskCancel, Steady, NoCancel
<1>2. ASSUME NEW call \in Call, box' = Append(box, Done(call)),
             UNCHANGED <<pending, dispatching, asked, waiting, disturbed, completed>>,
             aborted' \subseteq aborted, running' \subseteq running, routed' \subseteq routed,
             running \subseteq running' \cup {call}, routed \subseteq routed' \cup {call},
             call \in running \cup routed \/ call.s # s
      PROVE  Steady(s)'
  <2>1. Steady(s)
    BY <1>2 DEF OneAtATime
  <2>2. /\ Done(call) \in Msg /\ ~IsBatch(Done(call)) /\ Done(call) # Cancel(s)
        /\ \A x : Done(x) = Done(call) => x = call
    BY MessageKinds
  <2>3. Mail(box') = Mail(box) \cup {Done(call)}
    BY <1>2, <2>2, Posted
  <2>4. \A x \in Call : Answered(x)' <=> Answered(x) \/ x = call
    BY <2>2, <2>3 DEF Answered
  <2>5. Outstanding(s)' = Outstanding(s)
    BY <1>2, <2>4, OutstandingKept
  <2> QED
    BY <1>2, <2>1, <2>2, <2>3, <2>5, SteadyKept DEF Steady, NoCancel
<1>3. ASSUME NEW call \in running, BuiltinEnds(call) PROVE Steady(s)'
  BY <1>2, <1>3 DEF BuiltinEnds, TypeOK
<1>4. ASSUME NEW call \in routed, ActorAnswers(call) PROVE Steady(s)'
  BY <1>2, <1>4 DEF ActorAnswers, TypeOK
<1>5. ASSUME NEW call \in aborted, AbortedEnds(call) PROVE Steady(s)'
  <2>1. call.s # s
    BY <1>5 DEF AbortedEnds, OneAtATime, Steady, NoCancel
  <2> QED
    BY <1>2, <1>5, <2>1 DEF AbortedEnds, TypeOK
<1>6. CASE UNCHANGED vars
  <2>1. Outstanding(s)' = Outstanding(s)
    BY <1>6, OutstandingKept DEF vars, Answered
  <2> QED
    BY <1>6, <2>1, SteadyKept DEF vars, OneAtATime, Steady, NoCancel
<1> QED
  BY <1>1, <1>3, <1>4, <1>5, <1>6, SteadyAsk, SteadyExecute, SteadyDispatch, SteadyTrack,
     SteadyCancel, SteadyCount DEF Next, Turn, Orchestrator

-----------------------------------------------------------------------------
CountingInv == TypeOK /\ BatchesOnce /\ CallsOnce /\ ResultCountedOnce /\ OneAtATime

LEMMA CountingInvariant == Spec => []CountingInv
<1>1. Init => CountingInv
  <2> SUFFICES ASSUME Init PROVE CountingInv
    OBVIOUS
  <2>1. /\ Mail(box) = {} /\ \A x : ~Answered(x) /\ ~Counted(x)
        /\ \A s : Outstanding(s) = {}
    BY DEF Init, Mail, Answered, Counted, Outstanding, NoBatch
  <2>2. TypeOK
    BY BoundsAssumption DEF Init, TypeOK, PendingBatch
  <2>3. BatchesOnce
    BY <2>1 DEF Init, BatchesOnce, Distinct, NoBatch
  <2>4. CallsOnce
    BY <2>1 DEF Init, CallsOnce, OneOf
  <2>5. ResultCountedOnce
    BY DEF Init, ResultCountedOnce, NoBatch
  <2>6. OneAtATime
    BY <2>1, FS_EmptySet DEF Init, OneAtATime, Steady, NoCancel, OneQueued, OneDispatching,
                             OnePending, ReportedExactly
  <2> QED
    BY <2>2, <2>3, <2>4, <2>5, <2>6 DEF CountingInv
<1>2. CountingInv /\ [Next]_vars => CountingInv'
  BY TypeStep, BatchesStep, CallsStep, CountStep, SteadyStep DEF CountingInv
<1> QED
  BY <1>1, <1>2, PTL DEF Spec

\* Every reachable state is well typed; in particular a pending batch waits for at
\* least one result whenever one is counted, so `remaining` never wraps.
THEOREM BatchTypeCorrect == Spec => []TypeOK
BY CountingInvariant, PTL DEF CountingInv

\* No result is counted for two batches or for another session, although a result
\* does not say to which batch it belongs.
THEOREM CountedOnce == Spec => []ResultCountedOnce
BY CountingInvariant, PTL DEF CountingInv

\* A session that never cancelled or superseded a batch is answered exactly: with its
\* own results, once, and with none of the batch's calls still running.
THEOREM UndisturbedExact == Spec => []UndisturbedBatchIsExact
<1>1. CountingInv => UndisturbedBatchIsExact
  <2> SUFFICES ASSUME CountingInv, NEW c \in completed, c.s \notin disturbed
               PROVE  /\ \A call \in c.results : call.s = c.s /\ call.of = c.of
                      /\ \A d \in completed : d.s = c.s /\ d.of = c.of => d = c
                      /\ \A call \in running \cup routed : call.s = c.s => call.of # c.of
    BY DEF UndisturbedBatchIsExact
  <2>1. c.s \in Sessions /\ Steady(c.s)
    BY DEF CountingInv, TypeOK, OneAtATime
  <2>2. \A call \in running \cup routed : call.s = c.s => call \in Outstanding(c.s)
    BY DEF CountingInv, TypeOK, Outstanding
  <2> QED
    BY <2>1, <2>2 DEF Steady, ReportedExactly
<1> QED
  BY <1>1, CountingInvariant, PTL

=============================================================================
