------------------------------ MODULE ToolLoops ------------------------------
(* The loops of a chat history: an assistant entry, the tool calls behind it, *)
(* entries that slipped in, and the results (tool_group_end and its callers). *)
(*                                                                            *)
(* An entry is a record with the fields kind, call (the tool call it is, or   *)
(* answers), whole (a result is not Pending) and excluded (ForcedExclude).    *)
(* Nothing else is looked at here.                                            *)
EXTENDS Naturals, Sequences, FiniteSets, FiniteSetsExt

\* The other kinds of interstitial entry (Actor, Transient, Annotation) behave
\* like System.
Kinds == {"User", "Assistant", "Thinking", "ToolCall", "ToolResult", "System", "Error"}

\* is_tool_loop_interstitial
Interstitial == {"System", "Thinking"}

\* The first position from `from` on whose entry is of none of these kinds.
RunEnd(h, from, kinds) ==
  Min({i \in from..(Len(h) + 1) : i = Len(h) + 1 \/ h[i].kind \notin kinds})

CallsEnd(h, i) == RunEnd(h, i + 1, {"ToolCall"})
ResultsStart(h, i) == RunEnd(h, CallsEnd(h, i), Interstitial)

\* tool_group_end: the position after the loop that `i` opens.
LoopEnd(h, i) == RunEnd(h, ResultsStart(h, i), {"ToolResult"})
OpensLoop(h, i) == h[i].kind = "Assistant" /\ CallsEnd(h, i) > i + 1

LoopStarts(h) == {i \in DOMAIN h : OpensLoop(h, i)}
LoopOf(h, i) == i..(LoopEnd(h, i) - 1)

AnsweredIn(h, span) ==
  {h[k].call : k \in {k \in span : h[k].kind = "ToolResult" /\ h[k].whole}}

\* loop_is_complete
IsComplete(h, i) ==
  \A k \in LoopOf(h, i) :
     h[k].kind = "ToolCall" => h[k].call \in AnsweredIn(h, LoopOf(h, i))

\* exclude_incomplete_trailing_loops: every member of every incomplete loop.
ExcludeIncomplete(h) ==
  LET incomplete == UNION {LoopOf(h, i) : i \in {i \in LoopStarts(h) : ~IsComplete(h, i)}}
  IN [k \in DOMAIN h |-> IF k \in incomplete THEN [h[k] EXCEPT !.excluded = TRUE]
                         ELSE h[k]]

\* How many entries slipped in between the calls and the results of a loop.
Slipped(h, i) == ResultsStart(h, i) - CallsEnd(h, i)

\* normalize_step: they move behind the results, in their order.
MoveInterstitials(h, i) ==
  LET calls == CallsEnd(h, i)
      results == ResultsStart(h, i)
      end == LoopEnd(h, i)
  IN SubSeq(h, 1, calls - 1) \o SubSeq(h, results, end - 1)
     \o SubSeq(h, calls, results - 1) \o SubSeq(h, end, Len(h))

=============================================================================
