------------------------ MODULE StreamHistoryProofs ------------------------
(* Proofs about StreamHistory for every number of messages, calls, retries   *)
(* and cancellations.  First what the history editor's operators on loops    *)
(* do to a history of any length; then what every edit of a session keeps;   *)
(* then the invariants of the actors: HistInv, their types, and ResultInv,   *)
(* where a call's result can still come from.                                *)
EXTENDS StreamHistory, SequenceTheorems, WellFoundedInduction, TLAPS

-----------------------------------------------------------------------------
(* Runs of entries. *)

LEMMA LeastExists ==
  ASSUME NEW S \in SUBSET Nat, S # {}
  PROVE  \E x \in S : \A y \in S : x <= y
<1> DEFINE R == OpToRel(<, Nat)
<1>1. IsWellFoundedOn(R, Nat)
  BY NatLessThanWellFounded
<1>2. PICK x \in S : \A y \in S : <<y, x>> \notin R
  <2> HIDE DEF R
  <2> QED
    BY <1>1, WFMin
<1>3. \A y \in S : ~(y < x)
  BY <1>2 DEF OpToRel
<1> QED
  BY <1>3

\* e is where the run that starts at `from` ends.
EndsRun(h, from, kinds, e) ==
  /\ e \in from..(Len(h) + 1)
  /\ \A k \in from..(e - 1) : h[k].kind \in kinds
  /\ e <= Len(h) => h[e].kind \notin kinds

LEMMA RunEnds ==
  ASSUME NEW E, NEW h \in Seq(E), NEW from \in 1..(Len(h) + 1), NEW kinds
  PROVE  EndsRun(h, from, kinds, RunEnd(h, from, kinds))
<1> DEFINE S == {i \in from..(Len(h) + 1) : i = Len(h) + 1 \/ h[i].kind \notin kinds}
<1>1. Len(h) \in Nat
  OBVIOUS
<1>2. S \in SUBSET Nat /\ Len(h) + 1 \in S
  BY <1>1
<1>3. \E x \in S : \A y \in S : x <= y
  BY <1>2, LeastExists
<1>4. RunEnd(h, from, kinds) \in S /\ \A y \in S : RunEnd(h, from, kinds) <= y
  BY <1>3 DEF RunEnd, Min
<1> DEFINE e == RunEnd(h, from, kinds)
<1>5. \A k \in from..(e - 1) : h[k].kind \in kinds
  <2> SUFFICES ASSUME NEW k \in from..(e - 1), h[k].kind \notin kinds
               PROVE  FALSE
    OBVIOUS
  <2>1. e \in from..(Len(h) + 1) /\ k \in Int /\ k < e
    BY <1>1, <1>4
  <2>2. k \in S
    BY <1>1, <2>1
  <2>3. e <= k
    BY <1>4, <2>2
  <2> HIDE DEF e
  <2> QED
    BY <1>1, <2>1, <2>3
<1>6. e <= Len(h) => h[e].kind \notin kinds
  BY <1>1, <1>4
<1> QED
  BY <1>1, <1>4, <1>5, <1>6 DEF EndsRun

LEMMA RunEndUnique ==
  ASSUME NEW E, NEW h \in Seq(E), NEW from \in 1..(Len(h) + 1), NEW kinds,
         NEW e, EndsRun(h, from, kinds, e)
  PROVE  RunEnd(h, from, kinds) = e
<1>1. EndsRun(h, from, kinds, RunEnd(h, from, kinds))
  BY RunEnds
<1>2. \A a, b : EndsRun(h, from, kinds, a) /\ EndsRun(h, from, kinds, b) => ~(a < b)
  <2> SUFFICES ASSUME NEW a, NEW b, EndsRun(h, from, kinds, a), EndsRun(h, from, kinds, b),
                      a < b
               PROVE  FALSE
    OBVIOUS
  <2>1. Len(h) \in Nat
    OBVIOUS
  <2>2. a \in from..(b - 1) /\ a <= Len(h)
    BY <2>1 DEF EndsRun
  <2> QED
    BY <2>2 DEF EndsRun
<1>3. Len(h) \in Nat /\ e \in Int /\ RunEnd(h, from, kinds) \in Int
  BY <1>1 DEF EndsRun
<1>4. ~(e < RunEnd(h, from, kinds)) /\ ~(RunEnd(h, from, kinds) < e)
  BY <1>1, <1>2
<1> QED
  BY <1>3, <1>4

\* A run ends at the same place in a history that has the same kinds around it.
LEMMA RunKept ==
  ASSUME NEW E, NEW h \in Seq(E), NEW g \in Seq(E), Len(g) = Len(h),
         NEW from \in 1..(Len(h) + 1), NEW kinds, NEW e, EndsRun(h, from, kinds, e),
         \A k \in from..e : k <= Len(h) => g[k] = h[k]
  PROVE  RunEnd(g, from, kinds) = e
<1>1. Len(h) \in Nat
  OBVIOUS
<1>2. EndsRun(g, from, kinds, e)
  BY <1>1 DEF EndsRun
<1> QED
  BY <1>2, RunEndUnique

\* A loop is an assistant entry, its calls, what slipped in, its results.
LEMMA LoopParts ==
  ASSUME NEW E, NEW h \in Seq(E), NEW i \in LoopStarts(h)
  PROVE  /\ i \in 1..Len(h) /\ Len(h) \in Nat /\ h[i].kind = "Assistant"
         /\ CallsEnd(h, i) \in (i + 2)..(Len(h) + 1)
         /\ EndsRun(h, i + 1, {"ToolCall"}, CallsEnd(h, i))
         /\ EndsRun(h, CallsEnd(h, i), Interstitial, ResultsStart(h, i))
         /\ EndsRun(h, ResultsStart(h, i), {"ToolResult"}, LoopEnd(h, i))
<1>1. i \in 1..Len(h) /\ Len(h) \in Nat /\ h[i].kind = "Assistant" /\ CallsEnd(h, i) > i + 1
  BY LenProperties DEF LoopStarts, OpensLoop
<1>2. EndsRun(h, i + 1, {"ToolCall"}, CallsEnd(h, i))
  BY <1>1, RunEnds DEF CallsEnd
<1>3. CallsEnd(h, i) \in (i + 2)..(Len(h) + 1)
  BY <1>1, <1>2 DEF EndsRun
<1>4. CallsEnd(h, i) \in 1..(Len(h) + 1)
  BY <1>1, <1>3
<1>5. EndsRun(h, CallsEnd(h, i), Interstitial, ResultsStart(h, i))
  BY <1>4, RunEnds DEF ResultsStart
<1>6. ResultsStart(h, i) \in 1..(Len(h) + 1)
  BY <1>1, <1>4, <1>5 DEF EndsRun
<1>7. EndsRun(h, ResultsStart(h, i), {"ToolResult"}, LoopEnd(h, i))
  BY <1>6, RunEnds DEF LoopEnd
<1> QED
  BY <1>1, <1>2, <1>3, <1>5, <1>7

-----------------------------------------------------------------------------
(* The sweep. *)

Fields == {"kind", "call", "whole", "excluded"}

\* Histories that differ in what is excluded at most have the same loops.
SameButExcluded(h, g) ==
  /\ DOMAIN g = DOMAIN h /\ Len(g) = Len(h)
  /\ \A k \in DOMAIN h : \A f \in Fields \ {"excluded"} : g[k][f] = h[k][f]

LEMMA SameLoops ==
  ASSUME NEW E, NEW h \in Seq(E), NEW g, SameButExcluded(h, g)
  PROVE  /\ LoopStarts(g) = LoopStarts(h)
         /\ \A i \in LoopStarts(h) :
              /\ LoopOf(g, i) = LoopOf(h, i) /\ LoopOf(h, i) \subseteq DOMAIN h
              /\ AnsweredIn(g, LoopOf(h, i)) = AnsweredIn(h, LoopOf(h, i))
<1>1. /\ DOMAIN h = 1..Len(h) /\ Len(h) \in Nat /\ DOMAIN g = DOMAIN h /\ Len(g) = Len(h)
      /\ \A k \in DOMAIN h :
           g[k].kind = h[k].kind /\ g[k].call = h[k].call /\ g[k].whole = h[k].whole
  <2>1. \A k \in DOMAIN h : g[k].kind = h[k].kind
    BY DEF SameButExcluded, Fields
  <2>2. \A k \in DOMAIN h : g[k].call = h[k].call
    BY DEF SameButExcluded, Fields
  <2>3. \A k \in DOMAIN h : g[k].whole = h[k].whole
    BY DEF SameButExcluded, Fields
  <2> QED
    BY <2>1, <2>2, <2>3, LenProperties DEF SameButExcluded
<1>2. ASSUME NEW from \in Nat \ {0}, NEW kinds
      PROVE  RunEnd(g, from, kinds) = RunEnd(h, from, kinds)
  <2>1. {i \in from..(Len(g) + 1) : i = Len(g) + 1 \/ g[i].kind \notin kinds}
        = {i \in from..(Len(h) + 1) : i = Len(h) + 1 \/ h[i].kind \notin kinds}
    BY <1>1
  <2> QED
    BY <2>1 DEF RunEnd
<1>3. \A i \in DOMAIN h : CallsEnd(g, i) = CallsEnd(h, i)
  BY <1>1, <1>2 DEF CallsEnd
<1>4. LoopStarts(g) = LoopStarts(h)
  BY <1>1, <1>3 DEF LoopStarts, OpensLoop
<1>5. ASSUME NEW i \in LoopStarts(h)
      PROVE  /\ LoopOf(g, i) = LoopOf(h, i) /\ LoopOf(h, i) \subseteq DOMAIN h
             /\ AnsweredIn(g, LoopOf(h, i)) = AnsweredIn(h, LoopOf(h, i))
  <2>1. /\ i \in DOMAIN h /\ CallsEnd(h, i) \in Nat \ {0} /\ ResultsStart(h, i) \in Nat \ {0}
        /\ LoopEnd(h, i) \in 1..(Len(h) + 1)
    BY <1>1, LoopParts DEF EndsRun
  <2>2. ResultsStart(g, i) = ResultsStart(h, i)
    BY <1>2, <1>3, <2>1 DEF ResultsStart
  <2>3. LoopEnd(g, i) = LoopEnd(h, i)
    BY <1>2, <2>1, <2>2 DEF LoopEnd
  <2>4. LoopOf(g, i) = LoopOf(h, i) /\ LoopOf(h, i) \subseteq DOMAIN h
    BY <1>1, <2>1, <2>3 DEF LoopOf
  <2>5. AnsweredIn(g, LoopOf(h, i)) = AnsweredIn(h, LoopOf(h, i))
    BY <1>1, <2>4 DEF AnsweredIn
  <2> QED
    BY <2>4, <2>5
<1> QED
  BY <1>4, <1>5

\* force_exclude_dangling_tool_calls: whatever the history, a call that is left in context
\* stands in no loop or has its complete result in its loop; and nothing changes but
\* what is excluded.
THEOREM SweepLeavesNoneDangling ==
  ASSUME NEW E, NEW h \in Seq(E), \A k \in DOMAIN h : Fields \subseteq DOMAIN h[k],
         NEW g, g = ExcludeIncomplete(h)
  PROVE  /\ SameButExcluded(h, g)
         /\ \A i \in LoopStarts(g) : \A k \in LoopOf(g, i) :
              g[k].kind = "ToolCall" /\ ~g[k].excluded
                => g[k].call \in AnsweredIn(g, LoopOf(g, i))
<1> DEFINE incomplete == UNION {LoopOf(h, i) : i \in {i \in LoopStarts(h) : ~IsComplete(h, i)}}
<1>1. g = [k \in DOMAIN h |-> IF k \in incomplete THEN [h[k] EXCEPT !.excluded = TRUE] ELSE h[k]]
  BY DEF ExcludeIncomplete
<1>2. \A i \in LoopStarts(h) : IsComplete(h, i) \/ LoopOf(h, i) \subseteq incomplete
  OBVIOUS
<1> HIDE DEF incomplete
<1>3. DOMAIN h = 1..Len(h) /\ Len(h) \in Nat
  BY LenProperties
<1>4. DOMAIN g = DOMAIN h /\ Len(g) = Len(h)
  BY <1>1, <1>3
<1>5. \A k \in DOMAIN h : \A f \in Fields \ {"excluded"} : g[k][f] = h[k][f]
  BY <1>1
<1>6. \A k \in DOMAIN h : k \in incomplete => g[k].excluded
  BY <1>1 DEF Fields
<1>7. SameButExcluded(h, g)
  BY <1>4, <1>5 DEF SameButExcluded
<1>8. ASSUME NEW i \in LoopStarts(g), NEW k \in LoopOf(g, i),
             g[k].kind = "ToolCall", ~g[k].excluded
      PROVE  g[k].call \in AnsweredIn(g, LoopOf(g, i))
  <2>1. /\ i \in LoopStarts(h) /\ k \in LoopOf(h, i) /\ k \in DOMAIN h
        /\ AnsweredIn(g, LoopOf(g, i)) = AnsweredIn(h, LoopOf(h, i))
    BY <1>7, <1>8, SameLoops
  <2>2. k \notin incomplete
    BY <1>6, <1>8, <2>1
  <2>3. IsComplete(h, i)
    BY <1>2, <2>1, <2>2
  <2>4. h[k].kind = "ToolCall" /\ g[k].call = h[k].call
    BY <1>5, <1>8, <2>1 DEF Fields
  <2> QED
    BY <2>1, <2>3, <2>4 DEF IsComplete
<1> QED
  BY <1>7, <1>8

-----------------------------------------------------------------------------
(* The normalization of one loop. *)

Joins(u, s, t) ==
  /\ Len(u) = Len(s) + Len(t)
  /\ \A k \in 1..Len(s) : u[k] = s[k]
  /\ \A k \in 1..Len(t) : u[Len(s) + k] = t[k]

JoinsFour(g, A, B, C, D) ==
  /\ Len(g) = Len(A) + Len(B) + Len(C) + Len(D)
  /\ \A k \in 1..Len(A) : g[k] = A[k]
  /\ \A k \in 1..Len(B) : g[Len(A) + k] = B[k]
  /\ \A k \in 1..Len(C) : g[Len(A) + Len(B) + k] = C[k]
  /\ \A k \in 1..Len(D) : g[Len(A) + Len(B) + Len(C) + k] = D[k]

LEMMA Joined ==
  ASSUME NEW E, NEW s \in Seq(E), NEW t \in Seq(E), NEW u, u = s \o t
  PROVE  u \in Seq(E) /\ Joins(u, s, t)
<1>1. s \o t \in Seq(E) /\ Len(s \o t) = Len(s) + Len(t)
  OBVIOUS
<1>2. \A k \in 1..Len(s) : (s \o t)[k] = s[k]
  OBVIOUS
<1>3. \A k \in 1..Len(t) : (s \o t)[Len(s) + k] = t[k]
  OBVIOUS
<1> QED
  BY <1>1, <1>2, <1>3, Zenon DEF Joins

LEMMA JoinsFlatten ==
  ASSUME NEW E, NEW A \in Seq(E), NEW B \in Seq(E), NEW C \in Seq(E), NEW D \in Seq(E),
         NEW u \in Seq(E), NEW v \in Seq(E), NEW g \in Seq(E),
         Joins(u, A, B), Joins(v, u, C), Joins(g, v, D)
  PROVE  JoinsFour(g, A, B, C, D)
<1>1. Len(A) \in Nat /\ Len(B) \in Nat /\ Len(C) \in Nat /\ Len(D) \in Nat
  OBVIOUS
<1>2. Len(u) = Len(A) + Len(B) /\ Len(v) = Len(u) + Len(C) /\ Len(g) = Len(v) + Len(D)
  BY DEF Joins
<1>3. \A k \in 1..Len(A) : k \in 1..Len(u) /\ k \in 1..Len(v)
  BY <1>1, <1>2
<1>4. \A k \in 1..Len(B) : Len(A) + k \in 1..Len(u) /\ Len(A) + k \in 1..Len(v)
  BY <1>1, <1>2
<1>5. \A k \in 1..Len(C) : Len(u) + k \in 1..Len(v)
  BY <1>1, <1>2
<1>6. \A k \in 1..Len(A) : g[k] = A[k]
  BY <1>3 DEF Joins
<1>7. \A k \in 1..Len(B) : g[Len(A) + k] = B[k]
  BY <1>4 DEF Joins
<1>8. \A k \in 1..Len(C) : g[Len(u) + k] = C[k]
  BY <1>5 DEF Joins
<1>9. \A k \in 1..Len(D) : g[Len(v) + k] = D[k]
  BY DEF Joins
<1>10. Len(v) = Len(A) + Len(B) + Len(C) /\ Len(g) = Len(A) + Len(B) + Len(C) + Len(D)
  BY <1>2
<1> QED
  BY <1>2, <1>6, <1>7, <1>8, <1>9, <1>10 DEF JoinsFour

LEMMA FourJoined ==
  ASSUME NEW E, NEW A \in Seq(E), NEW B \in Seq(E), NEW C \in Seq(E), NEW D \in Seq(E),
         NEW g, g = A \o B \o C \o D
  PROVE  g \in Seq(E) /\ JoinsFour(g, A, B, C, D)
<1>1. PICK u : u = A \o B
  OBVIOUS
<1>2. PICK v : v = u \o C
  OBVIOUS
<1>3. u \in Seq(E) /\ Joins(u, A, B)
  BY <1>1, Joined
<1>4. v \in Seq(E) /\ Joins(v, u, C)
  BY <1>2, <1>3, Joined
<1>5. g = v \o D
  BY <1>1, <1>2
<1>6. g \in Seq(E) /\ Joins(g, v, D)
  BY <1>4, <1>5, Joined
<1> QED
  BY <1>3, <1>4, <1>6, JoinsFlatten

\* Where the parts of a history end up when two neighbouring ones change places.
Swap(h, c, r, e) ==
  SubSeq(h, 1, c - 1) \o SubSeq(h, r, e - 1) \o SubSeq(h, c, r - 1) \o SubSeq(h, e, Len(h))

Swapped(g, h, c, r, e) ==
  /\ \A k \in 1..Len(h) : k < c \/ k >= e => g[k] = h[k]
  /\ \A k \in c..(c + (e - r) - 1) : g[k] = h[k - c + r]
  /\ \A k \in (c + (e - r))..(e - 1) : g[k] = h[k - (e - r)]

LEMMA PartsSwapped ==
  ASSUME NEW E, NEW h \in Seq(E), NEW c \in 1..(Len(h) + 1), NEW r \in c..(Len(h) + 1),
         NEW e \in r..(Len(h) + 1), NEW g, g = Swap(h, c, r, e)
  PROVE  g \in Seq(E) /\ Len(g) = Len(h) /\ Swapped(g, h, c, r, e)
<1> DEFINE n == Len(h)
           A == SubSeq(h, 1, c - 1)
           B == SubSeq(h, r, e - 1)
           C == SubSeq(h, c, r - 1)
           D == SubSeq(h, e, n)
<1>1. n \in Nat /\ \A k \in 1..n : h[k] \in E
  OBVIOUS
<1>2. c \in Nat /\ r \in Nat /\ e \in Nat /\ 1 <= c /\ c <= r /\ r <= e /\ e <= n + 1
  BY <1>1
<1>3. /\ A \in Seq(E) /\ Len(A) = c - 1
      /\ \A k \in 1..(c - 1) : A[k] = h[k]
  <2> HIDE DEF n
  <2>1. \A k \in 1..(c - 1) : h[k] \in E
    BY <1>1, <1>2
  <2> QED
    BY <1>2, <2>1, SubSeqProperties
<1>4. /\ B \in Seq(E) /\ Len(B) = e - r
      /\ \A k \in 1..(e - r) : B[k] = h[r + k - 1]
  <2> HIDE DEF n
  <2>1. \A k \in r..(e - 1) : h[k] \in E
    BY <1>1, <1>2
  <2> QED
    BY <1>2, <2>1, SubSeqProperties
<1>5. /\ C \in Seq(E) /\ Len(C) = r - c
      /\ \A k \in 1..(r - c) : C[k] = h[c + k - 1]
  <2> HIDE DEF n
  <2>1. \A k \in c..(r - 1) : h[k] \in E
    BY <1>1, <1>2
  <2> QED
    BY <1>2, <2>1, SubSeqProperties
<1>6. /\ D \in Seq(E) /\ Len(D) = n - e + 1
      /\ \A k \in 1..(n - e + 1) : D[k] = h[e + k - 1]
  <2> HIDE DEF n
  <2>1. \A k \in e..n : h[k] \in E
    BY <1>1, <1>2
  <2> QED
    BY <1>1, <1>2, <2>1, SubSeqProperties
<1>7. g \in Seq(E) /\ JoinsFour(g, A, B, C, D)
  <2>1. g = A \o B \o C \o D
    BY DEF Swap
  <2> HIDE DEF A, B, C, D
  <2> QED
    BY <1>3, <1>4, <1>5, <1>6, <2>1, FourJoined
<1> HIDE DEF n, A, B, C, D
<1>8. Len(g) = n
  <2>1. Len(g) = (c - 1) + (e - r) + (r - c) + (n - e + 1)
    BY <1>3, <1>4, <1>5, <1>6, <1>7 DEF JoinsFour
  <2> QED
    BY <1>1, <1>2, <2>1
<1>a. Len(A) = c - 1 /\ Len(B) = e - r /\ Len(C) = r - c
  BY <1>3, <1>4, <1>5
<1>9. ASSUME NEW k \in 1..n, k < c
      PROVE  g[k] = h[k]
  <2>1. k \in 1..(c - 1)
    BY <1>1, <1>2, <1>9
  <2> QED
    BY <1>3, <1>7, <2>1 DEF JoinsFour
<1>10. ASSUME NEW k \in 1..n, k >= e
       PROVE  g[k] = h[k]
  <2>1. PICK j \in 1..(n - e + 1) : k = e - 1 + j
    <3>1. k - (e - 1) \in 1..(n - e + 1) /\ k = e - 1 + (k - (e - 1))
      BY <1>1, <1>2, <1>10
    <3> QED
      BY <3>1
  <2>2. Len(A) + Len(B) + Len(C) + j = k /\ e + j - 1 = k
    <3>1. j \in Int
      OBVIOUS
    <3>2. Len(A) + Len(B) + Len(C) = e - 1
      BY <1>2, <1>a
    <3> QED
      BY <1>2, <2>1, <3>1, <3>2
  <2>3. g[Len(A) + Len(B) + Len(C) + j] = D[j] /\ D[j] = h[e + j - 1]
    BY <1>6, <1>7, <2>1 DEF JoinsFour
  <2> QED
    BY <2>2, <2>3
<1>11. ASSUME NEW k \in c..(c + (e - r) - 1)
       PROVE  g[k] = h[k - c + r]
  <2>1. PICK j \in 1..(e - r) : k = c - 1 + j
    <3>1. k - (c - 1) \in 1..(e - r) /\ k = c - 1 + (k - (c - 1))
      BY <1>2
    <3> QED
      BY <3>1
  <2>2. Len(A) + j = k /\ r + j - 1 = k - c + r
    <3>1. j \in Int
      OBVIOUS
    <3> QED
      BY <1>2, <1>a, <2>1, <3>1
  <2>3. g[Len(A) + j] = B[j] /\ B[j] = h[r + j - 1]
    BY <1>4, <1>7, <2>1 DEF JoinsFour
  <2> QED
    BY <2>2, <2>3
<1>12. ASSUME NEW k \in (c + (e - r))..(e - 1)
       PROVE  g[k] = h[k - (e - r)]
  <2>1. PICK j \in 1..(r - c) : k = c - 1 + (e - r) + j
    <3>1. /\ k - (c - 1 + (e - r)) \in 1..(r - c)
          /\ k = c - 1 + (e - r) + (k - (c - 1 + (e - r)))
      BY <1>2
    <3> QED
      BY <3>1
  <2>2. Len(A) + Len(B) + j = k /\ c + j - 1 = k - (e - r)
    <3>1. j \in Int
      OBVIOUS
    <3> QED
      BY <1>2, <1>a, <2>1, <3>1
  <2>3. g[Len(A) + Len(B) + j] = C[j] /\ C[j] = h[c + j - 1]
    BY <1>5, <1>7, <2>1 DEF JoinsFour
  <2> QED
    BY <2>2, <2>3
<1> QED
  BY <1>7, <1>8, <1>9, <1>10, <1>11, <1>12 DEF n, Swapped

\* What a step does to the entries: results forward, what slipped in backward, the rest
\* where it was.
LEMMA Moved ==
  ASSUME NEW E, NEW h \in Seq(E), NEW i \in LoopStarts(h),
         NEW g, g = MoveInterstitials(h, i),
         NEW c, c = CallsEnd(h, i), NEW r, r = ResultsStart(h, i), NEW e, e = LoopEnd(h, i)
  PROVE  /\ g \in Seq(E) /\ Len(g) = Len(h) /\ Len(h) \in Nat
         /\ i \in 1..Len(h) /\ h[i].kind = "Assistant"
         /\ c \in (i + 2)..(Len(h) + 1) /\ r \in c..(Len(h) + 1) /\ e \in r..(Len(h) + 1)
         /\ \A k \in (i + 1)..(c - 1) : h[k].kind = "ToolCall"
         /\ \A k \in c..(r - 1) : h[k].kind \in Interstitial
         /\ \A k \in r..(e - 1) : h[k].kind = "ToolResult"
         /\ Swapped(g, h, c, r, e)
<1>1. /\ i \in 1..Len(h) /\ h[i].kind = "Assistant" /\ Len(h) \in Nat
      /\ c \in (i + 2)..(Len(h) + 1) /\ r \in c..(Len(h) + 1) /\ e \in r..(Len(h) + 1)
      /\ \A k \in (i + 1)..(c - 1) : h[k].kind = "ToolCall"
      /\ \A k \in c..(r - 1) : h[k].kind \in Interstitial
      /\ \A k \in r..(e - 1) : h[k].kind = "ToolResult"
  BY LoopParts DEF EndsRun
<1>2. c \in 1..(Len(h) + 1)
  BY <1>1
<1>3. g = Swap(h, c, r, e)
  BY DEF MoveInterstitials, Swap
<1>4. g \in Seq(E) /\ Len(g) = Len(h) /\ Swapped(g, h, c, r, e)
  BY <1>1, <1>2, <1>3, PartsSwapped
<1> QED
  BY <1>1, <1>4

\* normalize_step loses no entry and doubles none, whatever the history: it permutes the
\* entries behind the loop's calls and leaves all others where they were.
THEOREM NormalizingPermutes ==
  ASSUME NEW E, NEW h \in Seq(E), NEW i \in LoopStarts(h)
  PROVE  \E p \in Bijection(DOMAIN h, DOMAIN h) :
           /\ \A k \in DOMAIN h : MoveInterstitials(h, i)[k] = h[p[k]]
           /\ \A k \in DOMAIN h \ (CallsEnd(h, i)..(LoopEnd(h, i) - 1)) : p[k] = k
<1> DEFINE n == Len(h)
           g == MoveInterstitials(h, i)
           c == CallsEnd(h, i)
           r == ResultsStart(h, i)
           e == LoopEnd(h, i)
           p == [k \in 1..n |-> IF k < c \/ k >= e THEN k
                                ELSE IF k < c + (e - r) THEN k - c + r ELSE k - (e - r)]
           q == [k \in 1..n |-> IF k < c \/ k >= e THEN k
                                ELSE IF k < r THEN k + (e - r) ELSE k - r + c]
<1>1. /\ n \in Nat /\ c \in 1..(n + 1) /\ r \in c..(n + 1) /\ e \in r..(n + 1)
      /\ \A k \in 1..n : k < c \/ k >= e => g[k] = h[k]
      /\ \A k \in c..(c + (e - r) - 1) : g[k] = h[k - c + r]
      /\ \A k \in (c + (e - r))..(e - 1) : g[k] = h[k - (e - r)]
  <2>1. /\ n \in Nat /\ i \in 1..n
        /\ c \in (i + 2)..(n + 1) /\ r \in c..(n + 1) /\ e \in r..(n + 1)
        /\ Swapped(g, h, c, r, e)
    BY Moved
  <2> QED
    BY <2>1 DEF Swapped
<1>2. DOMAIN h = 1..n
  BY LenProperties
<1> HIDE DEF n, g, c, r, e
<1>3. p \in [1..n -> 1..n] /\ q \in [1..n -> 1..n]
  BY <1>1
<1>4. \A k \in 1..n : p[q[k]] = k /\ q[p[k]] = k
  BY <1>1
<1>5. \A k \in 1..n : g[k] = h[p[k]]
  BY <1>1
<1>6. \A k \in (1..n) \ (c..(e - 1)) : p[k] = k
  BY <1>1
<1> HIDE DEF p, q
<1>7. p \in Bijection(1..n, 1..n)
  BY <1>3, <1>4 DEF Bijection, Injection, Surjection, IsInjective
<1> QED
  BY <1>2, <1>5, <1>6, <1>7 DEF g, c, e

\* normalize_step does what it is for, whatever the history: the results stand right behind
\* the calls, the loop ends behind the last one, and it answers the calls it answered before.
THEOREM NormalizingClosesTheLoop ==
  ASSUME NEW E, NEW h \in Seq(E), NEW i \in LoopStarts(h),
         ResultsStart(h, i) < LoopEnd(h, i),
         NEW g, g = MoveInterstitials(h, i)
  PROVE  /\ i \in LoopStarts(g) /\ Slipped(g, i) = 0
         /\ LoopEnd(g, i) = LoopEnd(h, i) - Slipped(h, i)
         /\ AnsweredIn(g, LoopOf(g, i)) = AnsweredIn(h, LoopOf(h, i))
<1> DEFINE n == Len(h)
           c == CallsEnd(h, i)
           r == ResultsStart(h, i)
           e == LoopEnd(h, i)
           b == c + (e - r)
<1>1. /\ g \in Seq(E) /\ Len(g) = n /\ n \in Nat
      /\ i \in 1..n /\ h[i].kind = "Assistant"
      /\ c \in (i + 2)..(n + 1) /\ r \in c..(n + 1) /\ e \in r..(n + 1)
      /\ \A k \in (i + 1)..(c - 1) : h[k].kind = "ToolCall"
      /\ \A k \in c..(r - 1) : h[k].kind \in Interstitial
      /\ \A k \in r..(e - 1) : h[k].kind = "ToolResult"
      /\ Swapped(g, h, c, r, e)
  BY Moved
<1>2. e <= n => h[e].kind # "ToolResult"
  BY LoopParts DEF EndsRun
<1>3. r < e
  OBVIOUS
<1>4. DOMAIN g = 1..n /\ DOMAIN h = 1..n
  BY <1>1, LenProperties
<1>5. Slipped(h, i) = r - c
  BY DEF Slipped
<1> HIDE DEF n, c, r, e
<1> USE DEF n
<1>6. \A k \in i..(c - 1) : g[k] = h[k]
  <2>1. \A k \in i..(c - 1) : k \in 1..n /\ k < c
    BY <1>1
  <2> QED
    BY <1>1, <2>1 DEF Swapped
<1>7. g[i] = h[i]
  <2>1. i \in i..(c - 1)
    BY <1>1
  <2> QED
    BY <1>6, <2>1
<1>8. \A k \in c..(b - 1) : g[k].kind = "ToolResult"
  BY <1>1 DEF Swapped
<1>9. b <= n => g[b].kind # "ToolResult"
  <2>1. CASE b < e
    <3>1. b \in (c + (e - r))..(e - 1) /\ b - (e - r) \in c..(r - 1)
      BY <1>1, <2>1
    <3>2. g[b] = h[b - (e - r)] /\ h[b - (e - r)].kind \in Interstitial
      BY <1>1, <3>1 DEF Swapped
    <3> QED
      BY <3>2 DEF Interstitial
  <2>2. CASE b = e
    <3>1. b <= n => b \in 1..n /\ b >= e
      BY <1>1, <2>2
    <3>2. b <= n => g[b] = h[b]
      BY <1>1, <3>1 DEF Swapped
    <3> QED
      BY <1>2, <2>2, <3>2
  <2> QED
    BY <1>1, <2>1, <2>2
<1>10. CallsEnd(g, i) = c
  <2>1. EndsRun(g, i + 1, {"ToolCall"}, c)
    BY <1>1, <1>3, <1>6, <1>8 DEF EndsRun
  <2>2. i + 1 \in 1..(Len(g) + 1)
    BY <1>1
  <2> QED
    BY <1>1, <2>1, <2>2, RunEndUnique DEF CallsEnd
<1>11. ResultsStart(g, i) = c
  <2>1. EndsRun(g, c, Interstitial, c)
    BY <1>1, <1>3, <1>8 DEF EndsRun, Interstitial
  <2>2. c \in 1..(Len(g) + 1)
    BY <1>1
  <2> QED
    BY <1>1, <1>10, <2>1, <2>2, RunEndUnique DEF ResultsStart
<1>12. LoopEnd(g, i) = b
  <2>1. EndsRun(g, c, {"ToolResult"}, b)
    BY <1>1, <1>3, <1>8, <1>9 DEF EndsRun
  <2>2. c \in 1..(Len(g) + 1)
    BY <1>1
  <2> QED
    BY <1>1, <1>11, <2>1, <2>2, RunEndUnique DEF LoopEnd
<1>13. i \in LoopStarts(g)
  BY <1>1, <1>4, <1>7, <1>10 DEF LoopStarts, OpensLoop
<1>14. Slipped(g, i) = 0
  BY <1>1, <1>10, <1>11 DEF Slipped
<1>15. b = e - (r - c)
  BY <1>1
<1>16. LoopOf(g, i) = i..(b - 1) /\ LoopOf(h, i) = i..(e - 1)
  BY <1>12 DEF LoopOf, e
<1>17. {k \in i..(b - 1) : g[k].kind = "ToolResult" /\ g[k].whole}
       = {k \in c..(b - 1) : g[k].whole}
  <2>1. \A k \in i..(b - 1) : g[k].kind = "ToolResult" => k \in c..(b - 1)
    <3> SUFFICES ASSUME NEW k \in i..(b - 1), g[k].kind = "ToolResult", k \notin c..(b - 1)
                 PROVE  FALSE
      OBVIOUS
    <3>1. k = i \/ k \in (i + 1)..(c - 1)
      BY <1>1
    <3>2. k \in i..(c - 1)
      BY <1>1, <3>1
    <3>3. h[k].kind = "ToolResult"
      BY <1>6, <3>2
    <3> QED
      BY <1>1, <3>1, <3>3
  <2>2. c..(b - 1) \subseteq i..(b - 1)
    BY <1>1
  <2> QED
    BY <1>8, <2>1, <2>2
<1>18. {k \in i..(e - 1) : h[k].kind = "ToolResult" /\ h[k].whole}
       = {k \in r..(e - 1) : h[k].whole}
  <2>1. \A k \in i..(e - 1) : h[k].kind = "ToolResult" => k \in r..(e - 1)
    <3> SUFFICES ASSUME NEW k \in i..(e - 1), h[k].kind = "ToolResult", k \notin r..(e - 1)
                 PROVE  FALSE
      OBVIOUS
    <3>1. k = i \/ k \in (i + 1)..(c - 1) \/ k \in c..(r - 1)
      BY <1>1
    <3> QED
      BY <1>1, <3>1 DEF Interstitial
  <2>2. r..(e - 1) \subseteq i..(e - 1)
    BY <1>1
  <2>3. \A k \in r..(e - 1) : h[k].kind = "ToolResult"
    BY <1>1
  <2> QED
    BY <2>1, <2>2, <2>3
<1>19. {g[k].call : k \in {k \in c..(b - 1) : g[k].whole}}
       = {h[k].call : k \in {k \in r..(e - 1) : h[k].whole}}
  <2>1. \A k \in c..(b - 1) : g[k] = h[k - c + r] /\ k - c + r \in r..(e - 1)
    BY <1>1 DEF Swapped
  <2>2. \A k \in r..(e - 1) : k - r + c \in c..(b - 1) /\ g[k - r + c] = h[k]
    <3> SUFFICES ASSUME NEW k \in r..(e - 1)
                 PROVE  k - r + c \in c..(b - 1) /\ g[k - r + c] = h[k]
      OBVIOUS
    <3>1. k - r + c \in c..(b - 1) /\ (k - r + c) - c + r = k
      BY <1>1
    <3> QED
      BY <2>1, <3>1
  <2> QED
    BY <2>1, <2>2
<1>20. AnsweredIn(g, LoopOf(g, i)) = AnsweredIn(h, LoopOf(h, i))
  BY <1>16, <1>17, <1>18, <1>19 DEF AnsweredIn
<1> QED
  BY <1>5, <1>12, <1>13, <1>14, <1>15, <1>20 DEF e

\* ... and it does so without touching another loop: each keeps its place, its extent and
\* its entries, so a pass over the loops may use the positions it started from.
THEOREM NormalizingSparesTheOthers ==
  ASSUME NEW E, NEW h \in Seq(E), NEW i \in LoopStarts(h), NEW j \in LoopStarts(h) \ {i},
         NEW g, g = MoveInterstitials(h, i)
  PROVE  /\ j \in LoopStarts(g) /\ LoopOf(g, j) = LoopOf(h, j) /\ Slipped(g, j) = Slipped(h, j)
         /\ \A k \in LoopOf(h, j) : g[k] = h[k]
<1> DEFINE n == Len(h)
           c == CallsEnd(h, i)
           r == ResultsStart(h, i)
           e == LoopEnd(h, i)
           cj == CallsEnd(h, j)
           rj == ResultsStart(h, j)
           ej == LoopEnd(h, j)
<1>1. /\ g \in Seq(E) /\ Len(g) = n /\ n \in Nat
      /\ i \in 1..n /\ h[i].kind = "Assistant"
      /\ c \in (i + 2)..(n + 1) /\ r \in c..(n + 1) /\ e \in r..(n + 1)
      /\ \A k \in (i + 1)..(c - 1) : h[k].kind = "ToolCall"
      /\ \A k \in c..(r - 1) : h[k].kind \in Interstitial
      /\ \A k \in r..(e - 1) : h[k].kind = "ToolResult"
      /\ Swapped(g, h, c, r, e)
  BY Moved
<1>2. /\ j \in 1..n /\ h[j].kind = "Assistant"
      /\ cj \in (j + 2)..(n + 1)
      /\ EndsRun(h, j + 1, {"ToolCall"}, cj)
      /\ EndsRun(h, cj, Interstitial, rj)
      /\ EndsRun(h, rj, {"ToolResult"}, ej)
  BY LoopParts
<1>3. DOMAIN g = 1..n /\ DOMAIN h = 1..n
  BY <1>1, LenProperties
<1>4. j # i
  OBVIOUS
<1> HIDE DEF n, c, r, e, cj, rj, ej
<1>5. /\ rj \in cj..(n + 1) /\ ej \in rj..(n + 1)
      /\ \A k \in (j + 1)..(cj - 1) : h[k].kind = "ToolCall"
      /\ \A k \in cj..(rj - 1) : h[k].kind \in Interstitial
      /\ \A k \in rj..(ej - 1) : h[k].kind = "ToolResult"
  BY <1>2 DEF EndsRun, n
\* No loop has an assistant entry behind its first, so the two do not overlap.
<1>6. i \notin (j + 1)..(ej - 1)
  <2>1. i \notin (j + 1)..(cj - 1) /\ i \notin cj..(rj - 1) /\ i \notin rj..(ej - 1)
    BY <1>1, <1>5 DEF Interstitial
  <2> QED
    BY <1>1, <1>2, <1>5, <2>1
<1>7. j \notin (i + 1)..(e - 1)
  <2>1. j \notin (i + 1)..(c - 1) /\ j \notin c..(r - 1) /\ j \notin r..(e - 1)
    BY <1>1, <1>2 DEF Interstitial
  <2> QED
    BY <1>1, <1>2, <2>1
<1>8. ej <= i \/ j >= e
  BY <1>1, <1>2, <1>4, <1>5, <1>6, <1>7
<1>9. \A k \in j..ej : k <= n => g[k] = h[k]
  <2> SUFFICES ASSUME NEW k \in j..ej, k <= n
               PROVE  g[k] = h[k]
    OBVIOUS
  <2>a. n \in Nat /\ i \in 1..n /\ c \in (i + 2)..(n + 1) /\ r \in c..(n + 1) /\ e \in r..(n + 1)
    BY <1>1
  <2>b. j \in 1..n /\ cj \in (j + 2)..(n + 1) /\ rj \in cj..(n + 1) /\ ej \in rj..(n + 1)
    BY <1>2, <1>5
  <2>0. /\ j \in Int /\ i \in Int /\ ej \in Int /\ c \in Int /\ e \in Int
        /\ 1 <= j /\ i < c /\ c <= e /\ n \in Nat
    BY <2>a, <2>b
  <2>1. k \in 1..n /\ (k < c \/ k >= e)
    BY <1>8, <2>0
  <2> QED
    BY <1>1, <2>1 DEF Swapped, n
<1>a. /\ j \in Int /\ cj \in Int /\ rj \in Int /\ ej \in Int /\ n \in Nat
      /\ 1 <= j /\ j + 2 <= cj /\ cj <= rj /\ rj <= ej /\ ej <= n + 1
  <2>1. j \in Int /\ 1 <= j /\ n \in Nat
    BY <1>1, <1>2
  <2>2. cj \in Int /\ j + 2 <= cj
    BY <1>2, <2>1
  <2>3. rj \in Int /\ cj <= rj /\ ej \in Int /\ rj <= ej /\ ej <= n + 1
    BY <1>5, <2>1, <2>2
  <2> QED
    BY <2>1, <2>2, <2>3
<1>10. CallsEnd(g, j) = cj
  <2>1. j + 1 \in 1..(n + 1) /\ \A k \in (j + 1)..cj : k <= n => g[k] = h[k]
    <3>1. j + 1 \in 1..(n + 1) /\ (j + 1)..cj \subseteq j..ej
      BY <1>a
    <3> QED
      BY <1>9, <3>1
  <2>2. RunEnd(g, j + 1, {"ToolCall"}) = cj
    BY <1>1, <1>2, <2>1, RunKept DEF n
  <2> QED
    BY <2>2 DEF CallsEnd
<1>11. ResultsStart(g, j) = rj
  <2>1. cj \in 1..(n + 1) /\ \A k \in cj..rj : k <= n => g[k] = h[k]
    <3>1. cj \in 1..(n + 1) /\ cj..rj \subseteq j..ej
      BY <1>a
    <3> QED
      BY <1>9, <3>1
  <2>2. RunEnd(g, cj, Interstitial) = rj
    BY <1>1, <1>2, <2>1, RunKept DEF n
  <2> QED
    BY <1>10, <2>2 DEF ResultsStart
<1>12. LoopEnd(g, j) = ej
  <2>1. rj \in 1..(n + 1) /\ \A k \in rj..ej : k <= n => g[k] = h[k]
    <3>1. rj \in 1..(n + 1) /\ rj..ej \subseteq j..ej
      BY <1>a
    <3> QED
      BY <1>9, <3>1
  <2>2. RunEnd(g, rj, {"ToolResult"}) = ej
    BY <1>1, <1>2, <2>1, RunKept DEF n
  <2> QED
    BY <1>11, <2>2 DEF LoopEnd
<1>13. g[j] = h[j]
  <2>1. j \in j..ej /\ j <= n
    BY <1>a, <1>2
  <2> QED
    BY <1>9, <2>1
<1>14. j \in LoopStarts(g)
  BY <1>1, <1>2, <1>3, <1>10, <1>13 DEF LoopStarts, OpensLoop
<1>15. LoopOf(g, j) = j..(ej - 1) /\ LoopOf(h, j) = j..(ej - 1)
  BY <1>12 DEF LoopOf, ej
<1>16. \A k \in j..(ej - 1) : g[k] = h[k]
  <2>1. \A k \in j..(ej - 1) : k \in j..ej /\ k <= n
    BY <1>a
  <2> QED
    BY <1>9, <2>1
<1>17. Slipped(g, j) = Slipped(h, j)
  BY <1>10, <1>11 DEF Slipped, cj, rj
<1> QED
  BY <1>14, <1>15, <1>16, <1>17

-----------------------------------------------------------------------------
(* The whole pass. *)

IsPass(p, s, n) ==
  p = [i \in 0..n |-> IF i = 0 THEN s ELSE NormalizeStep(p[i - 1], i)]

LEMMA PassExists ==
  ASSUME NEW s, NEW n \in Nat
  PROVE  \E p : IsPass(p, s, n)
<1> DEFINE Failing == {m \in Nat : ~\E p : IsPass(p, s, m)}
<1> SUFFICES ASSUME Failing # {} PROVE FALSE
  OBVIOUS
<1>1. PICK m \in Failing : \A y \in Failing : m <= y
  BY LeastExists
<1>2. m # 0
  <2>1. IsPass([i \in 0..0 |-> s], s, 0)
    BY DEF IsPass
  <2> QED
    BY <1>1, <2>1
<1>3. m \in Nat /\ m - 1 \in Nat /\ ~(m <= m - 1)
  BY <1>1, <1>2
<1>4. PICK p : IsPass(p, s, m - 1)
  BY <1>1, <1>3
<1> DEFINE q == [i \in 0..m |-> IF i <= m - 1 THEN p[i] ELSE NormalizeStep(p[m - 1], m)]
<1>5. /\ \A i \in 0..(m - 1) : q[i] = p[i]
      /\ q[m] = NormalizeStep(p[m - 1], m)
      /\ p[0] = s /\ \A i \in 1..(m - 1) : p[i] = NormalizeStep(p[i - 1], i)
  BY <1>3, <1>4 DEF IsPass
<1>6. \A i \in 0..m : q[i] = IF i = 0 THEN s ELSE NormalizeStep(q[i - 1], i)
  <2> SUFFICES ASSUME NEW i \in 0..m
               PROVE  q[i] = IF i = 0 THEN s ELSE NormalizeStep(q[i - 1], i)
    OBVIOUS
  <2>1. i = 0 \/ i \in 1..(m - 1) \/ i = m
    BY <1>3
  <2>2. CASE i = 0
    BY <1>3, <1>5, <2>2
  <2>3. CASE i \in 1..(m - 1)
    <3>1. i \in 0..(m - 1) /\ i - 1 \in 0..(m - 1) /\ i # 0
      BY <1>3, <2>3
    <3> QED
      BY <1>5, <2>3, <3>1
  <2>4. CASE i = m
    <3>1. m - 1 \in 0..(m - 1)
      BY <1>3
    <3> QED
      BY <1>2, <1>5, <2>4, <3>1
  <2> QED
    BY <2>1, <2>2, <2>3, <2>4
<1>7. IsPass(q, s, m)
  BY <1>6 DEF IsPass
<1> QED
  BY <1>1, <1>7

\* The pass is the sequence of sessions its steps produce.
LEMMA PassTaken ==
  ASSUME NEW s, Len(s.history) \in Nat
  PROVE  \E p : IsPass(p, s, Len(s.history)) /\ Normalized(s) = p[Len(s.history)]
<1> DEFINE P == CHOOSE p : IsPass(p, s, Len(s.history))
<1>1. IsPass(P, s, Len(s.history))
  BY PassExists
<1>2. Normalized(s) = P[Len(s.history)]
  BY DEF Normalized, IsPass
<1> QED
  BY <1>1, <1>2

\* Nothing stands between the calls of the loop and its results, if it has results.
Closed(h, j) == Slipped(h, j) = 0 \/ \A k \in LoopOf(h, j) : h[k].kind # "ToolResult"

Permutes(g, h) ==
  \E p \in Bijection(DOMAIN h, DOMAIN h) : \A k \in DOMAIN h : g[k] = h[p[k]]

\* g is h with its loops kept, in the order they had, and none opened.
Tidier(g, h) ==
  /\ DOMAIN g = DOMAIN h /\ LoopStarts(g) = LoopStarts(h)
  /\ \A j \in LoopStarts(h) :
       /\ AnsweredIn(g, LoopOf(g, j)) = AnsweredIn(h, LoopOf(h, j))
       /\ IsComplete(h, j) => IsComplete(g, j)
       /\ Closed(h, j) => Closed(g, j)

LEMMA PermutesTwice ==
  ASSUME NEW f, NEW g, NEW h, DOMAIN g = DOMAIN h, Permutes(f, g), Permutes(g, h)
  PROVE  Permutes(f, h)
<1> DEFINE D == DOMAIN h
<1>1. PICK p \in Bijection(D, D) : \A k \in D : f[k] = g[p[k]]
  BY DEF Permutes
<1>2. PICK q \in Bijection(D, D) : \A k \in D : g[k] = h[q[k]]
  BY DEF Permutes
<1> DEFINE r == [k \in D |-> q[p[k]]]
<1> HIDE DEF D
<1>3. /\ p \in [D -> D] /\ \A a, b \in D : p[a] = p[b] => a = b
      /\ \A b \in D : \E a \in D : p[a] = b
  BY <1>1 DEF Bijection, Injection, Surjection, IsInjective
<1>4. /\ q \in [D -> D] /\ \A a, b \in D : q[a] = q[b] => a = b
      /\ \A b \in D : \E a \in D : q[a] = b
  BY <1>2 DEF Bijection, Injection, Surjection, IsInjective
<1>5. r \in [D -> D] /\ \A a, b \in D : r[a] = r[b] => a = b
  BY <1>3, <1>4
<1>6. \A b \in D : \E a \in D : r[a] = b
  BY <1>3, <1>4
<1>7. r \in Bijection(D, D)
  BY <1>5, <1>6 DEF Bijection, Injection, Surjection, IsInjective
<1>8. \A k \in D : f[k] = h[r[k]]
  BY <1>1, <1>2, <1>3
<1> QED
  BY <1>7, <1>8 DEF Permutes, D

LEMMA TidierTwice ==
  ASSUME NEW f, NEW g, NEW h, Tidier(f, g), Tidier(g, h)
  PROVE  Tidier(f, h)
BY DEF Tidier

LEMMA UnchangedTidy ==
  ASSUME NEW h
  PROVE  Tidier(h, h) /\ Permutes(h, h)
<1> DEFINE p == [k \in DOMAIN h |-> k]
<1>1. p \in Bijection(DOMAIN h, DOMAIN h)
  BY DEF Bijection, Injection, Surjection, IsInjective
<1> QED
  BY <1>1 DEF Tidier, Permutes

\* A loop without results is closed as it stands, and its step does nothing.
LEMMA NothingToMove ==
  ASSUME NEW E, NEW h \in Seq(E), NEW i \in LoopStarts(h), ResultsStart(h, i) = LoopEnd(h, i)
  PROVE  MoveInterstitials(h, i) = h /\ Closed(h, i)
<1> DEFINE n == Len(h)
           c == CallsEnd(h, i)
           r == ResultsStart(h, i)
           e == LoopEnd(h, i)
           g == MoveInterstitials(h, i)
<1>1. /\ g \in Seq(E) /\ Len(g) = n /\ n \in Nat
      /\ i \in 1..n /\ h[i].kind = "Assistant"
      /\ c \in (i + 2)..(n + 1) /\ r \in c..(n + 1) /\ e \in r..(n + 1)
      /\ \A k \in (i + 1)..(c - 1) : h[k].kind = "ToolCall"
      /\ \A k \in c..(r - 1) : h[k].kind \in Interstitial
      /\ Swapped(g, h, c, r, e)
  BY Moved
<1>2. LoopOf(h, i) = i..(e - 1) /\ r = e
  BY DEF LoopOf
<1>3. DOMAIN g = 1..n /\ DOMAIN h = 1..n
  BY <1>1, LenProperties
<1> HIDE DEF n, c, r, e, g
<1>4. \A k \in 1..n : g[k] = h[k]
  <2> SUFFICES ASSUME NEW k \in 1..n PROVE g[k] = h[k]
    OBVIOUS
  <2>1. k < c \/ k >= e \/ (k \in (c + (e - r))..(e - 1) /\ k - (e - r) = k)
    BY <1>1, <1>2
  <2> QED
    BY <2>1, <1>1 DEF n, Swapped
<1>5. g = h
  <2>1. \A a \in Seq(E), b \in Seq(E) :
          Len(a) = Len(b) /\ (\A k \in 1..Len(a) : a[k] = b[k]) => a = b
    BY SeqEqual
  <2> QED
    BY <1>1, <1>4, <2>1 DEF n
<1>6. \A k \in i..(e - 1) : h[k].kind # "ToolResult"
  <2> SUFFICES ASSUME NEW k \in i..(e - 1) PROVE h[k].kind # "ToolResult"
    OBVIOUS
  <2>1. k = i \/ k \in (i + 1)..(c - 1) \/ k \in c..(r - 1)
    BY <1>1, <1>2
  <2> QED
    BY <1>1, <2>1 DEF Interstitial
<1> QED
  BY <1>2, <1>5, <1>6 DEF Closed, g

\* One step keeps every loop and closes the one it is at.
LEMMA StepTidies ==
  ASSUME NEW E, NEW h \in Seq(E), NEW i \in LoopStarts(h),
         NEW g, g = MoveInterstitials(h, i)
  PROVE  Tidier(g, h) /\ Permutes(g, h) /\ g \in Seq(E) /\ Closed(g, i)
<1> DEFINE c == CallsEnd(h, i)
           r == ResultsStart(h, i)
           e == LoopEnd(h, i)
<1>1. /\ g \in Seq(E) /\ Len(g) = Len(h) /\ Len(h) \in Nat
      /\ i \in 1..Len(h) /\ h[i].kind = "Assistant"
      /\ c \in (i + 2)..(Len(h) + 1) /\ r \in c..(Len(h) + 1) /\ e \in r..(Len(h) + 1)
      /\ \A k \in (i + 1)..(c - 1) : h[k].kind = "ToolCall"
      /\ \A k \in c..(r - 1) : h[k].kind \in Interstitial
      /\ \A k \in r..(e - 1) : h[k].kind = "ToolResult"
      /\ Swapped(g, h, c, r, e)
  BY Moved
<1>2. Permutes(g, h)
  BY NormalizingPermutes DEF Permutes
<1>3. CASE r = e
  <2>1. g = h /\ Closed(h, i)
    BY <1>3, NothingToMove
  <2> QED
    BY <1>1, <1>2, <2>1, UnchangedTidy
<1>4. CASE r # e
  <2>1. r < e
    BY <1>1, <1>4
  <2>2. /\ i \in LoopStarts(g) /\ Slipped(g, i) = 0
        /\ LoopEnd(g, i) = LoopEnd(h, i) - Slipped(h, i)
        /\ AnsweredIn(g, LoopOf(g, i)) = AnsweredIn(h, LoopOf(h, i))
    BY <2>1, NormalizingClosesTheLoop
  <2>3. \A j \in LoopStarts(h) \ {i} :
          /\ j \in LoopStarts(g) /\ LoopOf(g, j) = LoopOf(h, j) /\ Slipped(g, j) = Slipped(h, j)
          /\ \A k \in LoopOf(h, j) : g[k] = h[k]
    BY NormalizingSparesTheOthers
  <2>4. DOMAIN g = 1..Len(h) /\ DOMAIN h = 1..Len(h)
    BY <1>1, LenProperties
  <2> HIDE DEF c, r, e
  <2>5. \A k \in 1..Len(h) :
          g[k] = h[k] \/ (k \in c..(e - 1) /\ g[k].kind \notin {"Assistant", "ToolCall"})
    <3> SUFFICES ASSUME NEW k \in 1..Len(h), ~(k < c \/ k >= e)
                 PROVE  k \in c..(e - 1) /\ g[k].kind \notin {"Assistant", "ToolCall"}
      BY <1>1 DEF Swapped
    <3>1. k \in c..(e - 1)
      BY <1>1
    <3>2. CASE k \in c..(c + (e - r) - 1)
      <4>1. g[k] = h[k - c + r] /\ k - c + r \in r..(e - 1)
        BY <1>1, <3>2 DEF Swapped
      <4> QED
        BY <1>1, <3>1, <4>1
    <3>3. CASE k \notin c..(c + (e - r) - 1)
      <4>1. k \in (c + (e - r))..(e - 1)
        BY <1>1, <3>1, <3>3
      <4>2. g[k] = h[k - (e - r)] /\ k - (e - r) \in c..(r - 1)
        BY <1>1, <4>1 DEF Swapped
      <4> QED
        BY <1>1, <3>1, <4>2 DEF Interstitial
    <3> QED
      BY <3>2, <3>3
  <2>6. LoopStarts(g) \subseteq LoopStarts(h)
    <3> SUFFICES ASSUME NEW j \in LoopStarts(g) PROVE j \in LoopStarts(h)
      OBVIOUS
    <3>1. /\ j \in 1..Len(g) /\ g[j].kind = "Assistant"
          /\ CallsEnd(g, j) \in (j + 2)..(Len(g) + 1)
          /\ EndsRun(g, j + 1, {"ToolCall"}, CallsEnd(g, j))
      BY <1>1, LoopParts
    <3>2. j + 1 \in (j + 1)..(CallsEnd(g, j) - 1) /\ j + 1 \in 1..Len(h)
      BY <1>1, <3>1
    <3>3. g[j + 1].kind = "ToolCall"
      BY <3>1, <3>2 DEF EndsRun
    <3>4. h[j].kind = "Assistant" /\ h[j + 1].kind = "ToolCall"
      BY <1>1, <2>5, <3>1, <3>2, <3>3
    <3>5. j + 1 \in 1..(Len(h) + 1)
      BY <1>1, <3>2
    <3>6. EndsRun(h, j + 1, {"ToolCall"}, CallsEnd(h, j))
      BY <3>5, RunEnds DEF CallsEnd
    <3>7. CallsEnd(h, j) \in (j + 1)..(Len(h) + 1) /\ CallsEnd(h, j) # j + 1
      BY <1>1, <3>2, <3>4, <3>6 DEF EndsRun
    <3>8. CallsEnd(h, j) > j + 1
      BY <1>1, <3>2, <3>7
    <3> QED
      BY <1>1, <2>4, <3>1, <3>4, <3>8 DEF LoopStarts, OpensLoop
  <2>7. IsComplete(h, i) => IsComplete(g, i)
    <3> SUFFICES ASSUME IsComplete(h, i), NEW k \in LoopOf(g, i), g[k].kind = "ToolCall"
                 PROVE  g[k].call \in AnsweredIn(g, LoopOf(g, i))
      BY DEF IsComplete
    <3>1. LoopEnd(g, i) = e - (r - c)
      BY <2>2 DEF Slipped, c, r, e
    <3>2. k \in i..(e - 1) /\ k \in 1..Len(h)
      BY <1>1, <3>1 DEF LoopOf
    <3>3. g[k] = h[k]
      BY <2>5, <3>2
    <3>4. k \in LoopOf(h, i)
      BY <3>2 DEF LoopOf, e
    <3> QED
      BY <2>2, <3>3, <3>4 DEF IsComplete
  <2>8. \A j \in LoopStarts(h) :
          /\ AnsweredIn(g, LoopOf(g, j)) = AnsweredIn(h, LoopOf(h, j))
          /\ IsComplete(h, j) => IsComplete(g, j)
          /\ Closed(h, j) => Closed(g, j)
    <3> SUFFICES ASSUME NEW j \in LoopStarts(h) \ {i}
                 PROVE  /\ AnsweredIn(g, LoopOf(g, j)) = AnsweredIn(h, LoopOf(h, j))
                        /\ IsComplete(h, j) => IsComplete(g, j)
                        /\ Closed(h, j) => Closed(g, j)
      BY <2>2, <2>7 DEF Closed
    <3>1. AnsweredIn(g, LoopOf(g, j)) = AnsweredIn(h, LoopOf(h, j))
      BY <2>3 DEF AnsweredIn
    <3> QED
      BY <2>3, <3>1 DEF IsComplete, Closed
  <2>9. LoopStarts(g) = LoopStarts(h)
    BY <2>2, <2>3, <2>6
  <2> QED
    BY <1>1, <1>2, <2>2, <2>4, <2>8, <2>9 DEF Tidier, Closed
<1> QED
  BY <1>3, <1>4

-----------------------------------------------------------------------------
(* Sessions. *)

Shaped(s) ==
  s = [phase |-> s.phase, history |-> s.history, tracked |-> s.tracked, next |-> s.next]

TrackedOK(f) ==
  /\ f = [slot \in DOMAIN f |-> f[slot]]
  /\ \A slot \in DOMAIN f : f[slot] \in [at : Nat \ {0}, id : Nat]

\* A normalized session: only the order of its entries, and where its slots point, differ.
Reordered(t, s) ==
  /\ Shaped(t) /\ t.phase = s.phase /\ t.next = s.next
  /\ TrackedOK(t.tracked) /\ DOMAIN t.tracked = DOMAIN s.tracked
  /\ Permutes(t.history, s.history) /\ Tidier(t.history, s.history)

\* One step of the pass: the session keeps all but an order, and the loop it looks at is closed.
LEMMA StepReorders ==
  ASSUME NEW E, NEW s, Shaped(s), TrackedOK(s.tracked), s.history \in Seq(E),
         NEW i \in DOMAIN s.history, NEW t, t = NormalizeStep(s, i)
  PROVE  /\ Reordered(t, s) /\ t.history \in Seq(E)
         /\ i \in LoopStarts(s.history) => Closed(t.history, i)
<1> DEFINE h == s.history
           slipped == Slipped(h, i)
           back == LoopEnd(h, i) - slipped
           moved == [slot \in DOMAIN s.tracked |->
                       IF s.tracked[slot].at >= back
                       THEN MovedTo(s.tracked[slot], s.tracked[slot].at + slipped)
                       ELSE s.tracked[slot]]
<1>1. CASE i \notin LoopStarts(h)
  <2>1. t = s
    BY <1>1 DEF NormalizeStep, LoopStarts
  <2> QED
    BY <1>1, <2>1, UnchangedTidy DEF Reordered
<1>2. CASE i \in LoopStarts(h)
  <2>1. Tidier(MoveInterstitials(h, i), h) /\ Permutes(MoveInterstitials(h, i), h)
        /\ MoveInterstitials(h, i) \in Seq(E) /\ Closed(MoveInterstitials(h, i), i)
    BY <1>2, StepTidies
  <2>2. slipped \in Nat
    <3>1. /\ CallsEnd(h, i) \in (i + 2)..(Len(h) + 1) /\ Len(h) \in Nat /\ i \in 1..Len(h)
          /\ ResultsStart(h, i) \in CallsEnd(h, i)..(Len(h) + 1)
      BY <1>2, Moved
    <3> QED
      BY <3>1 DEF Slipped
  <2>3. t = [s EXCEPT !.history = MoveInterstitials(h, i), !.tracked = moved]
    BY <1>2 DEF NormalizeStep, LoopStarts
  <2> HIDE DEF slipped, back
  <2>4. /\ t.phase = s.phase /\ t.next = s.next /\ t.tracked = moved
        /\ t.history = MoveInterstitials(h, i) /\ Shaped(t)
    BY <2>3 DEF Shaped
  <2>5. TrackedOK(moved) /\ DOMAIN moved = DOMAIN s.tracked
    BY <2>2 DEF TrackedOK, MovedTo
  <2> QED
    BY <2>1, <2>4, <2>5 DEF Reordered
<1> QED
  BY <1>1, <1>2

\* Hence so does any number of steps.
LEMMA ReorderedTwice ==
  ASSUME NEW r, NEW s, NEW t, Reordered(r, s), Reordered(s, t)
  PROVE  Reordered(r, t)
<1>1. DOMAIN s.history = DOMAIN t.history
  BY DEF Reordered, Tidier
<1> QED
  BY <1>1, PermutesTwice, TidierTwice DEF Reordered

\* apply_tool_call_ordering over a whole history.  Whatever the history, the pass only
\* reorders it; every loop keeps its opening call, its answered calls and its
\* completeness; and in the end no loop has anything between its calls and its results.
THEOREM NormalizingClosesEveryLoop ==
  ASSUME NEW E, NEW s, Shaped(s), TrackedOK(s.tracked), s.history \in Seq(E),
         NEW t, t = Normalized(s)
  PROVE  /\ Reordered(t, s) /\ t.history \in Seq(E)
         /\ \A j \in LoopStarts(t.history) : Closed(t.history, j)
<1> DEFINE n == Len(s.history)
           Done(u, k) == /\ Reordered(u, s) /\ u.history \in Seq(E)
                         /\ \A j \in LoopStarts(s.history) : j <= k => Closed(u.history, j)
<1>1. n \in Nat /\ DOMAIN s.history = 1..n
  BY LenProperties
<1>2. PICK p : IsPass(p, s, n) /\ t = p[n]
  BY <1>1, PassTaken
<1>3. p[0] = s /\ \A i \in 1..n : p[i] = NormalizeStep(p[i - 1], i)
  BY <1>1, <1>2 DEF IsPass
<1>4. Done(s, 0)
  <2>1. \A j \in LoopStarts(s.history) : ~(j <= 0)
    BY <1>1 DEF LoopStarts
  <2> QED
    BY <2>1, UnchangedTidy DEF Reordered
<1> HIDE DEF n
<1>5. ASSUME NEW k \in 1..n, Done(p[k - 1], k - 1)
      PROVE  Done(p[k], k)
  <2> DEFINE u == p[k - 1]
             v == p[k]
  <2>1. /\ Shaped(u) /\ TrackedOK(u.tracked) /\ u.history \in Seq(E) /\ v = NormalizeStep(u, k)
        /\ Reordered(u, s)
        /\ \A j \in LoopStarts(s.history) : j <= k - 1 => Closed(u.history, j)
    BY <1>3, <1>5 DEF Reordered
  <2>2. /\ DOMAIN u.history = 1..n /\ LoopStarts(u.history) = LoopStarts(s.history)
        /\ LoopStarts(s.history) \subseteq 1..n
    BY <1>1, <2>1 DEF Reordered, Tidier, LoopStarts
  <2> HIDE DEF u, v
  <2>3. /\ Reordered(v, u) /\ v.history \in Seq(E)
        /\ k \in LoopStarts(u.history) => Closed(v.history, k)
    BY <2>1, <2>2, StepReorders
  <2>4. Reordered(v, s)
    BY <2>1, <2>3, ReorderedTwice
  <2>5. ASSUME NEW j \in LoopStarts(s.history), j <= k
        PROVE  Closed(v.history, j)
    <3>1. CASE j = k
      BY <2>2, <2>3, <3>1
    <3>2. CASE j # k
      <4>1. j <= k - 1
        BY <1>1, <2>2, <2>5, <3>2
      <4> QED
        BY <2>1, <2>2, <2>3, <4>1 DEF Reordered, Tidier
    <3> QED
      BY <3>1, <3>2
  <2> QED
    BY <2>3, <2>4, <2>5 DEF v
<1>6. Done(t, n)
  <2> HIDE DEF Done
  <2> DEFINE Missed == {k \in 0..n : ~Done(p[k], k)}
  <2> SUFFICES ASSUME Missed # {} PROVE FALSE
    BY <1>1, <1>2
  <2>1. Missed \in SUBSET Nat
    BY <1>1
  <2>2. PICK k \in Missed : \A y \in Missed : k <= y
    BY <2>1, LeastExists
  <2>3. k # 0
    BY <1>3, <1>4, <2>2
  <2>4. k \in 1..n /\ k - 1 \in 0..n /\ ~(k <= k - 1)
    BY <1>1, <2>2, <2>3
  <2>5. Done(p[k - 1], k - 1)
    BY <2>2, <2>4
  <2> QED
    BY <1>5, <2>2, <2>4, <2>5
<1>7. \A j \in LoopStarts(t.history) : j \in LoopStarts(s.history) /\ j <= n
  BY <1>1, <1>6 DEF Reordered, Tidier, LoopStarts
<1> QED
  BY <1>6, <1>7

-----------------------------------------------------------------------------
(* The removal. *)

Rest(rest, h, dropped, k) == IF k \in dropped THEN rest ELSE Append(rest, h[k])

KeepsRest(p, h, dropped, n) ==
  p = [k \in 0..n |-> IF k = 0 THEN <<>> ELSE Rest(p[k - 1], h, dropped, k)]

LEMMA RestExists ==
  ASSUME NEW h, NEW dropped, NEW n \in Nat
  PROVE  \E p : KeepsRest(p, h, dropped, n)
<1> DEFINE Failing == {m \in Nat : ~\E p : KeepsRest(p, h, dropped, m)}
<1> SUFFICES ASSUME Failing # {} PROVE FALSE
  OBVIOUS
<1>1. PICK m \in Failing : \A y \in Failing : m <= y
  BY LeastExists
<1>2. m # 0
  <2>1. KeepsRest([i \in 0..0 |-> <<>>], h, dropped, 0)
    BY DEF KeepsRest
  <2> QED
    BY <1>1, <2>1
<1>3. m \in Nat /\ m - 1 \in Nat /\ ~(m <= m - 1)
  BY <1>1, <1>2
<1>4. PICK p : KeepsRest(p, h, dropped, m - 1)
  BY <1>1, <1>3
<1> DEFINE q == [i \in 0..m |-> IF i <= m - 1 THEN p[i] ELSE Rest(p[m - 1], h, dropped, m)]
<1>5. p[0] = <<>> /\ \A i \in 1..(m - 1) : p[i] = Rest(p[i - 1], h, dropped, i)
  BY <1>3, <1>4 DEF KeepsRest
<1>6. /\ \A i \in 0..(m - 1) : q[i] = p[i]
      /\ q[m] = Rest(p[m - 1], h, dropped, m)
  BY <1>3
<1>7. \A i \in 0..m : q[i] = IF i = 0 THEN <<>> ELSE Rest(q[i - 1], h, dropped, i)
  <2> SUFFICES ASSUME NEW i \in 0..m
               PROVE  q[i] = IF i = 0 THEN <<>> ELSE Rest(q[i - 1], h, dropped, i)
    OBVIOUS
  <2>1. i = 0 \/ i \in 1..(m - 1) \/ i = m
    BY <1>3
  <2>2. CASE i = 0
    BY <1>3, <1>5, <1>6, <2>2
  <2>3. CASE i \in 1..(m - 1)
    <3>1. i \in 0..(m - 1) /\ i - 1 \in 0..(m - 1) /\ i # 0
      BY <1>3, <2>3
    <3> QED
      BY <1>5, <1>6, <2>3, <3>1
  <2>4. CASE i = m
    <3>1. m - 1 \in 0..(m - 1)
      BY <1>3
    <3> QED
      BY <1>2, <1>6, <2>4, <3>1
  <2> QED
    BY <2>1, <2>2, <2>3, <2>4
<1>8. KeepsRest(q, h, dropped, m)
  BY <1>7 DEF KeepsRest
<1> QED
  BY <1>1, <1>8

\* The entries of g are entries at different positions of the first n of h.
Drawn(g, h, n) ==
  /\ \A j \in DOMAIN g : \E a \in 1..n : g[j] = h[a]
  /\ \A j, k \in DOMAIN g :
       j # k => \E a, b \in 1..n : a # b /\ g[j] = h[a] /\ g[k] = h[b]

LEMMA DrawnAppend ==
  ASSUME NEW E, NEW h \in Seq(E), NEW n \in 1..Len(h), NEW g \in Seq(E), Drawn(g, h, n - 1)
  PROVE  /\ Drawn(g, h, n)
         /\ Append(g, h[n]) \in Seq(E) /\ Drawn(Append(g, h[n]), h, n)
<1> DEFINE f == Append(g, h[n])
<1>1. /\ n \in Nat /\ n \in 1..n /\ \A a \in 1..(n - 1) : a \in 1..n /\ a # n
      /\ h[n] \in E
  OBVIOUS
<1>2. Drawn(g, h, n)
  <2>1. \A a \in 1..(n - 1) : a \in 1..n
    BY <1>1
  <2>2. ASSUME NEW j \in DOMAIN g PROVE \E a \in 1..n : g[j] = h[a]
    BY <2>1 DEF Drawn
  <2>3. ASSUME NEW j \in DOMAIN g, NEW k \in DOMAIN g, j # k
        PROVE  \E a, b \in 1..n : a # b /\ g[j] = h[a] /\ g[k] = h[b]
    <3>1. PICK a \in 1..(n - 1), b \in 1..(n - 1) : a # b /\ g[j] = h[a] /\ g[k] = h[b]
      BY <2>3 DEF Drawn
    <3> QED
      BY <2>1, <3>1
  <2> QED
    BY <2>2, <2>3 DEF Drawn
<1>3. /\ f \in Seq(E) /\ DOMAIN g = 1..Len(g) /\ Len(g) \in Nat
      /\ DOMAIN f = 1..(Len(g) + 1) /\ f[Len(g) + 1] = h[n]
      /\ \A k \in 1..Len(g) : f[k] = g[k]
  BY <1>1
<1>4. \A j \in DOMAIN f : j \in DOMAIN g \/ j = Len(g) + 1
  BY <1>3
<1> HIDE DEF f
<1>5. ASSUME NEW j \in DOMAIN f PROVE \E a \in 1..n : f[j] = h[a]
  <2>1. CASE j \in DOMAIN g
    <3>1. PICK a \in 1..n : g[j] = h[a]
      BY <1>2, <2>1 DEF Drawn
    <3> QED
      BY <1>3, <2>1, <3>1
  <2> QED
    BY <1>1, <1>3, <1>4, <2>1
<1>6. ASSUME NEW j \in DOMAIN f, NEW k \in DOMAIN f, j # k
      PROVE  \E a, b \in 1..n : a # b /\ f[j] = h[a] /\ f[k] = h[b]
  <2>1. CASE j \in DOMAIN g /\ k \in DOMAIN g
    <3>1. PICK a \in 1..n, b \in 1..n : a # b /\ g[j] = h[a] /\ g[k] = h[b]
      BY <1>2, <1>6, <2>1 DEF Drawn
    <3> QED
      BY <1>3, <2>1, <3>1
  <2>2. CASE j \in DOMAIN g /\ k = Len(g) + 1
    <3>1. PICK a \in 1..(n - 1) : g[j] = h[a]
      BY <2>2 DEF Drawn
    <3> QED
      BY <1>1, <1>3, <2>2, <3>1
  <2>3. CASE j = Len(g) + 1 /\ k \in DOMAIN g
    <3>1. PICK b \in 1..(n - 1) : g[k] = h[b]
      BY <2>3 DEF Drawn
    <3> QED
      BY <1>1, <1>3, <2>3, <3>1
  <2> QED
    BY <1>4, <1>6, <2>1, <2>2, <2>3
<1> QED
  BY <1>2, <1>3, <1>5, <1>6 DEF Drawn, f

\* What is removed leaves the other entries, each once.
LEMMA WithoutKeeps ==
  ASSUME NEW E, NEW h \in Seq(E), NEW dropped, NEW g, g = Without(h, dropped)
  PROVE  g \in Seq(E) /\ Drawn(g, h, Len(h))
<1> DEFINE n == Len(h)
           P == CHOOSE p : KeepsRest(p, h, dropped, Len(h))
           Missed == {k \in 0..n : ~(P[k] \in Seq(E) /\ Drawn(P[k], h, k))}
<1>1. n \in Nat
  OBVIOUS
<1>2. KeepsRest(P, h, dropped, n)
  BY <1>1, RestExists
<1>3. g = P[n]
  BY DEF Without, KeepsRest, Rest
<1> HIDE DEF n, P
<1>4. /\ P[0] = <<>>
      /\ \A k \in 1..n : P[k] = Rest(P[k - 1], h, dropped, k)
  BY <1>1, <1>2 DEF KeepsRest
<1>5. SUFFICES ASSUME Missed # {} PROVE FALSE
  BY <1>1, <1>3 DEF n
<1>6. Missed \in SUBSET Nat
  BY <1>1
<1>7. PICK k \in Missed : \A y \in Missed : k <= y
  BY <1>5, <1>6, LeastExists
<1>8. k # 0
  <2>1. <<>> \in Seq(E) /\ Drawn(<<>>, h, 0)
    BY DEF Drawn
  <2> QED
    BY <1>4, <1>7, <2>1
<1>9. k \in 1..n /\ k - 1 \in 0..n /\ ~(k <= k - 1)
  BY <1>1, <1>7, <1>8
<1>10. P[k - 1] \in Seq(E) /\ Drawn(P[k - 1], h, k - 1)
  BY <1>7, <1>9
<1>11. P[k] \in Seq(E) /\ Drawn(P[k], h, k)
  <2>1. /\ Drawn(P[k - 1], h, k)
        /\ Append(P[k - 1], h[k]) \in Seq(E) /\ Drawn(Append(P[k - 1], h[k]), h, k)
    BY <1>9, <1>10, DrawnAppend DEF n
  <2> QED
    BY <1>4, <1>9, <1>10, <2>1 DEF Rest
<1> QED
  BY <1>7, <1>11

-----------------------------------------------------------------------------
(* What the edits of a session keep.  n is the number of generations. *)

Ids(n) == {NoCall} \cup {<<g, k>> : g \in 1..n, k \in 1..MaxCalls}
EntriesOf(n, next) ==
  [id : 1..(next - 1), kind : Kinds, call : Ids(n), from : SUBSET (1..n),
   whole : BOOLEAN, excluded : BOOLEAN]
NewEntries(n) ==
  [id : {0}, kind : Kinds, call : Ids(n), from : SUBSET (1..n),
   whole : BOOLEAN, excluded : BOOLEAN]
Slots(n) == {AssistantSlot, ThinkingSlot} \cup {CallSlot(k) : k \in 1..MaxCalls}
            \cup {ResultSlot(c) : c \in Ids(n)}

\* A session after n dispatches: its types, and no slot is kept outside a stream.
SessionOK(s, n) ==
  /\ Shaped(s) /\ s.phase \in Phases /\ s.next \in Nat \ {0}
  /\ s.history \in Seq(EntriesOf(n, s.next))
  /\ TrackedOK(s.tracked) /\ DOMAIN s.tracked \subseteq Slots(n)
  /\ s.phase # "Streaming" => s.tracked = NoTracking

\* What an edit does to the results of a history: it adds none to a call without one,
\* and doubles none.
NoResult(h, c) == \A k \in DOMAIN h : h[k].kind = "ToolResult" => h[k].call # c
ResultsOnce(h) ==
  \A j, k \in DOMAIN h :
     h[j].kind = "ToolResult" /\ h[k].kind = "ToolResult" /\ h[j].call = h[k].call => j = k
ResultsStay(h, g) ==
  /\ \A c : NoResult(h, c) => NoResult(g, c)
  /\ ResultsOnce(h) => ResultsOnce(g)

\* What the phase machine tracks: every slot its own entry, reasoning before content.
Own(s) ==
  \A slot \in DOMAIN s.tracked :
     /\ s.tracked[slot].at \in DOMAIN s.history
     /\ s.history[s.tracked[slot].at].id = s.tracked[slot].id
Placed(s) ==
  ThinkingSlot \in DOMAIN s.tracked /\ AssistantSlot \in DOMAIN s.tracked
    => s.tracked[ThinkingSlot].at < s.tracked[AssistantSlot].at
Indexed(s) == Own(s) /\ Placed(s)

\* t is s after an edit that adds no result.
Edits(s, t, n) ==
  SessionOK(t, n) /\ ResultsStay(s.history, t.history) /\ (Indexed(s) => Indexed(t))

LEMMA EditsTwice ==
  ASSUME NEW n, NEW r, NEW s, NEW t, Edits(r, s, n), Edits(s, t, n)
  PROVE  Edits(r, t, n)
BY DEF Edits, ResultsStay

LEMMA EditsNothing ==
  ASSUME NEW n, NEW s, SessionOK(s, n)
  PROVE  Edits(s, s, n)
BY DEF Edits, ResultsStay

LEMMA SlotsApart ==
  /\ AssistantSlot # ThinkingSlot
  /\ \A k : CallSlot(k) # AssistantSlot /\ CallSlot(k) # ThinkingSlot
  /\ \A c : ResultSlot(c) # AssistantSlot /\ ResultSlot(c) # ThinkingSlot
BY DEF AssistantSlot, ThinkingSlot, CallSlot, ResultSlot

LEMMA NothingTracked ==
  TrackedOK(NoTracking) /\ DOMAIN NoTracking = {}
BY DEF TrackedOK, NoTracking

\* A session that leaves Streaming forgets its slots.
LEMMA ToPhaseEdits ==
  ASSUME NEW n, NEW s, SessionOK(s, n), NEW phase \in Phases
  PROVE  /\ Edits(s, ToPhase(s, phase), n)
         /\ ToPhase(s, phase).history = s.history /\ ToPhase(s, phase).phase = phase
         /\ phase = "Streaming" => ToPhase(s, phase).tracked = s.tracked
<1> DEFINE t == ToPhase(s, phase)
<1>1. /\ t.phase = phase /\ t.history = s.history /\ t.next = s.next
      /\ t.tracked = IF phase = "Streaming" THEN s.tracked ELSE NoTracking
      /\ Shaped(t)
  <2>1. Shaped(s)
    BY DEF SessionOK
  <2>2. CASE phase = "Streaming"
    <3>1. t = [s EXCEPT !.phase = phase, !.tracked = s.tracked]
      BY <2>2 DEF ToPhase
    <3> QED
      BY <2>1, <2>2, <3>1 DEF Shaped
  <2>3. CASE phase # "Streaming"
    <3>1. t = [s EXCEPT !.phase = phase, !.tracked = NoTracking]
      BY <2>3 DEF ToPhase
    <3> QED
      BY <2>1, <2>3, <3>1 DEF Shaped
  <2> QED
    BY <2>2, <2>3
<1> HIDE DEF t
<1>2. SessionOK(t, n)
  BY <1>1, NothingTracked DEF SessionOK
<1>3. Indexed(s) => Indexed(t)
  BY <1>1, NothingTracked DEF Indexed, Own, Placed
<1>4. ResultsStay(s.history, t.history)
  BY <1>1 DEF ResultsStay
<1> QED
  BY <1>1, <1>2, <1>3, <1>4 DEF Edits, t

LEMMA SeqWider ==
  ASSUME NEW A, NEW B, A \subseteq B, NEW h \in Seq(A)
  PROVE  h \in Seq(B)
<1>1. Len(h) \in Nat /\ h = [k \in 1..Len(h) |-> h[k]] /\ \A k \in 1..Len(h) : h[k] \in B
  OBVIOUS
<1> QED
  BY <1>1

LEMMA EntriesWider ==
  ASSUME NEW n \in Nat, NEW next \in Nat
  PROVE  EntriesOf(n, next) \subseteq EntriesOf(n, next + 1)
<1>1. 1..(next - 1) \subseteq 1..(next + 1 - 1)
  OBVIOUS
<1> QED
  BY <1>1 DEF EntriesOf

\* A new entry gets the next id.
LEMMA NumberedEntry ==
  ASSUME NEW n \in Nat, NEW e \in NewEntries(n), NEW next \in Nat \ {0}, NEW f,
         f = [e EXCEPT !.id = next]
  PROVE  f \in EntriesOf(n, next + 1) /\ f.kind = e.kind /\ f.call = e.call /\ f.id = next
<1>1. next \in 1..(next + 1 - 1)
  OBVIOUS
<1> QED
  BY <1>1 DEF NewEntries, EntriesOf

\* An entry pushed at the end moves nothing.
LEMMA Pushed ==
  ASSUME NEW n \in Nat, NEW s, SessionOK(s, n), NEW e \in NewEntries(n), NEW t, t = Push(s, e)
  PROVE  /\ SessionOK(t, n) /\ (Indexed(s) => Indexed(t))
         /\ t.phase = s.phase /\ t.tracked = s.tracked /\ Len(s.history) \in Nat
         /\ DOMAIN s.history = 1..Len(s.history)
         /\ DOMAIN t.history = 1..(Len(s.history) + 1)
         /\ \A k \in DOMAIN s.history : t.history[k] = s.history[k]
         /\ t.history[Len(s.history) + 1].kind = e.kind
         /\ t.history[Len(s.history) + 1].call = e.call
<1> DEFINE f == [e EXCEPT !.id = s.next]
           h == s.history
<1>1. /\ t.phase = s.phase /\ t.tracked = s.tracked /\ t.next = s.next + 1
      /\ t.history = Append(h, f) /\ Shaped(t)
  BY DEF SessionOK, Shaped, Push
<1>2. /\ f \in EntriesOf(n, s.next + 1) /\ f.kind = e.kind /\ f.call = e.call
  BY NumberedEntry DEF SessionOK
<1>3. h \in Seq(EntriesOf(n, s.next + 1))
  BY EntriesWider, SeqWider DEF SessionOK
<1> HIDE DEF f
<1>4. /\ Append(h, f) \in Seq(EntriesOf(n, s.next + 1)) /\ Len(h) \in Nat
      /\ DOMAIN h = 1..Len(h) /\ DOMAIN Append(h, f) = 1..(Len(h) + 1)
      /\ \A k \in 1..Len(h) : Append(h, f)[k] = h[k]
      /\ Append(h, f)[Len(h) + 1] = f
  BY <1>2, <1>3
<1>5. s.next + 1 \in Nat \ {0}
  BY DEF SessionOK
<1>6. SessionOK(t, n)
  BY <1>1, <1>4, <1>5 DEF SessionOK
<1>7. DOMAIN h \subseteq DOMAIN t.history
  BY <1>1, <1>4
<1>8. Indexed(s) => Indexed(t)
  BY <1>1, <1>4, <1>7 DEF Indexed, Own, Placed
<1> QED
  BY <1>1, <1>2, <1>4, <1>6, <1>8

LEMMA PushEdits ==
  ASSUME NEW n \in Nat, NEW s, SessionOK(s, n), NEW e \in NewEntries(n), e.kind # "ToolResult"
  PROVE  Edits(s, Push(s, e), n)
<1>1. PICK t : t = Push(s, e)
  OBVIOUS
<1>2. /\ SessionOK(t, n) /\ (Indexed(s) => Indexed(t)) /\ Len(s.history) \in Nat
      /\ DOMAIN s.history = 1..Len(s.history)
      /\ DOMAIN t.history = 1..(Len(s.history) + 1)
      /\ \A k \in DOMAIN s.history : t.history[k] = s.history[k]
      /\ t.history[Len(s.history) + 1].kind # "ToolResult"
  BY <1>1, Pushed
<1>3. \A k \in DOMAIN t.history : t.history[k].kind = "ToolResult" => k \in DOMAIN s.history
  BY <1>2
<1>4. ResultsStay(s.history, t.history)
  BY <1>2, <1>3 DEF ResultsStay, NoResult, ResultsOnce
<1> QED
  BY <1>1, <1>2, <1>4 DEF Edits

\* The first result of a call.
LEMMA ResultPushed ==
  ASSUME NEW n \in Nat, NEW s, SessionOK(s, n), NEW e \in NewEntries(n),
         NoResult(s.history, e.call), ResultsOnce(s.history), NEW t, t = Push(s, e)
  PROVE  /\ ResultsOnce(t.history)
         /\ \A c : NoResult(s.history, c) /\ c # e.call => NoResult(t.history, c)
<1>1. /\ Len(s.history) \in Nat /\ DOMAIN s.history = 1..Len(s.history)
      /\ DOMAIN t.history = 1..(Len(s.history) + 1)
      /\ \A k \in DOMAIN s.history : t.history[k] = s.history[k]
      /\ t.history[Len(s.history) + 1].call = e.call
  BY Pushed
<1>2. \A k \in DOMAIN t.history : k \in DOMAIN s.history \/ k = Len(s.history) + 1
  BY <1>1
<1> DEFINE last == Len(s.history) + 1
<1> HIDE DEF last
<1>3. /\ \A k \in DOMAIN t.history : k \in DOMAIN s.history \/ k = last
      /\ t.history[last].call = e.call
      /\ \A k \in DOMAIN s.history : t.history[k] = s.history[k]
  BY <1>1, <1>2 DEF last
<1>4. ResultsOnce(t.history)
  <2> SUFFICES ASSUME NEW j \in DOMAIN t.history, NEW k \in DOMAIN t.history,
                      t.history[j].kind = "ToolResult", t.history[k].kind = "ToolResult",
                      t.history[j].call = t.history[k].call
               PROVE  j = k
    BY DEF ResultsOnce
  <2>1. CASE j = last /\ k = last
    BY <2>1
  <2>2. CASE j \in DOMAIN s.history /\ k \in DOMAIN s.history
    BY <1>3, <2>2 DEF ResultsOnce
  <2> QED
    BY <1>3, <2>1, <2>2 DEF NoResult
<1>5. ASSUME NEW c, NoResult(s.history, c), c # e.call
      PROVE  NoResult(t.history, c)
  BY <1>3, <1>5 DEF NoResult
<1> QED
  BY <1>4, <1>5

-----------------------------------------------------------------------------
(* Edits at the end of a history. *)

LEMMA HistoryParts ==
  ASSUME NEW n \in Nat, NEW s, SessionOK(s, n)
  PROVE  /\ DOMAIN s.history = 1..Len(s.history) /\ Len(s.history) \in Nat
         /\ \A k \in DOMAIN s.history : s.history[k] \in EntriesOf(n, s.next)
         /\ \A k \in DOMAIN s.history : s.history[k].id \in Nat /\ k \in Nat \ {0}
<1>1. s.history \in Seq(EntriesOf(n, s.next))
  BY DEF SessionOK
<1>2. /\ DOMAIN s.history = 1..Len(s.history) /\ Len(s.history) \in Nat
      /\ \A k \in DOMAIN s.history : s.history[k] \in EntriesOf(n, s.next)
  BY <1>1
<1>3. \A e \in EntriesOf(n, s.next) : e.id \in Nat
  BY DEF EntriesOf, SessionOK
<1> QED
  BY <1>2, <1>3

\* A slot set at this position leaves reasoning before content.
InOrder(s, slot, at) ==
  /\ slot = AssistantSlot /\ ThinkingSlot \in DOMAIN s.tracked
       => s.tracked[ThinkingSlot].at < at
  /\ slot = ThinkingSlot /\ AssistantSlot \in DOMAIN s.tracked
       => at < s.tracked[AssistantSlot].at

\* Setting a slot to an entry that is there, and in its place.
LEMMA Tracked ==
  ASSUME NEW n \in Nat, NEW s, SessionOK(s, n), NEW slot \in Slots(n),
         NEW at \in DOMAIN s.history
  PROVE  /\ SessionOK(Track(s, slot, at), n)
         /\ Indexed(s) /\ InOrder(s, slot, at) => Indexed(Track(s, slot, at))
         /\ Track(s, slot, at).history = s.history /\ Track(s, slot, at).phase = s.phase
<1>1. CASE s.phase # "Streaming"
  BY <1>1 DEF Track
<1>2. CASE s.phase = "Streaming"
  <2> DEFINE t == Track(s, slot, at)
             u == [at |-> at, id |-> s.history[at].id]
             moved == [x \in DOMAIN s.tracked \cup {slot} |->
                         IF x = slot THEN u ELSE s.tracked[x]]
  <2>1. t = [s EXCEPT !.tracked = moved]
    BY <1>2 DEF Track
  <2>2. Shaped(s)
    BY DEF SessionOK
  <2> HIDE DEF t, u, moved
  <2>3. /\ t.phase = s.phase /\ t.history = s.history /\ t.next = s.next /\ t.tracked = moved
        /\ Shaped(t)
    BY <2>1, <2>2 DEF Shaped
  <2>4. u \in [at : Nat \ {0}, id : Nat] /\ u.at = at /\ u.id = s.history[at].id
    BY HistoryParts DEF u
  <2>5. DOMAIN moved = DOMAIN s.tracked \cup {slot}
        /\ moved[slot] = u /\ \A x \in DOMAIN s.tracked : x # slot => moved[x] = s.tracked[x]
    BY DEF moved
  <2>6. TrackedOK(moved)
    <3>1. moved = [x \in DOMAIN moved |-> moved[x]]
      BY DEF moved
    <3>2. \A x \in DOMAIN s.tracked : s.tracked[x] \in [at : Nat \ {0}, id : Nat]
      BY DEF SessionOK, TrackedOK
    <3> QED
      BY <3>1, <3>2, <2>4, <2>5 DEF TrackedOK
  <2>7. SessionOK(t, n)
    BY <1>2, <2>3, <2>5, <2>6 DEF SessionOK
  <2>8. Indexed(s) => Own(t)
    BY <2>3, <2>4, <2>5 DEF Indexed, Own
  <2>9. Indexed(s) /\ InOrder(s, slot, at) => Placed(t)
    <3> SUFFICES ASSUME Indexed(s), InOrder(s, slot, at), ThinkingSlot \in DOMAIN t.tracked,
                        AssistantSlot \in DOMAIN t.tracked
                 PROVE  t.tracked[ThinkingSlot].at < t.tracked[AssistantSlot].at
      BY DEF Placed
    <3>1. Own(s) /\ Placed(s) /\ AssistantSlot # ThinkingSlot
      BY SlotsApart DEF Indexed
    <3> QED
      BY <2>3, <2>4, <2>5, <3>1 DEF Placed, InOrder
  <2> QED
    BY <2>3, <2>7, <2>8, <2>9 DEF Indexed, t
<1> QED
  BY <1>1, <1>2

LEMMA TrackedPush ==
  ASSUME NEW n \in Nat, NEW s, SessionOK(s, n), NEW e \in NewEntries(n), NEW slot \in Slots(n),
         slot = ThinkingSlot => AssistantSlot \notin DOMAIN s.tracked,
         NEW t, t = PushTracked(s, slot, e)
  PROVE  /\ SessionOK(t, n) /\ (Indexed(s) => Indexed(t))
         /\ t.history = Push(s, e).history /\ t.phase = s.phase
<1> DEFINE at == Len(s.history) + 1
<1>1. PICK u : u = Push(s, e)
  OBVIOUS
<1>2. /\ SessionOK(u, n) /\ (Indexed(s) => Indexed(u))
      /\ u.phase = s.phase /\ u.tracked = s.tracked /\ Len(s.history) \in Nat
      /\ DOMAIN s.history = 1..Len(s.history) /\ DOMAIN u.history = 1..at
  BY <1>1, Pushed
<1>3. at \in DOMAIN u.history
  BY <1>2
<1>4. t = Track(u, slot, at)
  BY <1>1 DEF PushTracked
<1>5. Indexed(s) => InOrder(u, slot, at)
  <2> SUFFICES ASSUME Indexed(s), ThinkingSlot \in DOMAIN u.tracked, slot = AssistantSlot
               PROVE  u.tracked[ThinkingSlot].at < at
    BY <1>2, SlotsApart DEF InOrder
  <2>1. u.tracked[ThinkingSlot].at \in DOMAIN s.history
    BY <1>2 DEF Indexed, Own
  <2> QED
    BY <1>2, <2>1
<1> HIDE DEF at
<1>6. /\ SessionOK(Track(u, slot, at), n)
      /\ Indexed(u) /\ InOrder(u, slot, at) => Indexed(Track(u, slot, at))
      /\ Track(u, slot, at).history = u.history /\ Track(u, slot, at).phase = u.phase
  BY <1>2, <1>3, Tracked
<1> QED
  BY <1>1, <1>2, <1>4, <1>5, <1>6

LEMMA PushTrackedEdits ==
  ASSUME NEW n \in Nat, NEW s, SessionOK(s, n), NEW e \in NewEntries(n), NEW slot \in Slots(n),
         slot = ThinkingSlot => AssistantSlot \notin DOMAIN s.tracked, e.kind # "ToolResult"
  PROVE  Edits(s, PushTracked(s, slot, e), n)
BY PushEdits, TrackedPush DEF Edits

\* Results of g stand, at different positions, in h.
LEMMA ResultsFrom ==
  ASSUME NEW g, NEW h, NEW from,
         \A k \in DOMAIN g : g[k].kind = "ToolResult" =>
           /\ from[k] \in DOMAIN h /\ h[from[k]].kind = "ToolResult"
           /\ h[from[k]].call = g[k].call,
         \A j, k \in DOMAIN g : g[j].kind = "ToolResult" /\ g[k].kind = "ToolResult"
                                /\ from[j] = from[k] => j = k
  PROVE  ResultsStay(h, g)
BY DEF ResultsStay, NoResult, ResultsOnce

InsertedAt(g, h, at, e) ==
  /\ Len(g) = Len(h) + 1 /\ g[at] = e
  /\ \A k \in 1..(at - 1) : g[k] = h[k]
  /\ \A k \in at..Len(h) : g[k + 1] = h[k]

LEMMA Inserted ==
  ASSUME NEW E, NEW h \in Seq(E), NEW at \in 1..(Len(h) + 1), NEW e \in E, NEW g,
         g = InsertAt(h, at, e)
  PROVE  g \in Seq(E) /\ InsertedAt(g, h, at, e)
<1> DEFINE n == Len(h)
           A == SubSeq(h, 1, at - 1)
           B == SubSeq(h, at, n)
<1>1. n \in Nat /\ at \in 1..(n + 1) /\ \A k \in 1..n : h[k] \in E
  BY LenProperties
<1>2. /\ A \in Seq(E) /\ Len(A) = at - 1
      /\ \A k \in 1..(at - 1) : A[k] = h[k]
  <2> HIDE DEF n
  <2>1. \A k \in 1..(at - 1) : h[k] \in E
    BY <1>1
  <2> QED
    BY <1>1, <2>1, SubSeqProperties
<1>3. /\ B \in Seq(E) /\ Len(B) = n - at + 1
      /\ \A k \in 1..(n - at + 1) : B[k] = h[at + k - 1]
  <2> HIDE DEF n
  <2>1. \A k \in at..n : h[k] \in E
    BY <1>1
  <2> QED
    BY <1>1, <2>1, SubSeqProperties
<1>4. <<e>> \in Seq(E) /\ Len(<<e>>) = 1 /\ <<e>>[1] = e
  OBVIOUS
<1>5. PICK u : u = A \o <<e>>
  OBVIOUS
<1>6. g = u \o B
  BY <1>5 DEF InsertAt
<1> HIDE DEF n, A, B
<1>7. u \in Seq(E) /\ Joins(u, A, <<e>>)
  BY <1>2, <1>4, <1>5, Joined
<1>8. g \in Seq(E) /\ Joins(g, u, B)
  BY <1>3, <1>6, <1>7, Joined
<1>9. Len(u) = at /\ Len(g) = n + 1
  <2>1. Len(u) = Len(A) + 1 /\ Len(g) = Len(u) + Len(B)
    BY <1>4, <1>7, <1>8 DEF Joins
  <2>2. Len(A) = at - 1 /\ Len(B) = n - at + 1 /\ n \in Nat /\ at \in Nat
    BY <1>1, <1>2, <1>3
  <2>3. \A a \in Nat, m \in Nat : (a - 1) + 1 = a /\ a + (m - a + 1) = m + 1
    OBVIOUS
  <2>4. Len(u) = (at - 1) + 1
    BY <2>1, <2>2
  <2>5. Len(u) = at
    BY <2>2, <2>3, <2>4
  <2>6. Len(g) = at + (n - at + 1)
    BY <2>1, <2>2, <2>5
  <2> QED
    BY <2>2, <2>3, <2>5, <2>6
<1>10. g[at] = e
  <2>1. at \in 1..Len(u) /\ 1 \in 1..Len(<<e>>) /\ at = Len(A) + 1
    BY <1>1, <1>2, <1>4, <1>9
  <2>2. g[at] = u[at] /\ u[Len(A) + 1] = <<e>>[1]
    BY <1>7, <1>8, <2>1 DEF Joins
  <2> QED
    BY <1>4, <2>1, <2>2
<1>11. ASSUME NEW k \in 1..(at - 1) PROVE g[k] = h[k]
  <2>1. k \in 1..Len(u) /\ k \in 1..Len(A)
    BY <1>1, <1>2, <1>9
  <2> QED
    BY <1>2, <1>7, <1>8, <2>1 DEF Joins
<1>12. ASSUME NEW k \in at..n PROVE g[k + 1] = h[k]
  <2> DEFINE j == k - at + 1
  <2>1. j \in 1..(n - at + 1) /\ at + j - 1 = k /\ at + j = k + 1
    <3>1. at \in Nat /\ n \in Nat
      BY <1>1
    <3>2. k \in Int /\ at <= k /\ k <= n
      BY <3>1
    <3> QED
      BY <3>1, <3>2
  <2> HIDE DEF j
  <2>2. g[Len(u) + j] = B[j] /\ B[j] = h[at + j - 1]
    BY <1>3, <1>8, <2>1 DEF Joins
  <2> QED
    BY <1>9, <2>1, <2>2
<1> QED
  BY <1>8, <1>9, <1>10, <1>11, <1>12 DEF n, InsertedAt

-----------------------------------------------------------------------------
(* Insertions, and edits of one entry. *)

\* An insertion moves the entries behind it by one, and the indices with them.
LEMMA InsertMoves ==
  ASSUME NEW n \in Nat, NEW s, SessionOK(s, n), NEW e \in NewEntries(n), e.kind # "ToolResult",
         NEW at \in 1..(Len(s.history) + 1), NEW t, t = InsertEntryAt(s, at, e)
  PROVE  /\ Edits(s, t, n) /\ t.phase = s.phase /\ at \in DOMAIN t.history
         /\ DOMAIN t.tracked = DOMAIN s.tracked
         /\ \A slot \in DOMAIN s.tracked :
              t.tracked[slot].at = Shifted(s.tracked[slot].at, at)
<1> DEFINE f == [e EXCEPT !.id = s.next]
           h == s.history
           g == InsertAt(h, at, f)
           E == EntriesOf(n, s.next + 1)
           moved == [slot \in DOMAIN s.tracked |->
                       MovedTo(s.tracked[slot], Shifted(s.tracked[slot].at, at))]
<1>1. t = [s EXCEPT !.history = g, !.next = s.next + 1, !.tracked = moved] /\ Shaped(s)
  BY DEF InsertEntryAt, SessionOK
<1>2. f \in E /\ f.kind = e.kind
  BY NumberedEntry DEF SessionOK
<1>3. h \in Seq(E)
  BY EntriesWider, SeqWider DEF SessionOK
<1> HIDE DEF f, g, moved
<1>4. /\ t.phase = s.phase /\ t.tracked = moved /\ t.next = s.next + 1 /\ t.history = g
      /\ Shaped(t)
  BY <1>1 DEF Shaped
<1>5. /\ DOMAIN h = 1..Len(h) /\ Len(h) \in Nat
  BY HistoryParts
<1>6. /\ g \in Seq(E) /\ Len(g) = Len(h) + 1 /\ g[at] = f
      /\ \A k \in 1..(at - 1) : g[k] = h[k]
      /\ \A k \in at..Len(h) : g[k + 1] = h[k]
  <2>1. g = InsertAt(h, at, f)
    BY DEF g
  <2>2. at \in 1..(Len(h) + 1) /\ h \in Seq(E) /\ f \in E
    BY <1>2, <1>3
  <2> HIDE DEF h, E
  <2>3. g \in Seq(E) /\ InsertedAt(g, h, at, f)
    BY <2>1, <2>2, Inserted
  <2> QED
    BY <2>3 DEF InsertedAt
<1>7. DOMAIN g = 1..(Len(h) + 1) /\ at \in DOMAIN g
  BY <1>5, <1>6, LenProperties
<1>8. /\ \A x \in Nat \ {0} : Shifted(x, at) \in Nat \ {0}
      /\ \A x \in Nat, y \in Nat : x < y => Shifted(x, at) < Shifted(y, at)
      /\ \A x \in DOMAIN h : Shifted(x, at) \in DOMAIN g /\ g[Shifted(x, at)] = h[x]
  <2>1. at \in Nat
    BY <1>5
  <2>2. \A x \in Nat \ {0} : Shifted(x, at) \in Nat \ {0}
    BY <2>1 DEF Shifted
  <2>3. \A x \in Nat, y \in Nat : x < y => Shifted(x, at) < Shifted(y, at)
    BY <2>1 DEF Shifted
  <2>4. ASSUME NEW x \in DOMAIN h
        PROVE  Shifted(x, at) \in DOMAIN g /\ g[Shifted(x, at)] = h[x]
    <3>1. CASE x >= at
      <4>1. x \in at..Len(h) /\ x + 1 \in 1..(Len(h) + 1) /\ Shifted(x, at) = x + 1
        BY <1>5, <2>1, <3>1 DEF Shifted
      <4> QED
        BY <1>6, <1>7, <4>1
    <3>2. CASE ~(x >= at)
      <4>1. x \in 1..(at - 1) /\ x \in 1..(Len(h) + 1) /\ Shifted(x, at) = x
        BY <1>5, <2>1, <3>2 DEF Shifted
      <4> QED
        BY <1>6, <1>7, <4>1
    <3> QED
      BY <3>1, <3>2
  <2> QED
    BY <2>2, <2>3, <2>4
<1>9. /\ DOMAIN moved = DOMAIN s.tracked
      /\ \A slot \in DOMAIN s.tracked :
           moved[slot].at = Shifted(s.tracked[slot].at, at) /\ moved[slot].id = s.tracked[slot].id
  BY DEF moved, MovedTo
<1>10. TrackedOK(moved)
  <2>1. moved = [slot \in DOMAIN moved |-> moved[slot]]
    BY DEF moved
  <2>2. \A slot \in DOMAIN s.tracked : s.tracked[slot] \in [at : Nat \ {0}, id : Nat]
    BY DEF SessionOK, TrackedOK
  <2>3. \A slot \in DOMAIN s.tracked : moved[slot] \in [at : Nat \ {0}, id : Nat]
    <3> SUFFICES ASSUME NEW slot \in DOMAIN s.tracked PROVE moved[slot] \in [at : Nat \ {0}, id : Nat]
      OBVIOUS
    <3>1. s.tracked[slot].at \in Nat \ {0} /\ s.tracked[slot].id \in Nat
      BY <2>2
    <3>2. moved[slot] = [at |-> Shifted(s.tracked[slot].at, at), id |-> s.tracked[slot].id]
      BY DEF moved, MovedTo
    <3> QED
      BY <1>8, <3>1, <3>2
  <2> QED
    BY <1>9, <2>1, <2>3 DEF TrackedOK
<1>11. SessionOK(t, n)
  <2>1. s.next + 1 \in Nat \ {0}
    BY DEF SessionOK
  <2>2. DOMAIN moved = {} => moved = NoTracking
    BY DEF NoTracking, moved
  <2> QED
    BY <1>4, <1>6, <1>9, <1>10, <2>1, <2>2, NothingTracked DEF SessionOK
<1>12. Indexed(s) => Indexed(t)
  <2> SUFFICES ASSUME Indexed(s) PROVE Indexed(t)
    OBVIOUS
  <2>1. Own(t)
    BY <1>4, <1>8, <1>9 DEF Indexed, Own
  <2>2. Placed(t)
    <3> SUFFICES ASSUME ThinkingSlot \in DOMAIN s.tracked, AssistantSlot \in DOMAIN s.tracked
                 PROVE  moved[ThinkingSlot].at < moved[AssistantSlot].at
      BY <1>4, <1>9 DEF Placed
    <3>1. /\ s.tracked[ThinkingSlot].at \in Nat /\ s.tracked[AssistantSlot].at \in Nat
          /\ s.tracked[ThinkingSlot].at < s.tracked[AssistantSlot].at
      BY DEF SessionOK, TrackedOK, Indexed, Placed
    <3> QED
      BY <1>8, <1>9, <3>1
  <2> QED
    BY <2>1, <2>2 DEF Indexed
<1>13. ResultsStay(h, g)
  <2> DEFINE from == [k \in DOMAIN g |-> IF k < at THEN k ELSE k - 1]
  <2>1. ASSUME NEW k \in DOMAIN g, g[k].kind = "ToolResult"
        PROVE  /\ from[k] \in DOMAIN h /\ h[from[k]] = g[k]
               /\ k # at /\ k \in Nat
    <3>1. k # at
      BY <1>2, <1>6, <2>1
    <3>2. CASE k < at
      <4>1. k \in 1..(at - 1) /\ k \in DOMAIN h
        BY <1>5, <1>7, <3>2
      <4> QED
        BY <1>6, <3>1, <3>2, <4>1
    <3>3. CASE ~(k < at)
      <4>1. k - 1 \in at..Len(h) /\ (k - 1) + 1 = k /\ k - 1 \in DOMAIN h
        BY <1>5, <1>7, <3>1, <3>3
      <4> QED
        BY <1>6, <3>1, <3>3, <4>1
    <3> QED
      BY <3>2, <3>3
  <2>2. \A j, k \in DOMAIN g : j # at /\ k # at /\ from[j] = from[k] => j = k
    BY <1>5, <1>7
  <2> HIDE DEF from
  <2>3. \A j, k \in DOMAIN g : g[j].kind = "ToolResult" /\ g[k].kind = "ToolResult"
                               /\ from[j] = from[k] => j = k
    BY <2>1, <2>2
  <2> HIDE DEF h
  <2> QED
    BY <2>1, <2>3, ResultsFrom
<1> QED
  BY <1>4, <1>7, <1>9, <1>11, <1>12, <1>13 DEF Edits

\* An edit of single entries: none becomes or ceases to be a result, or answers another call.
LEMMA EntryEdits ==
  ASSUME NEW n \in Nat, NEW s, SessionOK(s, n), NEW g \in Seq(EntriesOf(n, s.next)),
         DOMAIN g = DOMAIN s.history,
         \A k \in DOMAIN g :
           /\ g[k].id = s.history[k].id /\ g[k].kind = s.history[k].kind
           /\ g[k].kind = "ToolResult" => g[k].call = s.history[k].call,
         NEW t, t = [s EXCEPT !.history = g]
  PROVE  Edits(s, t, n) /\ t.phase = s.phase
<1>1. /\ t.phase = s.phase /\ t.tracked = s.tracked /\ t.next = s.next /\ t.history = g
      /\ Shaped(t)
  BY DEF SessionOK, Shaped
<1>2. SessionOK(t, n)
  BY <1>1 DEF SessionOK
<1>3. Indexed(s) => Indexed(t)
  BY <1>1 DEF Indexed, Own, Placed
<1>4. ResultsStay(s.history, t.history)
  BY <1>1 DEF ResultsStay, NoResult, ResultsOnce
<1> QED
  BY <1>1, <1>2, <1>3, <1>4 DEF Edits

\* The same at one position.
LEMMA EntryEdit ==
  ASSUME NEW n \in Nat, NEW s, SessionOK(s, n), NEW k \in DOMAIN s.history,
         NEW e \in EntriesOf(n, s.next),
         e.id = s.history[k].id, e.kind = s.history[k].kind,
         e.kind = "ToolResult" => e.call = s.history[k].call,
         NEW t, t = [s EXCEPT !.history = [@ EXCEPT ![k] = e]]
  PROVE  Edits(s, t, n) /\ t.phase = s.phase
<1> DEFINE g == [s.history EXCEPT ![k] = e]
<1>1. s.history \in Seq(EntriesOf(n, s.next))
  BY DEF SessionOK
<1>2. g \in Seq(EntriesOf(n, s.next)) /\ DOMAIN g = DOMAIN s.history
      /\ g[k] = e /\ \A j \in DOMAIN g : j # k => g[j] = s.history[j]
  BY <1>1
<1>3. t = [s EXCEPT !.history = g]
  OBVIOUS
<1> HIDE DEF g
<1> QED
  BY <1>2, <1>3, EntryEdits

LEMMA AppendToEdits ==
  ASSUME NEW n \in Nat, NEW s, SessionOK(s, n), NEW slot, NEW kind, NEW g \in 1..n
  PROVE  Edits(s, AppendTo(s, slot, kind, g), n)
<1> DEFINE k == At(s, slot)
           e == [s.history[k] EXCEPT !.from = @ \cup {g}]
<1>1. CASE AppendTo(s, slot, kind, g) = s
  BY <1>1, EditsNothing
<1>2. CASE AppendTo(s, slot, kind, g) # s
  <2>1. /\ k \in DOMAIN s.history
        /\ AppendTo(s, slot, kind, g) = [s EXCEPT !.history = [@ EXCEPT ![k] = e]]
    BY <1>2 DEF AppendTo
  <2>2. s.history[k] \in EntriesOf(n, s.next)
    BY <2>1, HistoryParts
  <2>3. /\ e \in EntriesOf(n, s.next) /\ e.id = s.history[k].id
        /\ e.kind = s.history[k].kind /\ e.call = s.history[k].call
    BY <2>2 DEF EntriesOf
  <2> HIDE DEF e, k
  <2> QED
    BY <2>1, <2>3, EntryEdit
<1> QED
  BY <1>1, <1>2

LEMMA AppendToolCallDeltaEdits ==
  ASSUME NEW n \in Nat, NEW s, SessionOK(s, n), NEW g, NEW c
  PROVE  Edits(s, AppendToolCallDelta(s, g, c), n)
<1> DEFINE k == At(s, CallSlot(c))
           e == [s.history[k] EXCEPT !.whole = TRUE]
           t == AppendToolCallDelta(s, g, c)
<1>1. CASE t = s
  BY <1>1, EditsNothing
<1>2. CASE t # s
  <2>1. k \in DOMAIN s.history /\ t = [s EXCEPT !.history = [@ EXCEPT ![k] = e]]
    BY <1>2 DEF AppendToolCallDelta
  <2>2. s.history[k] \in EntriesOf(n, s.next)
    BY <2>1, HistoryParts
  <2>3. /\ e \in EntriesOf(n, s.next) /\ e.id = s.history[k].id
        /\ e.kind = s.history[k].kind /\ e.call = s.history[k].call
    BY <2>2 DEF EntriesOf
  <2> HIDE DEF e, k
  <2> QED
    BY <2>1, <2>3, EntryEdit
<1> QED
  BY <1>1, <1>2

LEMMA GreatestExists ==
  ASSUME NEW n \in Nat, NEW S \in SUBSET (1..n), S # {}
  PROVE  Max(S) \in S
<1> DEFINE T == {x \in Nat : n - x \in S}
<1>1. \A y \in S : n - y \in Nat /\ n - (n - y) = y
  OBVIOUS
<1>2. T \in SUBSET Nat /\ T # {}
  BY <1>1
<1>3. PICK x \in T : \A y \in T : x <= y
  BY <1>2, LeastExists
<1>4. \A y \in S : n - x >= y
  <2> SUFFICES ASSUME NEW y \in S PROVE n - x >= y
    OBVIOUS
  <2>1. n - y \in T
    BY <1>1
  <2>2. x <= n - y /\ x \in Nat /\ y \in Nat
    BY <1>3, <2>1
  <2> QED
    BY <2>2
<1> QED
  BY <1>3, <1>4 DEF Max

LEMMA LastFound ==
  ASSUME NEW n \in Nat, NEW s, SessionOK(s, n), NEW kind, NEW calls, NEW k,
         k = LastOf(s, kind, calls), k # 0
  PROVE  k \in DOMAIN s.history /\ s.history[k].kind = kind /\ s.history[k].call \in calls
<1> DEFINE S == {i \in DOMAIN s.history : s.history[i].kind = kind /\ s.history[i].call \in calls}
<1>1. S \in SUBSET (1..Len(s.history)) /\ Len(s.history) \in Nat
  BY HistoryParts
<1>2. S # {} /\ k = Max(S)
  BY DEF LastOf
<1> HIDE DEF S
<1>3. k \in S
  BY <1>1, <1>2, GreatestExists
<1> QED
  BY <1>3 DEF S

-----------------------------------------------------------------------------
(* The edits of reasoning, text and tool calls. *)

LEMMA EntryNew ==
  ASSUME NEW n \in Nat, NEW kind \in Kinds, NEW call \in Ids(n), NEW whole \in BOOLEAN
  PROVE  /\ Entry(kind, call, {}, whole) \in NewEntries(n)
         /\ Entry(kind, call, {}, whole).kind = kind /\ Entry(kind, call, {}, whole).call = call
BY DEF Entry, NewEntries

LEMMA Named ==
  ASSUME NEW n \in Nat
  PROVE  /\ NoCall \in Ids(n)
         /\ \A g \in 1..n, c \in 1..MaxCalls : <<g, c>> \in Ids(n)
         /\ {"Assistant", "Thinking", "ToolCall", "ToolResult"} \subseteq Kinds
BY DEF Ids, Kinds

LEMMA PlainNew ==
  ASSUME NEW n \in Nat, NEW kind \in Kinds
  PROVE  Plain(kind) \in NewEntries(n) /\ Plain(kind).kind = kind
<1>1. NoCall \in Ids(n) /\ TRUE \in BOOLEAN
  BY Named
<1> DEFINE e == Entry(kind, NoCall, {}, TRUE)
<1>2. e \in NewEntries(n) /\ e.kind = kind
  BY <1>1, EntryNew
<1> HIDE DEF e
<1>3. Plain(kind) = e
  BY DEF Plain, e
<1> QED
  BY <1>2, <1>3

LEMMA PlainEdits ==
  ASSUME NEW n \in Nat, NEW s, SessionOK(s, n), NEW kind \in Kinds, kind # "ToolResult"
  PROVE  Edits(s, Push(s, Plain(kind)), n) /\ Push(s, Plain(kind)).phase = s.phase
BY PlainNew, PushEdits, Pushed

LEMMA EnsureAssistantEdits ==
  ASSUME NEW n \in Nat, NEW s, SessionOK(s, n)
  PROVE  Edits(s, EnsureAssistant(s), n) /\ EnsureAssistant(s).phase = s.phase
<1> DEFINE e == Entry("Assistant", NoCall, {}, TRUE)
<1>1. e \in NewEntries(n) /\ e.kind # "ToolResult"
  BY EntryNew, Named
<1>2. AssistantSlot \in Slots(n) /\ AssistantSlot # ThinkingSlot
  BY SlotsApart DEF Slots
<1> HIDE DEF e
<1>3. Edits(s, PushTracked(s, AssistantSlot, e), n)
  BY <1>1, <1>2, PushTrackedEdits
<1>4. PushTracked(s, AssistantSlot, e).phase = s.phase
  BY <1>1, <1>2, TrackedPush
<1> QED
  BY <1>3, <1>4, EditsNothing DEF EnsureAssistant, e

\* Reasoning that comes late is put where the text is, which moves behind it.
LEMMA PlaceThinkingEdits ==
  ASSUME NEW n \in Nat, NEW s, SessionOK(s, n), NEW e \in NewEntries(n), e.kind # "ToolResult"
  PROVE  Edits(s, PlaceThinking(s, e), n)
<1> DEFINE at == Clamped(s, At(s, AssistantSlot))
<1>1. ThinkingSlot \in Slots(n) /\ AssistantSlot # ThinkingSlot
  BY SlotsApart DEF Slots
<1>2. CASE AssistantSlot \in DOMAIN s.tracked
  <2>1. PICK t : t = InsertEntryAt(s, at, e)
    OBVIOUS
  <2>2. s.tracked[AssistantSlot].at \in Nat \ {0} /\ Len(s.history) \in Nat
        /\ DOMAIN s.history = 1..Len(s.history)
    BY <1>2, HistoryParts DEF SessionOK, TrackedOK
  <2>3. at \in 1..(Len(s.history) + 1)
    BY <2>2 DEF Clamped, At
  <2>4. Indexed(s) => at = s.tracked[AssistantSlot].at
    <3> SUFFICES ASSUME Indexed(s) PROVE at = s.tracked[AssistantSlot].at
      OBVIOUS
    <3>1. s.tracked[AssistantSlot].at \in 1..Len(s.history)
      BY <1>2, <2>2 DEF Indexed, Own
    <3> QED
      BY <2>2, <3>1 DEF Clamped, At
  <2> HIDE DEF at
  <2>5. /\ Edits(s, t, n) /\ at \in DOMAIN t.history
        /\ t.tracked[AssistantSlot].at = Shifted(s.tracked[AssistantSlot].at, at)
    BY <1>2, <2>1, <2>3, InsertMoves
  <2>6. PlaceThinking(s, e) = Track(t, ThinkingSlot, at)
    BY <1>2, <2>1 DEF PlaceThinking, Tracks, at
  <2>7. Indexed(s) => InOrder(t, ThinkingSlot, at)
    <3> SUFFICES ASSUME Indexed(s) PROVE at < t.tracked[AssistantSlot].at
      BY <1>1 DEF InOrder
    <3> QED
      BY <2>2, <2>4, <2>5 DEF Shifted
  <2>8. /\ SessionOK(Track(t, ThinkingSlot, at), n)
        /\ Indexed(t) /\ InOrder(t, ThinkingSlot, at) => Indexed(Track(t, ThinkingSlot, at))
        /\ Track(t, ThinkingSlot, at).history = t.history
    BY <1>1, <2>5, Tracked DEF Edits
  <2> QED
    BY <2>5, <2>6, <2>7, <2>8 DEF Edits
<1>3. CASE AssistantSlot \notin DOMAIN s.tracked
  <2>1. Edits(s, PushTracked(s, ThinkingSlot, e), n)
    BY <1>1, <1>3, PushTrackedEdits
  <2> QED
    BY <1>3, <2>1 DEF PlaceThinking, Tracks
<1> QED
  BY <1>2, <1>3

LEMMA BeginThinkingEdits ==
  ASSUME NEW n \in Nat, NEW s, SessionOK(s, n)
  PROVE  Edits(s, BeginThinking(s), n)
<1> DEFINE e == Entry("Thinking", NoCall, {}, TRUE)
<1>1. e \in NewEntries(n) /\ e.kind # "ToolResult"
  BY EntryNew, Named
<1> HIDE DEF e
<1>2. Edits(s, PlaceThinking(s, e), n)
  BY <1>1, PlaceThinkingEdits
<1> QED
  BY <1>2, EditsNothing DEF BeginThinking, e

LEMMA PhasesKept ==
  /\ \A phase \in Phases :
       /\ OnFirstToken(phase) \in Phases /\ BeginStreaming(phase) \in Phases
       /\ BeginSending(phase) \in Phases /\ Cancel(phase) \in Phases
       /\ OnStreamCompletedFinished(phase) \in Phases
BY DEF Phases, OnFirstToken, BeginStreaming, BeginSending, Cancel, OnStreamCompletedFinished,
       OnDispatchMessage, Transition

LEMMA AppendTokenEdits ==
  ASSUME NEW n \in Nat, NEW s, SessionOK(s, n), NEW g \in 1..n, NEW thinking \in BOOLEAN
  PROVE  Edits(s, AppendToken(s, g, thinking), n)
<1>1. PICK t : t = ToPhase(s, OnFirstToken(s.phase))
  OBVIOUS
<1>2. Edits(s, t, n)
  BY <1>1, ToPhaseEdits, PhasesKept DEF SessionOK
<1>3. SessionOK(t, n)
  BY <1>2 DEF Edits
<1>4. CASE thinking
  <2>1. PICK u : u = BeginThinking(t)
    OBVIOUS
  <2>2. Edits(t, u, n)
    BY <1>3, <2>1, BeginThinkingEdits
  <2>3. Edits(u, AppendTo(u, ThinkingSlot, "Thinking", g), n)
    BY <2>2, AppendToEdits DEF Edits
  <2>4. AppendToken(s, g, thinking) = AppendTo(u, ThinkingSlot, "Thinking", g)
    BY <1>1, <1>4, <2>1 DEF AppendToken
  <2> QED
    BY <1>2, <2>2, <2>3, <2>4, EditsTwice
<1>5. CASE ~thinking
  <2>1. PICK u : u = EnsureAssistant(t)
    OBVIOUS
  <2>2. Edits(t, u, n)
    BY <1>3, <2>1, EnsureAssistantEdits
  <2>3. Edits(u, AppendTo(u, AssistantSlot, "Assistant", g), n)
    BY <2>2, AppendToEdits DEF Edits
  <2>4. AppendToken(s, g, thinking) = AppendTo(u, AssistantSlot, "Assistant", g)
    BY <1>1, <1>5, <2>1 DEF AppendToken
  <2> QED
    BY <1>2, <2>2, <2>3, <2>4, EditsTwice
<1> QED
  BY <1>4, <1>5

LEMMA BeginToolCallEdits ==
  ASSUME NEW n \in Nat, NEW s, SessionOK(s, n), NEW g \in 1..n, NEW c \in 1..MaxCalls
  PROVE  Edits(s, BeginToolCall(s, g, c), n)
<1> DEFINE e == Entry("ToolCall", <<g, c>>, {}, FALSE)
<1>1. PICK t : t = EnsureAssistant(s)
  OBVIOUS
<1>2. Edits(s, t, n)
  BY <1>1, EnsureAssistantEdits
<1>3. e \in NewEntries(n) /\ e.kind # "ToolResult"
  BY EntryNew, Named
<1>4. CallSlot(c) \in Slots(n) /\ CallSlot(c) # ThinkingSlot
  BY SlotsApart DEF Slots
<1>5. BeginToolCall(s, g, c) = PushTracked(t, CallSlot(c), e)
  BY <1>1 DEF BeginToolCall
<1> HIDE DEF e
<1>6. Edits(t, PushTracked(t, CallSlot(c), e), n)
  BY <1>2, <1>3, <1>4, PushTrackedEdits DEF Edits
<1> QED
  BY <1>2, <1>5, <1>6, EditsTwice

LEMMA FinalizeToolCallEdits ==
  ASSUME NEW n \in Nat, NEW s, SessionOK(s, n), NEW g \in 1..n, NEW c \in 1..MaxCalls
  PROVE  Edits(s, FinalizeToolCall(s, g, c), n)
<1> DEFINE last == LastCall(s)
           e == [s.history[last] EXCEPT !.call = <<g, c>>, !.whole = TRUE]
           new == Entry("ToolCall", <<g, c>>, {}, TRUE)
<1>1. CASE last = 0
  <2>1. new \in NewEntries(n) /\ new.kind # "ToolResult"
    BY EntryNew, Named
  <2> HIDE DEF new
  <2>2. Edits(s, Push(s, new), n)
    BY <2>1, PushEdits
  <2> QED
    BY <1>1, <2>2 DEF FinalizeToolCall, new
<1>2. CASE last # 0
  <2>1. last \in DOMAIN s.history /\ s.history[last].kind = "ToolCall"
    <3>1. PICK calls : calls = {x.call : x \in ToSet(s.history)}
      OBVIOUS
    <3>2. last = LastOf(s, "ToolCall", calls)
      BY <3>1 DEF LastCall
    <3> HIDE DEF last
    <3> QED
      BY <1>2, <3>2, LastFound
  <2>2. FinalizeToolCall(s, g, c) = [s EXCEPT !.history = [@ EXCEPT ![last] = e]]
    BY <1>2 DEF FinalizeToolCall
  <2>3. s.history[last] \in EntriesOf(n, s.next)
    BY <2>1, HistoryParts
  <2>4. <<g, c>> \in Ids(n)
    BY Named
  <2>5. /\ e \in EntriesOf(n, s.next) /\ e.id = s.history[last].id
        /\ e.kind = s.history[last].kind /\ e.kind # "ToolResult"
    BY <2>1, <2>3, <2>4 DEF EntriesOf
  <2> HIDE DEF e, last
  <2> QED
    BY <2>1, <2>2, <2>5, EntryEdit
<1> QED
  BY <1>1, <1>2

-----------------------------------------------------------------------------
(* The edits of tool results, and of a turn that ends. *)

\* What a report of call c's result may do: another call's results are as they were.
ResultsOf(s, t, c) ==
  /\ \A d : d # c /\ NoResult(s.history, d) => NoResult(t.history, d)
  /\ ResultsOnce(s.history) /\ NoResult(s.history, c) => ResultsOnce(t.history)

LEMMA BeginToolResultEdits ==
  ASSUME NEW n \in Nat, NEW s, SessionOK(s, n), NEW c \in Ids(n),
         NEW t, t = BeginToolResult(s, c)
  PROVE  SessionOK(t, n) /\ (Indexed(s) => Indexed(t)) /\ ResultsOf(s, t, c)
<1> DEFINE e == Entry("ToolResult", c, {}, FALSE)
<1>1. CASE s.phase # "Streaming"
  <2>1. t = s
    BY <1>1 DEF BeginToolResult
  <2> QED
    BY <2>1 DEF ResultsOf
<1>2. CASE s.phase = "Streaming"
  <2>1. FALSE \in BOOLEAN /\ "ToolResult" \in Kinds
    BY Named
  <2>2. e \in NewEntries(n) /\ e.call = c
    BY <2>1, EntryNew
  <2>3. ResultSlot(c) \in Slots(n) /\ ResultSlot(c) # ThinkingSlot
    BY SlotsApart DEF Slots
  <2>4. t = PushTracked(s, ResultSlot(c), e)
    BY <1>2 DEF BeginToolResult
  <2> HIDE DEF e
  <2>5. SessionOK(t, n) /\ (Indexed(s) => Indexed(t)) /\ t.history = Push(s, e).history
    BY <2>2, <2>3, <2>4, TrackedPush
  <2>6. PICK u : u = Push(s, e)
    OBVIOUS
  <2>7. NoResult(s.history, c) /\ ResultsOnce(s.history) => ResultsOnce(u.history)
    BY <2>2, <2>6, ResultPushed
  <2>8. ASSUME NEW d, d # c, NoResult(s.history, d) PROVE NoResult(u.history, d)
    <3>1. /\ Len(s.history) \in Nat /\ DOMAIN s.history = 1..Len(s.history)
          /\ DOMAIN u.history = 1..(Len(s.history) + 1)
          /\ \A k \in DOMAIN s.history : u.history[k] = s.history[k]
          /\ u.history[Len(s.history) + 1].call = c
      BY <2>2, <2>6, Pushed
    <3>2. \A k \in DOMAIN u.history : k \in DOMAIN s.history \/ k = Len(s.history) + 1
      BY <3>1
    <3> QED
      BY <2>8, <3>1, <3>2 DEF NoResult
  <2> QED
    BY <2>5, <2>6, <2>7, <2>8 DEF ResultsOf
<1> QED
  BY <1>1, <1>2

LEMMA NoneFound ==
  ASSUME NEW n \in Nat, NEW s, SessionOK(s, n), NEW c, LastOf(s, "ToolResult", {c}) = 0
  PROVE  NoResult(s.history, c)
<1> DEFINE S == {i \in DOMAIN s.history :
                   s.history[i].kind = "ToolResult" /\ s.history[i].call \in {c}}
<1>1. S \in SUBSET (1..Len(s.history)) /\ Len(s.history) \in Nat
  BY HistoryParts
<1>2. S # {} => Max(S) = 0
  BY DEF LastOf
<1>3. S = {}
  <2> HIDE DEF S
  <2>1. S # {} => Max(S) \in S
    BY <1>1, GreatestExists
  <2> QED
    BY <1>1, <1>2, <2>1
<1> QED
  BY <1>3 DEF NoResult

\* The last result of c is made whole; without one, a whole one is added.
LEMMA FinalizeToolResultEdits ==
  ASSUME NEW n \in Nat, NEW s, SessionOK(s, n), NEW c \in Ids(n),
         NEW t, t = FinalizeToolResult(s, c)
  PROVE  /\ SessionOK(t, n) /\ (Indexed(s) => Indexed(t)) /\ ResultsOf(s, t, c)
         /\ ResultsOnce(s.history) => ResultsOnce(t.history)
<1> DEFINE last == LastOf(s, "ToolResult", {c})
           e == Entry("ToolResult", c, {}, TRUE)
           f == [s.history[last] EXCEPT !.whole = TRUE]
<1>1. CASE last = 0
  <2>1. TRUE \in BOOLEAN /\ "ToolResult" \in Kinds
    BY Named
  <2>2. e \in NewEntries(n) /\ e.call = c
    BY <2>1, EntryNew
  <2>3. NoResult(s.history, c)
    BY <1>1, NoneFound
  <2>4. t = Push(s, e)
    BY <1>1 DEF FinalizeToolResult
  <2> HIDE DEF e
  <2>5. SessionOK(t, n) /\ (Indexed(s) => Indexed(t))
    BY <2>2, <2>4, Pushed
  <2>6. ResultsOnce(s.history) => ResultsOnce(t.history)
    BY <2>2, <2>3, <2>4, ResultPushed
  <2>7. ASSUME NEW d, d # c, NoResult(s.history, d) PROVE NoResult(t.history, d)
    <3>1. /\ Len(s.history) \in Nat /\ DOMAIN s.history = 1..Len(s.history)
          /\ DOMAIN t.history = 1..(Len(s.history) + 1)
          /\ \A k \in DOMAIN s.history : t.history[k] = s.history[k]
          /\ t.history[Len(s.history) + 1].call = c
      BY <2>2, <2>4, Pushed
    <3>2. \A k \in DOMAIN t.history : k \in DOMAIN s.history \/ k = Len(s.history) + 1
      BY <3>1
    <3> QED
      BY <2>7, <3>1, <3>2 DEF NoResult
  <2> QED
    BY <2>5, <2>6, <2>7 DEF ResultsOf
<1>2. CASE last # 0
  <2>1. last \in DOMAIN s.history /\ s.history[last].kind = "ToolResult"
    <3>1. PICK calls : calls = {c}
      OBVIOUS
    <3>2. last = LastOf(s, "ToolResult", calls)
      BY <3>1
    <3> HIDE DEF last
    <3> QED
      BY <1>2, <3>2, LastFound
  <2>2. t = [s EXCEPT !.history = [@ EXCEPT ![last] = f]]
    BY <1>2 DEF FinalizeToolResult
  <2>3. s.history[last] \in EntriesOf(n, s.next)
    BY <2>1, HistoryParts
  <2>4. /\ f \in EntriesOf(n, s.next) /\ f.id = s.history[last].id
        /\ f.kind = s.history[last].kind /\ f.call = s.history[last].call
    BY <2>3 DEF EntriesOf
  <2> HIDE DEF f, last
  <2>5. Edits(s, t, n)
    BY <2>1, <2>2, <2>4, EntryEdit
  <2> QED
    BY <2>5 DEF Edits, ResultsStay, ResultsOf
<1> QED
  BY <1>1, <1>2

LEMMA FinishStreamingEdits ==
  ASSUME NEW n \in Nat, NEW s, SessionOK(s, n), NEW preserve \in BOOLEAN,
         NEW t, t = FinishStreaming(s, preserve)
  PROVE  Edits(s, t, n) /\ t.phase # "Streaming"
<1>1. PICK u : u = IF preserve THEN EnsureAssistant(s) ELSE s
  OBVIOUS
<1>2. Edits(s, u, n)
  BY <1>1, EnsureAssistantEdits, EditsNothing
<1>3. u.phase \in Phases /\ SessionOK(u, n)
  BY <1>2 DEF Edits, SessionOK
<1>4. t = ToPhase(u, OnStreamCompletedFinished(u.phase))
  BY <1>1 DEF FinishStreaming
<1>5. OnStreamCompletedFinished(u.phase) \in Phases \ {"Streaming"}
  BY <1>3 DEF OnStreamCompletedFinished, Transition, Phases
<1>6. Edits(u, t, n) /\ t.phase # "Streaming"
  BY <1>3, <1>4, <1>5, ToPhaseEdits
<1> QED
  BY <1>2, <1>6, EditsTwice

LEMMA CancelStreamingEdits ==
  ASSUME NEW n \in Nat, NEW s, SessionOK(s, n), NEW t, t = CancelStreaming(s)
  PROVE  Edits(s, t, n)
<1>1. PICK u : u = EnsureAssistant(s)
  OBVIOUS
<1>2. Edits(s, u, n)
  BY <1>1, EnsureAssistantEdits
<1>3. u.phase \in Phases /\ SessionOK(u, n)
  BY <1>2 DEF Edits, SessionOK
<1>4. t = ToPhase(u, Cancel(u.phase))
  BY <1>1 DEF CancelStreaming
<1>5. Edits(u, t, n)
  BY <1>3, <1>4, PhasesKept, ToPhaseEdits
<1> QED
  BY <1>2, <1>5, EditsTwice

LEMMA SweepEdits ==
  ASSUME NEW n \in Nat, NEW s, SessionOK(s, n), NEW t, t = SweepDangling(s)
  PROVE  Edits(s, t, n) /\ t.phase = s.phase
<1> DEFINE h == s.history
           E == EntriesOf(n, s.next)
           g == ExcludeIncomplete(h)
<1>1. DOMAIN h = 1..Len(h) /\ Len(h) \in Nat /\ \A k \in DOMAIN h : h[k] \in E
  BY HistoryParts
<1>2. \A e \in E : /\ [e EXCEPT !.excluded = TRUE] \in E
                   /\ [e EXCEPT !.excluded = TRUE].id = e.id
                   /\ [e EXCEPT !.excluded = TRUE].kind = e.kind
                   /\ [e EXCEPT !.excluded = TRUE].call = e.call
  BY DEF EntriesOf
<1>3. DOMAIN g = DOMAIN h /\ g = [k \in DOMAIN h |-> g[k]]
      /\ \A k \in DOMAIN h : g[k] = h[k] \/ g[k] = [h[k] EXCEPT !.excluded = TRUE]
  BY DEF ExcludeIncomplete
<1> HIDE DEF g
<1>4. /\ \A k \in DOMAIN g : g[k].id = h[k].id /\ g[k].kind = h[k].kind /\ g[k].call = h[k].call
      /\ \A k \in DOMAIN h : g[k] \in E
  <2> HIDE DEF E, h
  <2> QED
    BY <1>1, <1>2, <1>3
<1>5. g \in Seq(E)
  <2> HIDE DEF E, h
  <2> QED
    BY <1>1, <1>3, <1>4
<1>6. t = [s EXCEPT !.history = g]
  BY DEF SweepDangling, g
<1>7. /\ g \in Seq(EntriesOf(n, s.next)) /\ DOMAIN g = DOMAIN s.history
      /\ \A k \in DOMAIN g :
           /\ g[k].id = s.history[k].id /\ g[k].kind = s.history[k].kind
           /\ g[k].kind = "ToolResult" => g[k].call = s.history[k].call
  BY <1>3, <1>4, <1>5
<1> HIDE DEF h, E
<1> QED
  BY <1>6, <1>7, EntryEdits

LEMMA DrawnStay ==
  ASSUME NEW g, NEW h, NEW n, DOMAIN h = 1..n, Drawn(g, h, n)
  PROVE  ResultsStay(h, g)
<1>1. ASSUME NEW c, NoResult(h, c) PROVE NoResult(g, c)
  <2> SUFFICES ASSUME NEW k \in DOMAIN g, g[k].kind = "ToolResult" PROVE g[k].call # c
    BY DEF NoResult
  <2>1. PICK a \in 1..n : g[k] = h[a]
    BY DEF Drawn
  <2> QED
    BY <1>1, <2>1 DEF NoResult
<1>2. ASSUME ResultsOnce(h) PROVE ResultsOnce(g)
  <2> SUFFICES ASSUME NEW j \in DOMAIN g, NEW k \in DOMAIN g, j # k,
                      g[j].kind = "ToolResult", g[k].kind = "ToolResult", g[j].call = g[k].call
               PROVE  FALSE
    BY DEF ResultsOnce
  <2>1. PICK a \in 1..n, b \in 1..n : a # b /\ g[j] = h[a] /\ g[k] = h[b]
    BY DEF Drawn
  <2> QED
    BY <1>2, <2>1 DEF ResultsOnce
<1> QED
  BY <1>1, <1>2 DEF ResultsStay

\* A retry takes the tracked entries out and forgets the slots.
LEMMA ResetEdits ==
  ASSUME NEW n \in Nat, NEW s, SessionOK(s, n), NEW t, t = ResetForRetry(s)
  PROVE  Edits(s, t, n) /\ t.phase = s.phase
<1> DEFINE g == Without(s.history, {At(s, slot) : slot \in DOMAIN s.tracked})
<1>1. t = [s EXCEPT !.history = g, !.tracked = NoTracking]
  BY DEF ResetForRetry
<1>2. s.history \in Seq(EntriesOf(n, s.next)) /\ Shaped(s)
  BY DEF SessionOK
<1>3. g \in Seq(EntriesOf(n, s.next)) /\ Drawn(g, s.history, Len(s.history))
  BY <1>2, WithoutKeeps
<1> HIDE DEF g
<1>4. /\ t.phase = s.phase /\ t.next = s.next /\ t.history = g /\ t.tracked = NoTracking
      /\ Shaped(t)
  BY <1>1, <1>2 DEF Shaped
<1>5. SessionOK(t, n)
  BY <1>3, <1>4, NothingTracked DEF SessionOK
<1>6. ResultsStay(s.history, t.history)
  BY <1>3, <1>4, HistoryParts, DrawnStay
<1>7. Indexed(t)
  BY <1>4, NothingTracked DEF Indexed, Own, Placed
<1> QED
  BY <1>4, <1>5, <1>6, <1>7 DEF Edits

LEMMA PermutesStay ==
  ASSUME NEW g, NEW h, DOMAIN g = DOMAIN h, Permutes(g, h)
  PROVE  ResultsStay(h, g)
<1>1. PICK p \in Bijection(DOMAIN h, DOMAIN h) : \A k \in DOMAIN h : g[k] = h[p[k]]
  BY DEF Permutes
<1> DEFINE D == DOMAIN h
<1>2. p \in [D -> D] /\ \A a, b \in D : p[a] = p[b] => a = b
  BY <1>1 DEF Bijection, Injection, IsInjective
<1>3. \A k \in D : p[k] \in D
  BY <1>2
<1> HIDE DEF D
<1> QED
  BY <1>1, <1>2, <1>3, ResultsFrom DEF D

\* Normalizing moves entries, and with them nothing that is tracked if nothing is.
LEMMA NormalizedKeeps ==
  ASSUME NEW n \in Nat, NEW s, SessionOK(s, n), NEW t, t = Normalized(s)
  PROVE  /\ SessionOK(t, n) /\ ResultsStay(s.history, t.history) /\ t.phase = s.phase
         /\ s.phase # "Streaming" => Edits(s, t, n)
<1>1. /\ Shaped(s) /\ TrackedOK(s.tracked) /\ s.history \in Seq(EntriesOf(n, s.next))
  BY DEF SessionOK
<1>2. Reordered(t, s) /\ t.history \in Seq(EntriesOf(n, s.next))
  BY <1>1, NormalizingClosesEveryLoop
<1>3. /\ Shaped(t) /\ t.phase = s.phase /\ t.next = s.next /\ TrackedOK(t.tracked)
      /\ DOMAIN t.tracked = DOMAIN s.tracked /\ Permutes(t.history, s.history)
      /\ DOMAIN t.history = DOMAIN s.history
  BY <1>2 DEF Reordered, Tidier
<1>4. DOMAIN t.tracked = {} => t.tracked = NoTracking
  BY <1>3 DEF TrackedOK, NoTracking
<1>5. SessionOK(t, n)
  BY <1>2, <1>3, <1>4, NothingTracked DEF SessionOK
<1>6. ResultsStay(s.history, t.history)
  BY <1>3, PermutesStay
<1>7. s.phase # "Streaming" => Indexed(t)
  BY <1>3, NothingTracked DEF SessionOK, Indexed, Own, Placed
<1> QED
  BY <1>3, <1>5, <1>6, <1>7 DEF Edits

LEMMA ConcludedEdits ==
  ASSUME NEW n \in Nat, SessionOK(session, n), NEW m,
         m.reason \in {"Finished", "Canceled", "ToolUse"}, NEW t, t = Concluded(m)
  PROVE  Edits(session, t, n) /\ t.phase # "Streaming"
<1>1. PICK s : s = IF m.reason = "Canceled" THEN Push(session, Plain("Error")) ELSE session
  OBVIOUS
<1>2. "Error" \in Kinds /\ "Error" # "ToolResult"
  BY DEF Kinds
<1>3. Edits(session, s, n) /\ SessionOK(s, n)
  BY <1>1, <1>2, PlainEdits, EditsNothing DEF Edits
<1>4. PICK done : done = FinishStreaming(s, m.reason # "Canceled")
  OBVIOUS
<1>5. (m.reason # "Canceled") \in BOOLEAN
  OBVIOUS
<1>6. Edits(s, done, n) /\ done.phase # "Streaming" /\ SessionOK(done, n)
  BY <1>3, <1>4, <1>5, FinishStreamingEdits DEF Edits
<1>7. done.phase \in {"Idle", "Sending"}
  BY <1>6 DEF SessionOK, Phases
<1>8. t = CASE m.reason = "Finished" -> done
            [] m.reason = "Canceled" -> SweepDangling(done)
            [] m.reason = "ToolUse" -> ToPhase(done, BeginSending(done.phase))
  BY <1>1, <1>4 DEF Concluded
<1>9. Edits(done, t, n) /\ t.phase # "Streaming"
  <2>1. CASE m.reason = "Finished"
    BY <1>6, <1>8, <2>1, EditsNothing
  <2>2. CASE m.reason = "Canceled"
    <3>1. t = SweepDangling(done)
      BY <1>8, <2>2
    <3> QED
      BY <1>6, <3>1, SweepEdits
  <2>3. CASE m.reason = "ToolUse"
    <3>1. t = ToPhase(done, BeginSending(done.phase))
      BY <1>8, <2>3
    <3>2. BeginSending(done.phase) \in Phases \ {"Streaming"}
      BY <1>7 DEF BeginSending, OnDispatchMessage, Transition, Phases
    <3> QED
      BY <1>6, <3>1, <3>2, ToPhaseEdits
  <2> QED
    BY <2>1, <2>2, <2>3
<1> QED
  BY <1>3, <1>6, <1>9, EditsTwice

-----------------------------------------------------------------------------
(* Mailboxes. *)

IsQueue(q) == q \in Seq(ToSet(q))

\* What every message of a mailbox says, of n generations.
CallReports == {"ToolUseStarted", "ToolCallStreaming", "ToolCallReceived",
                "ToolExecutionStarted", "ToolExecutionCompleted"}
Posted(m, n) ==
  /\ m.type = "ToolBatchCompleted" => m.gen \in 0..n
  /\ m.type \notin {"CancelStream", "ToolBatchCompleted"} => m.gen \in 1..n
  /\ m.type \in CallReports => m.call \in 1..MaxCalls
  /\ m.type = "StreamToken" => m.thinking \in BOOLEAN
  /\ m.type = "StreamCompleted" => m.reason \in {"Finished", "Canceled", "ToolUse"}
MailOK(q, n) == IsQueue(q) /\ \A m \in ToSet(q) : Posted(m, n)

LEMMA OwnQueue ==
  ASSUME NEW E, NEW q \in Seq(E)
  PROVE  IsQueue(q)
<1>1. DOMAIN q = 1..Len(q)
  OBVIOUS
<1>2. \A k \in 1..Len(q) : q[k] \in ToSet(q)
  BY <1>1 DEF ToSet
<1> DEFINE S == ToSet(q)
<1> HIDE DEF S
<1>3. Len(q) \in Nat /\ q = [k \in 1..Len(q) |-> q[k]] /\ \A k \in 1..Len(q) : q[k] \in S
  BY <1>2 DEF S
<1>4. q \in Seq(S)
  BY <1>3
<1> QED
  BY <1>4 DEF IsQueue, S

LEMMA QueueGrows ==
  ASSUME NEW q, IsQueue(q), NEW m, NEW r, r = Append(q, m)
  PROVE  /\ IsQueue(r) /\ Len(q) \in Nat /\ DOMAIN q = 1..Len(q) /\ DOMAIN r = 1..(Len(q) + 1)
         /\ \A k \in DOMAIN q : r[k] = q[k]
         /\ r[Len(q) + 1] = m
         /\ ToSet(r) = ToSet(q) \cup {m}
<1> DEFINE S == ToSet(q) \cup {m}
<1>1. q \in Seq(ToSet(q)) /\ ToSet(q) \subseteq S /\ m \in S
  BY DEF IsQueue
<1> HIDE DEF S
<1>2. q \in Seq(S)
  BY <1>1, SeqWider
<1>3. /\ r \in Seq(S) /\ Len(q) \in Nat /\ DOMAIN q = 1..Len(q) /\ DOMAIN r = 1..(Len(q) + 1)
      /\ \A k \in DOMAIN q : r[k] = q[k]
      /\ r[Len(q) + 1] = m
  BY <1>1, <1>2
<1>4. ToSet(r) = S
  <2>1. ASSUME NEW x \in ToSet(r) PROVE x \in S
    <3>1. PICK k \in DOMAIN r : x = r[k]
      BY DEF ToSet
    <3> QED
      BY <1>3, <3>1
  <2>2. ASSUME NEW x \in ToSet(q) PROVE x \in ToSet(r)
    <3>1. PICK k \in DOMAIN q : x = q[k]
      BY DEF ToSet
    <3>2. k \in DOMAIN r /\ r[k] = x
      BY <1>3, <3>1
    <3> QED
      BY <3>2 DEF ToSet
  <2>3. m \in ToSet(r)
    <3>1. Len(q) + 1 \in DOMAIN r
      BY <1>3
    <3> QED
      BY <1>3, <3>1 DEF ToSet
  <2> QED
    BY <2>1, <2>2, <2>3 DEF S
<1> QED
  BY <1>3, <1>4 DEF IsQueue, S

\* Taking the head of a mailbox.
LEMMA QueueShrinks ==
  ASSUME NEW q, IsQueue(q), q # <<>>, NEW r, r = Tail(q)
  PROVE  /\ IsQueue(r) /\ Len(q) \in Nat \ {0} /\ DOMAIN q = 1..Len(q)
         /\ DOMAIN r = 1..(Len(q) - 1)
         /\ \A k \in DOMAIN r : r[k] = q[k + 1] /\ k + 1 \in DOMAIN q /\ k \in Nat \ {0}
         /\ Head(q) = q[1] /\ 1 \in DOMAIN q
         /\ ToSet(r) \subseteq ToSet(q) /\ Head(q) \in ToSet(q)
<1>1. q \in Seq(ToSet(q))
  BY DEF IsQueue
<1>2. /\ Len(q) \in Nat \ {0} /\ DOMAIN q = 1..Len(q) /\ DOMAIN r = 1..(Len(q) - 1)
      /\ r \in Seq(ToSet(q)) /\ Len(r) = Len(q) - 1
      /\ \A k \in 1..(Len(q) - 1) : r[k] = q[k + 1]
      /\ Head(q) = q[1]
  BY <1>1
<1>3. \A k \in DOMAIN r : r[k] = q[k + 1] /\ k + 1 \in DOMAIN q /\ k \in Nat \ {0}
  BY <1>2
<1>4. 1 \in DOMAIN q
  BY <1>2
<1>5. ToSet(r) \subseteq ToSet(q) /\ Head(q) \in ToSet(q)
  BY <1>2, <1>3, <1>4 DEF ToSet
<1>6. IsQueue(r)
  BY <1>2, OwnQueue
<1> QED
  BY <1>2, <1>3, <1>4, <1>5, <1>6

LEMMA MailGrows ==
  ASSUME NEW n, NEW q, MailOK(q, n), NEW m, Posted(m, n)
  PROVE  MailOK(Append(q, m), n)
<1>1. PICK r : r = Append(q, m)
  OBVIOUS
<1>2. IsQueue(r) /\ ToSet(r) = ToSet(q) \cup {m}
  BY <1>1, QueueGrows DEF MailOK
<1> QED
  BY <1>1, <1>2 DEF MailOK

LEMMA MailShrinks ==
  ASSUME NEW n, NEW q, MailOK(q, n), q # <<>>
  PROVE  MailOK(Tail(q), n) /\ Posted(Head(q), n)
<1>1. PICK r : r = Tail(q)
  OBVIOUS
<1>2. IsQueue(r) /\ ToSet(r) \subseteq ToSet(q) /\ Head(q) \in ToSet(q)
  BY <1>1, QueueShrinks DEF MailOK
<1> QED
  BY <1>1, <1>2 DEF MailOK

LEMMA NoMail ==
  ASSUME NEW n
  PROVE  MailOK(<<>>, n)
BY DEF MailOK, IsQueue, ToSet

LEMMA MailWider ==
  ASSUME NEW n \in Nat, NEW q, MailOK(q, n)
  PROVE  MailOK(q, n + 1)
<1>1. \A g \in 0..n : g \in 0..(n + 1)
  OBVIOUS
<1>2. \A g \in 1..n : g \in 1..(n + 1)
  OBVIOUS
<1> QED
  BY <1>1, <1>2 DEF MailOK, Posted

-----------------------------------------------------------------------------
(* The inductive invariant of the types. *)

StreamRecords ==
  [st : {"queued", "open", "ended"}, started : 0..MaxCalls, deltas : Nat, received : Nat]
\* Calls are announced, streamed and received in that order.
StreamsOK(q) ==
  /\ q \in Seq(StreamRecords)
  /\ \A g \in DOMAIN q : q[g].received <= q[g].deltas /\ q[g].deltas <= q[g].started
CallsUpTo(n) == {<<g, k>> : g \in 1..n, k \in 1..MaxCalls}

Mailboxes(n) == MailOK(inbox, n) /\ MailOK(llmBox, n) /\ MailOK(toolBox, n)
Actors(n) ==
  /\ guard \in 0..n /\ task \in 0..n /\ open \in [gen : 0..n, left : 0..MaxCalls]
  /\ running \subseteq CallsUpTo(n) /\ announced \subseteq CallsUpTo(n)
  /\ buffered \in BOOLEAN /\ tombstone \in BOOLEAN
  /\ queue \in Nat /\ idle \in Nat /\ bridge \in Nat
\* The types in a form that is inductive: all bounds are the number of dispatches, which a
\* step either keeps or raises by one.
HistInv ==
  /\ SessionOK(session, Len(stream)) /\ StreamsOK(stream)
  /\ Mailboxes(Len(stream)) /\ Actors(Len(stream)) /\ budget \in [Inputs -> Nat]

LEMMA IdsWider ==
  ASSUME NEW n \in Nat
  PROVE  /\ 1..n \subseteq 1..(n + 1) /\ 0..n \subseteq 0..(n + 1)
         /\ Ids(n) \subseteq Ids(n + 1) /\ CallsUpTo(n) \subseteq CallsUpTo(n + 1)
<1>1. 1..n \subseteq 1..(n + 1) /\ 0..n \subseteq 0..(n + 1)
  OBVIOUS
<1>2. CallsUpTo(n) \subseteq CallsUpTo(n + 1)
  BY <1>1 DEF CallsUpTo
<1>3. Ids(n) \subseteq Ids(n + 1)
  BY <1>1 DEF Ids
<1> QED
  BY <1>1, <1>2, <1>3

LEMMA SessionWider ==
  ASSUME NEW n \in Nat, NEW s, SessionOK(s, n)
  PROVE  SessionOK(s, n + 1)
<1>1. EntriesOf(n, s.next) \subseteq EntriesOf(n + 1, s.next)
  BY IdsWider DEF EntriesOf
<1>2. s.history \in Seq(EntriesOf(n + 1, s.next))
  BY <1>1, SeqWider DEF SessionOK
<1>3. Slots(n) \subseteq Slots(n + 1)
  BY IdsWider DEF Slots
<1> QED
  BY <1>2, <1>3 DEF SessionOK

LEMMA StreamsParts ==
  ASSUME NEW q, StreamsOK(q)
  PROVE  /\ Len(q) \in Nat /\ DOMAIN q = 1..Len(q)
         /\ \A g \in 1..Len(q) : q[g] \in StreamRecords /\ g \in Nat
BY DEF StreamsOK

\* A change to the state of one generation.
LEMMA StreamEdited ==
  ASSUME NEW q, StreamsOK(q), NEW g \in 1..Len(q), NEW to \in StreamRecords,
         to.received <= to.deltas, to.deltas <= to.started,
         NEW r, r = [q EXCEPT ![g] = to]
  PROVE  StreamsOK(r) /\ Len(r) = Len(q)
<1>1. /\ q \in Seq(StreamRecords) /\ g \in DOMAIN q
  BY DEF StreamsOK
<1>2. r \in Seq(StreamRecords) /\ Len(r) = Len(q) /\ DOMAIN r = DOMAIN q
      /\ r[g] = to /\ \A k \in DOMAIN q : k # g => r[k] = q[k]
  BY <1>1
<1> QED
  BY <1>2 DEF StreamsOK

\* A dispatch is one more generation, queued and untouched.
LEMMA Dispatched ==
  ASSUME HistInv, NEW rest, MailOK(rest, Len(stream)), NEW origin, Dispatch(rest, origin)
  PROVE  /\ Len(stream') = Len(stream) + 1 /\ Len(stream) \in Nat /\ StreamsOK(stream')
         /\ MailOK(inbox', Len(stream) + 1) /\ MailOK(llmBox', Len(stream) + 1)
<1> DEFINE n == Len(stream)
<1>1. /\ stream \in Seq(StreamRecords) /\ n \in Nat
      /\ \A g \in DOMAIN stream : /\ stream[g].received <= stream[g].deltas
                                  /\ stream[g].deltas <= stream[g].started
  BY DEF HistInv, StreamsOK
<1>2. Fresh \in StreamRecords /\ Fresh.received = 0 /\ Fresh.deltas = 0 /\ Fresh.started = 0
  BY CallsAssumption DEF Fresh, StreamRecords
<1>3. stream' = Append(stream, Fresh)
  BY DEF Dispatch
<1>4. /\ stream' \in Seq(StreamRecords) /\ Len(stream') = n + 1
      /\ DOMAIN stream' = 1..(n + 1) /\ DOMAIN stream = 1..n
      /\ stream'[n + 1] = Fresh /\ \A g \in 1..n : stream'[g] = stream[g]
  BY <1>1, <1>2, <1>3
<1>5. \A g \in 1..(n + 1) : g \in 1..n \/ g = n + 1
  BY <1>1
<1>6. StreamsOK(stream')
  BY <1>1, <1>2, <1>4, <1>5 DEF StreamsOK
<1>7. Posted(Send(n + 1, origin), n + 1)
  <2>1. n + 1 \in 1..(n + 1)
    BY <1>1
  <2> QED
    BY <2>1 DEF Posted, Send, CallReports
<1> HIDE DEF n
<1>8. MailOK(rest, n + 1) /\ MailOK(llmBox, n + 1)
  BY <1>1, MailWider DEF HistInv, Mailboxes, n
<1>9. inbox' = Append(rest, Send(n + 1, origin)) /\ llmBox' = Append(llmBox, Send(n + 1, origin))
  BY DEF Dispatch, n
<1> QED
  BY <1>1, <1>4, <1>6, <1>7, <1>8, <1>9, MailGrows DEF n

LEMMA ActorsWider ==
  ASSUME NEW n \in Nat, Actors(n)
  PROVE  Actors(n + 1)
<1>1. open \in [gen : 0..(n + 1), left : 0..MaxCalls]
  BY IdsWider DEF Actors
<1> QED
  BY <1>1, IdsWider DEF Actors

LEMMA Spent ==
  ASSUME budget \in [Inputs -> Nat], NEW kind \in Inputs, Spend(kind)
  PROVE  budget' \in [Inputs -> Nat]
BY DEF Spend

\* A handler that dispatches keeps the types if it leaves a session of its types.
LEMMA DispatchKeepsTypes ==
  ASSUME HistInv, NEW rest, MailOK(rest, Len(stream)), NEW origin, Dispatch(rest, origin),
         NotLlm, UNCHANGED toolVars,
         SessionOK(session', Len(stream)), guard' \in 0..Len(stream), buffered' \in BOOLEAN,
         queue' \in Nat, idle' \in Nat, budget' \in [Inputs -> Nat]
  PROVE  HistInv'
<1>1. /\ Len(stream') = Len(stream) + 1 /\ Len(stream) \in Nat /\ StreamsOK(stream')
      /\ MailOK(inbox', Len(stream) + 1) /\ MailOK(llmBox', Len(stream) + 1)
  BY Dispatched
<1>2. SessionOK(session', Len(stream'))
  BY <1>1, SessionWider
<1>3. MailOK(toolBox', Len(stream'))
  BY <1>1, MailWider DEF HistInv, Mailboxes, toolVars
<1>4. Actors(Len(stream) + 1)
  BY <1>1, ActorsWider DEF HistInv
<1>5. guard' \in 0..(Len(stream) + 1)
  BY <1>1, IdsWider
<1>6. Actors(Len(stream))'
  BY <1>1, <1>4, <1>5 DEF Actors, NotLlm, toolVars
<1>7. Mailboxes(Len(stream))'
  BY <1>1, <1>3 DEF Mailboxes
<1> QED
  BY <1>1, <1>2, <1>6, <1>7 DEF HistInv

-----------------------------------------------------------------------------
(* What each action does to the session. *)

\* What the inductive invariant says of the session.
LEMMA Known ==
  ASSUME HistInv
  PROVE  /\ Len(stream) \in Nat /\ SessionOK(session, Len(stream)) /\ session.phase \in Phases
         /\ MailOK(inbox, Len(stream)) /\ MailOK(llmBox, Len(stream)) /\ MailOK(toolBox, Len(stream))
BY StreamsParts DEF HistInv, Mailboxes, SessionOK

LEMMA SessionUnchanged ==
  ASSUME HistInv, session' = session
  PROVE  Edits(session, session', Len(stream))
BY Known, EditsNothing

\* A message that is pushed, and the phase it leaves.
LEMMA PushToPhase ==
  ASSUME NEW n \in Nat, NEW s, SessionOK(s, n), NEW kind \in Kinds, kind # "ToolResult",
         NEW phase \in Phases
  PROVE  Edits(s, ToPhase(Push(s, Plain(kind)), phase), n)
<1>1. PICK t : t = Push(s, Plain(kind))
  OBVIOUS
<1>2. Edits(s, t, n)
  BY <1>1, PlainEdits
<1>3. Edits(t, ToPhase(t, phase), n)
  BY <1>2, ToPhaseEdits DEF Edits
<1> QED
  BY <1>1, <1>2, <1>3, EditsTwice

LEMMA EnqueueEdits ==
  ASSUME HistInv, HandleEnqueueUserMessage
  PROVE  Edits(session, session', Len(stream))
<1>1. CASE session' = session
  BY <1>1, SessionUnchanged
<1>2. CASE session' # session
  <2>1. session' = ToPhase(Push(session, Plain("User")), BeginStreaming(session.phase))
    BY <1>2 DEF HandleEnqueueUserMessage
  <2>2. "User" \in Kinds /\ "User" # "ToolResult"
    BY DEF Kinds
  <2>3. BeginStreaming(session.phase) \in Phases
    BY Known, PhasesKept
  <2> QED
    BY <2>1, <2>2, <2>3, Known, PushToPhase
<1> QED
  BY <1>1, <1>2

LEMMA NoticeEdits ==
  ASSUME HistInv, HandlePushChatEntry
  PROVE  Edits(session, session', Len(stream))
<1>1. session' = Push(session, Plain("System"))
  BY DEF HandlePushChatEntry
<1>2. "System" \in Kinds /\ "System" # "ToolResult"
  BY DEF Kinds
<1> QED
  BY <1>1, <1>2, Known, PlainEdits

LEMMA RetryEdits ==
  ASSUME HistInv, HandleRetryStalledSession
  PROVE  Edits(session, session', Len(stream))
<1>1. PICK s : s = ResetForRetry(session)
  OBVIOUS
<1>2. Edits(session, s, Len(stream)) /\ SessionOK(s, Len(stream))
  BY <1>1, Known, ResetEdits DEF Edits
<1>3. PICK t : t = SweepDangling(s)
  OBVIOUS
<1>4. Edits(s, t, Len(stream)) /\ SessionOK(t, Len(stream))
  BY <1>2, <1>3, Known, SweepEdits DEF Edits
<1>5. session' = ToPhase(t, BeginStreaming(session.phase))
  BY <1>1, <1>3 DEF HandleRetryStalledSession
<1>6. BeginStreaming(session.phase) \in Phases
  BY Known, PhasesKept
<1>7. Edits(t, session', Len(stream))
  BY <1>4, <1>5, <1>6, Known, ToPhaseEdits
<1> QED
  BY <1>2, <1>4, <1>7, EditsTwice

LEMMA EscEdits ==
  ASSUME HistInv, EscConfirm
  PROVE  Edits(session, session', Len(stream))
BY Known, CancelStreamingEdits DEF EscConfirm

LEMMA HeadKnown ==
  ASSUME HistInv, inbox # <<>>
  PROVE  Posted(Head(inbox), Len(stream)) /\ MailOK(Tail(inbox), Len(stream))
BY Known, MailShrinks

LEMMA TokenEdits ==
  ASSUME HistInv, HandleStreamToken
  PROVE  Edits(session, session', Len(stream))
<1> DEFINE m == Head(inbox)
<1>1. inbox # <<>> /\ m.type = "StreamToken" /\ session' = AppendToken(session, m.gen, m.thinking)
  BY DEF HandleStreamToken, HandleWith, Handle
<1>2. m.gen \in 1..Len(stream) /\ m.thinking \in BOOLEAN
  BY <1>1, HeadKnown DEF Posted
<1> HIDE DEF m
<1> QED
  BY <1>1, <1>2, Known, AppendTokenEdits

LEMMA CallBeginEdits ==
  ASSUME HistInv, HandleToolUseStarted
  PROVE  Edits(session, session', Len(stream))
<1> DEFINE m == Head(inbox)
<1>1. inbox # <<>> /\ m.type = "ToolUseStarted" /\ session' = BeginToolCall(session, m.gen, m.call)
  BY DEF HandleToolUseStarted, HandleWith, Handle
<1>2. m.gen \in 1..Len(stream) /\ m.call \in 1..MaxCalls
  BY <1>1, HeadKnown DEF Posted, CallReports
<1> HIDE DEF m
<1> QED
  BY <1>1, <1>2, Known, BeginToolCallEdits

LEMMA CallDeltaEdits ==
  ASSUME HistInv, HandleToolCallStreaming
  PROVE  Edits(session, session', Len(stream))
<1> DEFINE m == Head(inbox)
<1>1. session' = AppendToolCallDelta(session, m.gen, m.call)
  BY DEF HandleToolCallStreaming, HandleWith, Handle
<1> HIDE DEF m
<1> QED
  BY <1>1, Known, AppendToolCallDeltaEdits

LEMMA CallReceivedEdits ==
  ASSUME HistInv, HandleToolCallReceived
  PROVE  Edits(session, session', Len(stream))
<1> DEFINE m == Head(inbox)
<1>1. /\ inbox # <<>> /\ m.type = "ToolCallReceived"
      /\ session' = FinalizeToolCall(session, m.gen, m.call)
  BY DEF HandleToolCallReceived, HandleWith, Handle
<1>2. m.gen \in 1..Len(stream) /\ m.call \in 1..MaxCalls
  BY <1>1, HeadKnown DEF Posted, CallReports
<1> HIDE DEF m
<1> QED
  BY <1>1, <1>2, Known, FinalizeToolCallEdits

\* The report of a call's execution that is handled touches the results of that call only.
CallOf(m) == <<m.gen, m.call>>

LEMMA ExecutionStartedEdits ==
  ASSUME HistInv, HandleToolExecutionStarted
  PROVE  /\ SessionOK(session', Len(stream)) /\ (Indexed(session) => Indexed(session'))
         /\ ResultsOf(session, session', CallOf(Head(inbox)))
<1> DEFINE m == Head(inbox)
<1>1. /\ inbox # <<>> /\ m.type = "ToolExecutionStarted"
      /\ session' = BeginToolResult(session, CallOf(m))
  BY DEF HandleToolExecutionStarted, HandleWith, Handle, CallOf
<1>2. m.gen \in 1..Len(stream) /\ m.call \in 1..MaxCalls
  BY <1>1, HeadKnown DEF Posted, CallReports
<1>3. CallOf(m) \in Ids(Len(stream))
  BY <1>2, Known, Named DEF CallOf
<1> HIDE DEF m
<1> QED
  BY <1>1, <1>3, Known, BeginToolResultEdits DEF m

LEMMA ExecutionCompletedEdits ==
  ASSUME HistInv, HandleToolExecutionCompleted
  PROVE  /\ SessionOK(session', Len(stream)) /\ (Indexed(session) => Indexed(session'))
         /\ ResultsOf(session, session', CallOf(Head(inbox)))
         /\ ResultsOnce(session.history) => ResultsOnce(session'.history)
<1> DEFINE m == Head(inbox)
<1>1. /\ inbox # <<>> /\ m.type = "ToolExecutionCompleted"
      /\ session' = IF session.phase = "Sending" THEN FinalizeToolResult(session, CallOf(m))
                    ELSE session
  BY DEF HandleToolExecutionCompleted, HandleWith, Handle, CallOf
<1>2. m.gen \in 1..Len(stream) /\ m.call \in 1..MaxCalls
  BY <1>1, HeadKnown DEF Posted, CallReports
<1>3. CallOf(m) \in Ids(Len(stream))
  BY <1>2, Known, Named DEF CallOf
<1>4. CASE session' = session
  BY <1>4, Known DEF ResultsOf
<1>5. CASE session' # session
  <2>1. session' = FinalizeToolResult(session, CallOf(m))
    BY <1>1, <1>5
  <2> HIDE DEF m
  <2> QED
    BY <1>3, <2>1, Known, FinalizeToolResultEdits DEF m
<1> QED
  BY <1>4, <1>5

\* A loop that is continued was left: nothing is tracked.
LEMMA ContinueEdits ==
  ASSUME HistInv, NEW s, SessionOK(s, Len(stream)), s.phase # "Streaming",
         NEW rest, ContinueToolLoop(s, rest)
  PROVE  Edits(s, session', Len(stream))
<1>1. PICK t : t = Normalized(s)
  OBVIOUS
<1>2. Edits(s, t, Len(stream)) /\ SessionOK(t, Len(stream))
  BY <1>1, Known, NormalizedKeeps DEF Edits
<1>3. session' = ToPhase(t, BeginStreaming(s.phase))
  BY <1>1 DEF ContinueToolLoop
<1>4. BeginStreaming(s.phase) \in Phases
  BY PhasesKept DEF SessionOK
<1>5. Edits(t, session', Len(stream))
  BY <1>2, <1>3, <1>4, Known, ToPhaseEdits
<1> QED
  BY <1>2, <1>5, EditsTwice

LEMMA CompletedEdits ==
  ASSUME HistInv, HandleStreamCompleted
  PROVE  Edits(session, session', Len(stream))
<1> DEFINE m == Head(inbox)
<1>1. inbox # <<>> /\ m.type = "StreamCompleted"
  BY DEF HandleStreamCompleted, Handle
<1>2. m.reason \in {"Finished", "Canceled", "ToolUse"}
  BY <1>1, HeadKnown DEF Posted
<1>3. PICK t : t = Concluded(m)
  OBVIOUS
<1>4. \/ session' = session \/ session' = t
      \/ ContinueToolLoop(t, Tail(inbox))
  BY <1>3 DEF HandleStreamCompleted
<1> HIDE DEF m
<1>5. Edits(session, t, Len(stream)) /\ t.phase # "Streaming"
  BY <1>2, <1>3, Known, ConcludedEdits
<1>6. CASE ContinueToolLoop(t, Tail(inbox))
  <2>1. Edits(t, session', Len(stream))
    BY <1>5, <1>6, ContinueEdits DEF Edits
  <2> QED
    BY <1>5, <2>1, EditsTwice
<1> QED
  BY <1>4, <1>5, <1>6, SessionUnchanged

LEMMA BatchCompletedEdits ==
  ASSUME HistInv, HandleToolBatchCompleted
  PROVE  Edits(session, session', Len(stream))
<1>1. \/ session' = session
      \/ session.phase = "Sending" /\ ContinueToolLoop(session, Tail(inbox))
  BY DEF HandleToolBatchCompleted
<1> QED
  BY <1>1, Known, ContinueEdits, SessionUnchanged

\* A queued message is dispatched from whichever phase the session is in by then.
LEMMA DispatchQueuedKeeps ==
  ASSUME HistInv, DispatchQueued
  PROVE  /\ SessionOK(session', Len(stream))
         /\ ResultsStay(session.history, session'.history)
         /\ session.phase # "Streaming" => Edits(session, session', Len(stream))
<1>1. PICK s : s = Push(session, Plain("User"))
  OBVIOUS
<1>2. "User" \in Kinds /\ "User" # "ToolResult"
  BY DEF Kinds
<1>3. Edits(session, s, Len(stream)) /\ s.phase = session.phase /\ SessionOK(s, Len(stream))
  BY <1>1, <1>2, Known, PlainEdits DEF Edits
<1>4. PICK t : t = Normalized(s)
  OBVIOUS
<1>5. /\ SessionOK(t, Len(stream)) /\ ResultsStay(s.history, t.history) /\ t.phase = s.phase
      /\ s.phase # "Streaming" => Edits(s, t, Len(stream))
  BY <1>3, <1>4, Known, NormalizedKeeps
<1>6. session' = ToPhase(t, BeginSending(t.phase))
  BY <1>1, <1>4 DEF DispatchQueued
<1>7. BeginSending(t.phase) \in Phases
  BY <1>5, PhasesKept DEF SessionOK
<1>8. Edits(t, session', Len(stream))
  BY <1>5, <1>6, <1>7, Known, ToPhaseEdits
<1>9. ResultsStay(session.history, session'.history)
  BY <1>3, <1>5, <1>8 DEF Edits, ResultsStay
<1>10. session.phase # "Streaming" => Edits(session, session', Len(stream))
  BY <1>3, <1>5, <1>8, EditsTwice
<1> QED
  BY <1>8, <1>9, <1>10 DEF Edits

-----------------------------------------------------------------------------
(* Type correctness. *)

\* The session actor has handled a message, or changed its session, and nothing else.
LEMMA SessionStepTypes ==
  ASSUME HistInv, SessionOK(session', Len(stream)), MailOK(inbox', Len(stream)),
         guard' \in 0..Len(stream), buffered' \in BOOLEAN, queue' \in Nat, idle' \in Nat,
         bridge' \in Nat, UNCHANGED <<llmBox, task, tombstone, stream, toolVars>>,
         budget' \in [Inputs -> Nat]
  PROVE  HistInv'
<1>1. Len(stream') = Len(stream)
  OBVIOUS
<1>2. Actors(Len(stream))'
  BY <1>1 DEF HistInv, Actors, toolVars
<1>3. Mailboxes(Len(stream))'
  BY <1>1 DEF HistInv, Mailboxes, toolVars
<1> QED
  BY <1>1, <1>2, <1>3 DEF HistInv

LEMMA ActorsKnown ==
  ASSUME HistInv
  PROVE  /\ guard \in 0..Len(stream) /\ task \in 0..Len(stream)
         /\ open \in [gen : 0..Len(stream), left : 0..MaxCalls]
         /\ running \subseteq CallsUpTo(Len(stream)) /\ announced \subseteq CallsUpTo(Len(stream))
         /\ buffered \in BOOLEAN /\ tombstone \in BOOLEAN
         /\ queue \in Nat /\ idle \in Nat /\ bridge \in Nat /\ budget \in [Inputs -> Nat]
BY DEF HistInv, Actors

LEMMA EnqueueTypes ==
  ASSUME HistInv, HandleEnqueueUserMessage
  PROVE  HistInv'
<1>1. SessionOK(session', Len(stream))
  BY EnqueueEdits DEF Edits
<1>2. /\ NotLlm /\ UNCHANGED <<guard, buffered, idle, toolVars>>
      /\ \/ Spend("turn") /\ Dispatch(inbox, "User") /\ UNCHANGED queue
         \/ Spend("queued") /\ queue' = queue + 1 /\ UNCHANGED <<session, inbox, llmBox, stream>>
  BY DEF HandleEnqueueUserMessage
<1>3. budget' \in [Inputs -> Nat]
  BY <1>2, ActorsKnown, Spent DEF Inputs
<1>4. CASE Dispatch(inbox, "User") /\ UNCHANGED queue
  BY <1>1, <1>2, <1>3, <1>4, Known, ActorsKnown, DispatchKeepsTypes
<1>5. CASE queue' = queue + 1 /\ UNCHANGED <<session, inbox, llmBox, stream>>
  BY <1>1, <1>2, <1>3, <1>5, Known, ActorsKnown, SessionStepTypes DEF NotLlm
<1> QED
  BY <1>2, <1>4, <1>5

LEMMA DispatchQueuedTypes ==
  ASSUME HistInv, DispatchQueued
  PROVE  HistInv'
<1>1. SessionOK(session', Len(stream))
  BY DispatchQueuedKeeps
<1>2. /\ idle > 0 /\ idle' = idle - 1 /\ queue > 0 /\ queue' = queue - 1
      /\ Dispatch(inbox, "User")
      /\ NotLlm /\ UNCHANGED <<guard, buffered, toolVars, budget>>
  BY DEF DispatchQueued
<1>3. idle' \in Nat /\ queue' \in Nat
  BY <1>2, ActorsKnown
<1> QED
  BY <1>1, <1>2, <1>3, Known, ActorsKnown, DispatchKeepsTypes

LEMMA IgnoreIdleTypes ==
  ASSUME HistInv, IgnoreIdle
  PROVE  HistInv'
<1>1. idle' \in Nat
  BY ActorsKnown DEF IgnoreIdle
<1> QED
  BY <1>1, Known, ActorsKnown, SessionStepTypes DEF IgnoreIdle, llmVars

LEMMA NoticeTypes ==
  ASSUME HistInv, HandlePushChatEntry
  PROVE  HistInv'
<1>1. SessionOK(session', Len(stream))
  BY NoticeEdits DEF Edits
<1>2. Spend("notice") \/ Spend("noticeMid")
  BY DEF HandlePushChatEntry
<1>3. budget' \in [Inputs -> Nat]
  BY <1>2, ActorsKnown, Spent DEF Inputs
<1> QED
  BY <1>1, <1>3, Known, ActorsKnown, SessionStepTypes DEF HandlePushChatEntry, llmVars

LEMMA RetryTypes ==
  ASSUME HistInv, HandleRetryStalledSession
  PROVE  HistInv'
<1>1. SessionOK(session', Len(stream))
  BY RetryEdits DEF Edits
<1>2. /\ Spend("retry") /\ Dispatch(inbox, "User")
      /\ NotLlm /\ UNCHANGED <<guard, buffered, queue, idle, toolVars>>
  BY DEF HandleRetryStalledSession
<1>3. budget' \in [Inputs -> Nat]
  BY <1>2, ActorsKnown, Spent DEF Inputs
<1> QED
  BY <1>1, <1>2, <1>3, Known, ActorsKnown, DispatchKeepsTypes

LEMMA EscTypes ==
  ASSUME HistInv, EscConfirm
  PROVE  HistInv'
<1>1. SessionOK(session', Len(stream))
  BY EscEdits DEF Edits
<1>2. /\ Spend("esc") /\ queue' = 0 /\ bridge' = bridge + 1
      /\ UNCHANGED <<guard, buffered, idle, inbox, llmBox, task, tombstone, stream, toolVars>>
  BY DEF EscConfirm
<1>3. budget' \in [Inputs -> Nat]
  BY <1>2, ActorsKnown, Spent DEF Inputs
<1>4. bridge' \in Nat /\ queue' \in Nat
  BY <1>2, ActorsKnown
<1> QED
  BY <1>1, <1>2, <1>3, <1>4, Known, ActorsKnown, SessionStepTypes

\* A handler that changes nothing but the session.
LEMMA HandledTypes ==
  ASSUME HistInv, inbox # <<>>, inbox' = Tail(inbox), SessionOK(session', Len(stream)),
         UNCHANGED <<guard, buffered, queue, idle, llmVars, stream, toolVars, budget>>
  PROVE  HistInv'
BY Known, ActorsKnown, HeadKnown, SessionStepTypes DEF llmVars

LEMMA SendTypes ==
  ASSUME HistInv, HandleSendToLlmProvider
  PROVE  HistInv'
<1>1. /\ inbox # <<>> /\ Head(inbox).type = "SendToLlmProvider"
      /\ guard' = Head(inbox).gen /\ inbox' = Tail(inbox)
      /\ UNCHANGED <<session, buffered, queue, idle, llmVars, stream, toolVars, budget>>
  BY DEF HandleSendToLlmProvider, Handle
<1>2. Head(inbox).gen \in 1..Len(stream) /\ MailOK(inbox', Len(stream))
  BY <1>1, HeadKnown DEF Posted
<1>3. guard' \in 0..Len(stream)
  BY <1>1, <1>2, Known
<1> QED
  BY <1>1, <1>2, <1>3, Known, ActorsKnown, SessionStepTypes DEF llmVars

LEMMA CompletedTypes ==
  ASSUME HistInv, HandleStreamCompleted
  PROVE  HistInv'
<1>1. SessionOK(session', Len(stream))
  BY CompletedEdits DEF Edits
<1>2. PICK t : t = Concluded(Head(inbox))
  OBVIOUS
<1>3. /\ inbox # <<>> /\ NotLlm
      /\ guard' = guard \/ guard' = 0
      /\ queue' = queue \/ queue' = 0
      /\ idle' = idle \/ idle' = idle + 1
      /\ UNCHANGED <<toolVars, budget>>
      /\ \/ buffered' = FALSE /\ ContinueToolLoop(t, Tail(inbox))
         \/ inbox' = Tail(inbox) /\ UNCHANGED <<buffered, llmBox, stream>>
  BY <1>2 DEF HandleStreamCompleted, Handle
<1>4. guard' \in 0..Len(stream) /\ queue' \in Nat /\ idle' \in Nat
  BY <1>3, ActorsKnown, Known
<1>5. MailOK(Tail(inbox), Len(stream))
  BY <1>3, HeadKnown
<1>6. CASE buffered' = FALSE /\ ContinueToolLoop(t, Tail(inbox))
  <2>1. Dispatch(Tail(inbox), "ToolContinuation")
    BY <1>6 DEF ContinueToolLoop
  <2> QED
    BY <1>1, <1>3, <1>4, <1>5, <1>6, <2>1, Known, ActorsKnown, DispatchKeepsTypes
<1>7. CASE inbox' = Tail(inbox) /\ UNCHANGED <<buffered, llmBox, stream>>
  BY <1>1, <1>3, <1>4, <1>5, <1>7, Known, ActorsKnown, SessionStepTypes DEF NotLlm
<1> QED
  BY <1>3, <1>6, <1>7

LEMMA BatchCompletedTypes ==
  ASSUME HistInv, HandleToolBatchCompleted
  PROVE  HistInv'
<1>1. SessionOK(session', Len(stream))
  BY BatchCompletedEdits DEF Edits
<1>2. /\ inbox # <<>> /\ NotLlm
      /\ buffered' = (buffered \/ session.phase = "Streaming")
      /\ UNCHANGED <<guard, queue, idle, toolVars, budget>>
      /\ \/ ContinueToolLoop(session, Tail(inbox))
         \/ inbox' = Tail(inbox) /\ UNCHANGED <<session, llmBox, stream>>
  BY DEF HandleToolBatchCompleted, Handle
<1>3. buffered' \in BOOLEAN
  BY <1>2
<1>4. MailOK(Tail(inbox), Len(stream))
  BY <1>2, HeadKnown
<1>5. CASE ContinueToolLoop(session, Tail(inbox))
  <2>1. Dispatch(Tail(inbox), "ToolContinuation")
    BY <1>5 DEF ContinueToolLoop
  <2> QED
    BY <1>1, <1>2, <1>3, <1>4, <2>1, Known, ActorsKnown, DispatchKeepsTypes
<1>6. CASE inbox' = Tail(inbox) /\ UNCHANGED <<session, llmBox, stream>>
  BY <1>1, <1>2, <1>3, <1>4, <1>6, Known, ActorsKnown, SessionStepTypes DEF NotLlm
<1> QED
  BY <1>2, <1>5, <1>6

LEMMA HandlersTypes ==
  ASSUME HistInv, Handlers
  PROVE  HistInv'
<1>1. CASE HandleStreamToken
  <2>1. SessionOK(session', Len(stream))
    BY <1>1, TokenEdits DEF Edits
  <2> QED
    BY <1>1, <2>1, HandledTypes DEF HandleStreamToken, HandleWith, Handle
<1>2. CASE HandleToolUseStarted
  <2>1. SessionOK(session', Len(stream))
    BY <1>2, CallBeginEdits DEF Edits
  <2> QED
    BY <1>2, <2>1, HandledTypes DEF HandleToolUseStarted, HandleWith, Handle
<1>3. CASE HandleToolCallStreaming
  <2>1. SessionOK(session', Len(stream))
    BY <1>3, CallDeltaEdits DEF Edits
  <2> QED
    BY <1>3, <2>1, HandledTypes DEF HandleToolCallStreaming, HandleWith, Handle
<1>4. CASE HandleToolCallReceived
  <2>1. SessionOK(session', Len(stream))
    BY <1>4, CallReceivedEdits DEF Edits
  <2> QED
    BY <1>4, <2>1, HandledTypes DEF HandleToolCallReceived, HandleWith, Handle
<1>5. CASE HandleToolExecutionStarted
  BY <1>5, ExecutionStartedEdits, HandledTypes DEF HandleToolExecutionStarted, HandleWith, Handle
<1>6. CASE HandleToolExecutionCompleted
  BY <1>6, ExecutionCompletedEdits, HandledTypes
     DEF HandleToolExecutionCompleted, HandleWith, Handle
<1> QED
  BY <1>1, <1>2, <1>3, <1>4, <1>5, <1>6, SendTypes, CompletedTypes, BatchCompletedTypes DEF Handlers

\* A step of the LLM actor or of the tools leaves the session as it is.
LEMMA OtherStepTypes ==
  ASSUME HistInv, UNCHANGED sessionVars, StreamsOK(stream'), Len(stream') = Len(stream),
         MailOK(inbox', Len(stream)), MailOK(llmBox', Len(stream)), MailOK(toolBox', Len(stream)),
         task' \in 0..Len(stream), tombstone' \in BOOLEAN, bridge' \in Nat,
         open' \in [gen : 0..Len(stream), left : 0..MaxCalls],
         running' \subseteq CallsUpTo(Len(stream)), announced' \subseteq CallsUpTo(Len(stream)),
         budget' \in [Inputs -> Nat]
  PROVE  HistInv'
<1>1. Actors(Len(stream))'
  BY DEF HistInv, Actors, sessionVars
<1>2. Mailboxes(Len(stream))'
  BY DEF Mailboxes
<1>3. SessionOK(session', Len(stream'))
  BY Known DEF sessionVars
<1> QED
  BY <1>1, <1>2, <1>3 DEF HistInv

LEMMA StartStreamTypes ==
  ASSUME HistInv, StartStream
  PROVE  HistInv'
<1> DEFINE m == Head(llmBox)
           st == stream'[m.gen].st
<1>1. PICK to \in {"ended", "open"} :
        /\ llmBox # <<>> /\ m.type = "SendToLlmProvider" /\ llmBox' = Tail(llmBox)
        /\ stream' = [stream EXCEPT ![m.gen] = [@ EXCEPT !.st = to]]
        /\ task' = task \/ task' = m.gen
        /\ tombstone' \in BOOLEAN
        /\ UNCHANGED <<sessionVars, inbox, bridge, toolVars, budget>>
  BY DEF StartStream, HandleLlm
<1>2. m.gen \in 1..Len(stream) /\ MailOK(llmBox', Len(stream))
  BY <1>1, Known, MailShrinks DEF Posted
<1> HIDE DEF m
<1>3. task' \in 0..Len(stream)
  BY <1>1, <1>2, ActorsKnown, Known
<1> DEFINE u == [stream[m.gen] EXCEPT !.st = to]
<1>4. stream[m.gen] \in StreamRecords /\ StreamsOK(stream)
      /\ stream[m.gen].received <= stream[m.gen].deltas
      /\ stream[m.gen].deltas <= stream[m.gen].started
  BY <1>2, StreamsParts DEF HistInv, StreamsOK
<1>5. /\ u \in StreamRecords /\ u.received = stream[m.gen].received
      /\ u.deltas = stream[m.gen].deltas /\ u.started = stream[m.gen].started
  BY <1>4 DEF StreamRecords
<1>6. stream' = [stream EXCEPT ![m.gen] = u]
  BY <1>1
<1> HIDE DEF u
<1>7. StreamsOK(stream') /\ Len(stream') = Len(stream)
  BY <1>2, <1>4, <1>5, <1>6, StreamEdited
<1> QED
  BY <1>1, <1>2, <1>3, <1>7, Known, ActorsKnown, OtherStepTypes DEF toolVars

LEMMA PublishCancelTypes ==
  ASSUME HistInv, PublishCancel
  PROVE  HistInv'
<1>1. Posted([type |-> "CancelStream"], Len(stream))
  BY DEF Posted, CallReports
<1>2. MailOK(llmBox', Len(stream))
  BY <1>1, Known, MailGrows DEF PublishCancel
<1>3. bridge' \in Nat
  BY ActorsKnown DEF PublishCancel
<1>4. StreamsOK(stream)
  BY DEF HistInv
<1> QED
  BY <1>2, <1>3, <1>4, Known, ActorsKnown, OtherStepTypes DEF PublishCancel, toolVars

LEMMA CancelStreamTypes ==
  ASSUME HistInv, CancelStream
  PROVE  HistInv'
<1>1. /\ llmBox # <<>> /\ llmBox' = Tail(llmBox) /\ tombstone' = TRUE /\ task' = 0
      /\ UNCHANGED <<sessionVars, bridge, stream, open, running, announced, budget>>
      /\ \/ UNCHANGED <<inbox, toolBox>>
         \/ /\ task # 0
            /\ inbox' = Append(inbox, Completed(task, "Canceled"))
            /\ toolBox' = Append(toolBox, Note("CancelToolBatch", task))
  BY DEF CancelStream, HandleLlm
<1>2. task \in 0..Len(stream)
  BY ActorsKnown
<1>3. MailOK(llmBox', Len(stream))
  BY <1>1, Known, MailShrinks
<1>4. ASSUME task # 0
      PROVE  Posted(Completed(task, "Canceled"), Len(stream))
             /\ Posted(Note("CancelToolBatch", task), Len(stream))
  <2>1. task \in 1..Len(stream)
    BY <1>2, <1>4, Known
  <2> QED
    BY <2>1 DEF Posted, Completed, Note, CallReports
<1>5. MailOK(inbox', Len(stream)) /\ MailOK(toolBox', Len(stream))
  BY <1>1, <1>4, Known, MailGrows
<1>6. StreamsOK(stream) /\ 0 \in 0..Len(stream)
  BY Known DEF HistInv
<1> QED
  BY <1>1, <1>3, <1>5, <1>6, ActorsKnown, OtherStepTypes

LEMMA EmitTypes ==
  ASSUME HistInv, NEW to \in StreamRecords, to.received <= to.deltas, to.deltas <= to.started,
         NEW m, Posted(m, Len(stream)), Emit(to, m), task' \in 0..Len(stream),
         MailOK(toolBox', Len(stream)), UNCHANGED <<open, running, announced>>,
         budget' \in [Inputs -> Nat]
  PROVE  HistInv'
<1>1. /\ task # 0 /\ stream' = [stream EXCEPT ![task] = to] /\ inbox' = Append(inbox, m)
      /\ UNCHANGED <<sessionVars, llmBox, bridge, tombstone>>
  BY DEF Emit
<1>2. task \in 1..Len(stream)
  BY <1>1, ActorsKnown, Known
<1>3. StreamsOK(stream') /\ Len(stream') = Len(stream)
  BY <1>1, <1>2, StreamEdited DEF HistInv
<1>4. MailOK(inbox', Len(stream))
  BY <1>1, Known, MailGrows
<1> QED
  BY <1>1, <1>3, <1>4, Known, ActorsKnown, OtherStepTypes

LEMMA TaskKnown ==
  ASSUME HistInv, task # 0
  PROVE  /\ task \in 1..Len(stream) /\ task \in DOMAIN stream /\ stream[task] \in StreamRecords
         /\ stream[task].received <= stream[task].deltas
         /\ stream[task].deltas <= stream[task].started
<1>1. task \in 1..Len(stream)
  BY ActorsKnown, Known
<1> QED
  BY <1>1, StreamsParts DEF HistInv, StreamsOK

LEMMA EmitTokenTypes ==
  ASSUME HistInv, NEW thinking \in BOOLEAN, EmitToken(thinking)
  PROVE  HistInv'
<1> DEFINE m == [type |-> "StreamToken", gen |-> task, thinking |-> thinking]
<1>1. task # 0 /\ Emit(stream[task], m) /\ UNCHANGED <<task, toolVars>>
      /\ (Spend("think") \/ Spend("text"))
  BY DEF EmitToken, Calls
<1>2. Posted(m, Len(stream))
  BY <1>1, TaskKnown DEF Posted, CallReports
<1> HIDE DEF m
<1>3. budget' \in [Inputs -> Nat]
  BY <1>1, ActorsKnown, Spent DEF Inputs
<1> QED
  BY <1>1, <1>2, <1>3, TaskKnown, Known, ActorsKnown, EmitTypes DEF toolVars

LEMMA CallNotePosted ==
  ASSUME NEW type \in CallReports, NEW n, NEW g \in 1..n, NEW k \in 1..MaxCalls
  PROVE  Posted(CallNote(type, g, k), n)
BY DEF Posted, CallNote, CallReports

LEMMA EmitStartedTypes ==
  ASSUME HistInv, EmitToolUseStarted
  PROVE  HistInv'
<1> DEFINE to == [stream[task] EXCEPT !.started = @ + 1]
           m == CallNote("ToolUseStarted", task, stream[task].started + 1)
<1>1. /\ task # 0 /\ Emit(to, m) /\ UNCHANGED <<task, toolVars>>
      /\ stream[task].started < MaxCalls
      /\ (Spend("toolUse") \/ Spend("parallel"))
  BY DEF EmitToolUseStarted, Calls
<1>2. /\ task \in 1..Len(stream) /\ stream[task] \in StreamRecords
      /\ stream[task].received <= stream[task].deltas
      /\ stream[task].deltas <= stream[task].started
  BY <1>1, TaskKnown
<1>3. /\ stream[task].started \in 0..MaxCalls /\ stream[task].deltas \in Nat
      /\ stream[task].received \in Nat
  BY <1>2 DEF StreamRecords
<1>4. stream[task].started + 1 \in 1..MaxCalls /\ stream[task].started + 1 \in 0..MaxCalls
      /\ stream[task].deltas <= stream[task].started + 1
  BY <1>1, <1>2, <1>3, CallsAssumption
<1>5. to \in StreamRecords /\ to.received <= to.deltas /\ to.deltas <= to.started
  BY <1>2, <1>4 DEF StreamRecords
<1>6. Posted(m, Len(stream))
  BY <1>2, <1>4, CallNotePosted DEF CallReports
<1> HIDE DEF m, to
<1>7. budget' \in [Inputs -> Nat]
  BY <1>1, ActorsKnown, Spent DEF Inputs
<1> QED
  BY <1>1, <1>5, <1>6, <1>7, Known, ActorsKnown, EmitTypes DEF toolVars

LEMMA EmitStreamingTypes ==
  ASSUME HistInv, EmitToolCallStreaming
  PROVE  HistInv'
<1> DEFINE to == [stream[task] EXCEPT !.deltas = @ + 1]
           m == CallNote("ToolCallStreaming", task, stream[task].deltas + 1)
<1>1. /\ task # 0 /\ Emit(to, m) /\ UNCHANGED <<task, toolVars, budget>>
      /\ stream[task].deltas < stream[task].started
  BY DEF EmitToolCallStreaming, Calls
<1>2. /\ task \in 1..Len(stream) /\ stream[task] \in StreamRecords
      /\ stream[task].received <= stream[task].deltas
  BY <1>1, TaskKnown
<1>3. /\ stream[task].started \in 0..MaxCalls /\ stream[task].deltas \in Nat
      /\ stream[task].received \in Nat
  BY <1>2 DEF StreamRecords
<1>4. stream[task].deltas + 1 \in 1..MaxCalls /\ stream[task].deltas + 1 \in Nat
      /\ stream[task].deltas + 1 <= stream[task].started
      /\ stream[task].received <= stream[task].deltas + 1
  BY <1>1, <1>2, <1>3, CallsAssumption
<1>5. to \in StreamRecords /\ to.received <= to.deltas /\ to.deltas <= to.started
  BY <1>2, <1>4 DEF StreamRecords
<1>6. Posted(m, Len(stream))
  BY <1>2, <1>4, CallNotePosted DEF CallReports
<1> HIDE DEF m, to
<1> QED
  BY <1>1, <1>5, <1>6, Known, ActorsKnown, EmitTypes DEF toolVars

LEMMA EmitReceivedTypes ==
  ASSUME HistInv, EmitToolCallReceived
  PROVE  HistInv'
<1> DEFINE to == [stream[task] EXCEPT !.received = @ + 1]
           m == CallNote("ToolCallReceived", task, stream[task].received + 1)
<1>1. /\ task # 0 /\ Emit(to, m) /\ UNCHANGED <<task, toolVars, budget>>
      /\ stream[task].received < stream[task].deltas
  BY DEF EmitToolCallReceived, Calls
<1>2. /\ task \in 1..Len(stream) /\ stream[task] \in StreamRecords
      /\ stream[task].deltas <= stream[task].started
  BY <1>1, TaskKnown
<1>3. /\ stream[task].started \in 0..MaxCalls /\ stream[task].deltas \in Nat
      /\ stream[task].received \in Nat
  BY <1>2 DEF StreamRecords
<1>4. stream[task].received + 1 \in 1..MaxCalls /\ stream[task].received + 1 \in Nat
      /\ stream[task].received + 1 <= stream[task].deltas
  BY <1>1, <1>2, <1>3, CallsAssumption
<1>5. to \in StreamRecords /\ to.received <= to.deltas /\ to.deltas <= to.started
  BY <1>2, <1>4 DEF StreamRecords
<1>6. Posted(m, Len(stream))
  BY <1>2, <1>4, CallNotePosted DEF CallReports
<1> HIDE DEF m, to
<1> QED
  BY <1>1, <1>5, <1>6, Known, ActorsKnown, EmitTypes DEF toolVars

\* The end of a stream, whichever it is.
LEMMA EndedTypes ==
  ASSUME HistInv, task # 0, NEW to, to = [stream[task] EXCEPT !.st = "ended"],
         NEW reason \in {"Finished", "ToolUse"}
  PROVE  /\ to \in StreamRecords /\ to.received <= to.deltas /\ to.deltas <= to.started
         /\ Posted(Completed(task, reason), Len(stream))
         /\ Posted(Note("ExecuteToolBatch", task), Len(stream))
<1>1. to \in StreamRecords /\ to.received <= to.deltas /\ to.deltas <= to.started
  BY TaskKnown DEF StreamRecords
<1> QED
  BY <1>1, TaskKnown DEF Posted, Completed, Note, CallReports

LEMMA EmitFinishedTypes ==
  ASSUME HistInv, EmitFinished
  PROVE  HistInv'
<1> DEFINE to == [stream[task] EXCEPT !.st = "ended"]
           m == Completed(task, "Finished")
<1>1. task # 0 /\ Emit(to, m) /\ task' = 0 /\ UNCHANGED <<toolVars, budget>>
  BY DEF EmitFinished, Calls
<1>2. /\ to \in StreamRecords /\ to.received <= to.deltas /\ to.deltas <= to.started
      /\ Posted(m, Len(stream))
  BY <1>1, EndedTypes
<1>3. task' \in 0..Len(stream)
  BY <1>1, Known
<1> HIDE DEF m, to
<1> QED
  BY <1>1, <1>2, <1>3, Known, ActorsKnown, EmitTypes DEF toolVars

LEMMA EmitToolUseTypes ==
  ASSUME HistInv, EmitToolUse
  PROVE  HistInv'
<1> DEFINE to == [stream[task] EXCEPT !.st = "ended"]
           m == Completed(task, "ToolUse")
           e == Note("ExecuteToolBatch", task)
<1>1. /\ task # 0 /\ Emit(to, m) /\ toolBox' = Append(toolBox, e)
      /\ UNCHANGED <<task, open, running, announced, budget>>
  BY DEF EmitToolUse, Calls
<1>2. /\ to \in StreamRecords /\ to.received <= to.deltas /\ to.deltas <= to.started
      /\ Posted(m, Len(stream)) /\ Posted(e, Len(stream))
  BY <1>1, EndedTypes
<1> HIDE DEF m, to, e
<1>3. MailOK(toolBox', Len(stream))
  BY <1>1, <1>2, Known, MailGrows
<1> QED
  BY <1>1, <1>2, <1>3, ActorsKnown, EmitTypes

LEMMA ToolHandled ==
  ASSUME HistInv, NEW type, HandleTool(type), MailOK(inbox', Len(stream)),
         open' \in [gen : 0..Len(stream), left : 0..MaxCalls],
         running' \subseteq CallsUpTo(Len(stream)), budget' \in [Inputs -> Nat]
  PROVE  HistInv'
<1>1. toolBox # <<>> /\ toolBox' = Tail(toolBox) /\ UNCHANGED <<sessionVars, llmVars, stream, announced>>
  BY DEF HandleTool
<1>2. MailOK(toolBox', Len(stream))
  BY <1>1, Known, MailShrinks
<1>3. StreamsOK(stream)
  BY DEF HistInv
<1> QED
  BY <1>1, <1>2, <1>3, Known, ActorsKnown, OtherStepTypes DEF llmVars

LEMMA ExecuteTypes ==
  ASSUME HistInv, ExecuteToolBatch
  PROVE  HistInv'
<1> DEFINE g == Head(toolBox).gen
<1>1. /\ HandleTool("ExecuteToolBatch") /\ open' = [gen |-> g, left |-> stream[g].started]
      /\ running' = running \cup CallsOf(g) /\ UNCHANGED <<inbox, budget>>
      /\ toolBox # <<>> /\ Head(toolBox).type = "ExecuteToolBatch"
  BY DEF ExecuteToolBatch, HandleTool
<1>2. g \in 1..Len(stream)
  BY <1>1, Known, MailShrinks DEF Posted
<1> HIDE DEF g
<1>3. stream[g].started \in 0..MaxCalls /\ g \in 0..Len(stream)
  BY <1>2, Known, StreamsParts DEF HistInv, StreamRecords
<1>4. CallsOf(g) \subseteq CallsUpTo(Len(stream))
  <2>1. 1..stream[g].started \subseteq 1..MaxCalls
    BY <1>3, CallsAssumption
  <2> QED
    BY <1>2, <2>1 DEF CallsOf, CallsUpTo
<1>5. running' \subseteq CallsUpTo(Len(stream))
  BY <1>1, <1>4, ActorsKnown
<1>6. open' \in [gen : 0..Len(stream), left : 0..MaxCalls]
  BY <1>1, <1>3
<1> QED
  BY <1>1, <1>5, <1>6, Known, ActorsKnown, ToolHandled

LEMMA NoBatchOpen ==
  ASSUME NEW n \in Nat
  PROVE  NoBatch \in [gen : 0..n, left : 0..MaxCalls]
BY CallsAssumption DEF NoBatch

LEMMA CancelBatchTypes ==
  ASSUME HistInv, CancelToolBatch
  PROVE  HistInv'
<1>1. /\ HandleTool("CancelToolBatch") /\ open' = NoBatch /\ running' \subseteq running
      /\ UNCHANGED inbox
      /\ UNCHANGED budget \/ Spend("late")
  BY DEF CancelToolBatch
<1>2. budget' \in [Inputs -> Nat]
  BY <1>1, ActorsKnown, Spent DEF Inputs
<1>3. running' \subseteq CallsUpTo(Len(stream))
  BY <1>1, ActorsKnown
<1>4. open' \in [gen : 0..Len(stream), left : 0..MaxCalls]
  BY <1>1, Known, NoBatchOpen
<1>5. MailOK(inbox', Len(stream))
  BY <1>1, Known
<1> QED
  BY <1>1, <1>2, <1>3, <1>4, <1>5, ToolHandled

LEMMA CountTypes ==
  ASSUME HistInv, CountToolResult
  PROVE  HistInv'
<1>1. /\ HandleTool("ToolExecutionCompleted") /\ UNCHANGED <<running, budget>>
      /\ open' = CASE open.left = 0 -> open
                   [] open.left = 1 -> NoBatch
                   [] OTHER -> [open EXCEPT !.left = @ - 1]
      /\ inbox' = IF open.left = 1 THEN Append(inbox, Note("ToolBatchCompleted", open.gen))
                  ELSE inbox
  BY DEF CountToolResult
<1>2. open.gen \in 0..Len(stream) /\ open.left \in 0..MaxCalls
      /\ open = [gen |-> open.gen, left |-> open.left]
  BY ActorsKnown
<1>3. open' \in [gen : 0..Len(stream), left : 0..MaxCalls]
  <2>1. CASE open.left = 0
    BY <1>1, <2>1, ActorsKnown
  <2>2. CASE open.left = 1
    <3>1. open' = NoBatch
      BY <1>1, <2>2
    <3> QED
      BY <3>1, Known, NoBatchOpen
  <2>3. CASE open.left # 0 /\ open.left # 1
    <3>1. open' = [open EXCEPT !.left = @ - 1]
      BY <1>1, <2>3
    <3>2. open.left - 1 \in 0..MaxCalls
      BY <1>2, <2>3, CallsAssumption
    <3>3. open' = [gen |-> open.gen, left |-> open.left - 1]
      BY <1>2, <3>1
    <3> QED
      BY <1>2, <3>2, <3>3
  <2> QED
    BY <2>1, <2>2, <2>3
<1>4. Posted(Note("ToolBatchCompleted", open.gen), Len(stream))
  BY <1>2 DEF Posted, Note, CallReports
<1>5. MailOK(inbox', Len(stream))
  BY <1>1, <1>4, Known, MailGrows
<1>6. running' \subseteq CallsUpTo(Len(stream)) /\ budget' \in [Inputs -> Nat]
  BY <1>1, ActorsKnown
<1> QED
  BY <1>1, <1>3, <1>5, <1>6, ToolHandled

LEMMA RunningKnown ==
  ASSUME HistInv, NEW c \in running
  PROVE  c[1] \in 1..Len(stream) /\ c[2] \in 1..MaxCalls /\ c = <<c[1], c[2]>>
BY ActorsKnown DEF CallsUpTo

LEMMA ToolStartsTypes ==
  ASSUME HistInv, NEW c \in running, ToolStarts(c)
  PROVE  HistInv'
<1>1. /\ Spend("announced") /\ announced' = announced \cup {c}
      /\ inbox' = Append(inbox, CallNote("ToolExecutionStarted", c[1], c[2]))
      /\ UNCHANGED <<sessionVars, llmVars, stream, toolBox, open, running>>
  BY DEF ToolStarts
<1>2. Posted(CallNote("ToolExecutionStarted", c[1], c[2]), Len(stream))
  BY RunningKnown, CallNotePosted DEF CallReports
<1>3. MailOK(inbox', Len(stream))
  BY <1>1, <1>2, Known, MailGrows
<1>4. announced' \subseteq CallsUpTo(Len(stream))
  BY <1>1, ActorsKnown
<1>5. budget' \in [Inputs -> Nat]
  BY <1>1, ActorsKnown, Spent DEF Inputs
<1>6. StreamsOK(stream)
  BY DEF HistInv
<1> QED
  BY <1>1, <1>3, <1>4, <1>5, <1>6, Known, ActorsKnown, OtherStepTypes DEF llmVars

LEMMA ToolFinishesTypes ==
  ASSUME HistInv, NEW c \in running, ToolFinishes(c)
  PROVE  HistInv'
<1> DEFINE m == CallNote("ToolExecutionCompleted", c[1], c[2])
<1>1. /\ running' = running \ {c} /\ inbox' = Append(inbox, m) /\ toolBox' = Append(toolBox, m)
      /\ UNCHANGED <<sessionVars, llmVars, stream, open, announced, budget>>
  BY DEF ToolFinishes
<1>2. Posted(m, Len(stream))
  BY RunningKnown, CallNotePosted DEF CallReports
<1> HIDE DEF m
<1>3. MailOK(inbox', Len(stream)) /\ MailOK(toolBox', Len(stream))
  BY <1>1, <1>2, Known, MailGrows
<1>4. running' \subseteq CallsUpTo(Len(stream))
  BY <1>1, ActorsKnown
<1>5. StreamsOK(stream)
  BY DEF HistInv
<1> QED
  BY <1>1, <1>3, <1>4, <1>5, Known, ActorsKnown, OtherStepTypes DEF llmVars

\* Every step keeps the types.
LEMMA StepTypes ==
  ASSUME HistInv, [Next]_vars
  PROVE  HistInv'
<1>1. CASE Next
  BY <1>1, EnqueueTypes, DispatchQueuedTypes, IgnoreIdleTypes, NoticeTypes, RetryTypes, EscTypes,
     HandlersTypes, StartStreamTypes, PublishCancelTypes, CancelStreamTypes, EmitTokenTypes,
     EmitStartedTypes, EmitStreamingTypes, EmitReceivedTypes, EmitFinishedTypes,
     EmitToolUseTypes, ExecuteTypes, CancelBatchTypes, CountTypes, ToolStartsTypes,
     ToolFinishesTypes DEF Next, Llm, Tools
<1>2. CASE UNCHANGED vars
  BY <1>2 DEF HistInv, Mailboxes, Actors, vars, sessionVars, llmVars, toolVars
<1> QED
  BY <1>1, <1>2

LEMMA InitTypes ==
  ASSUME Init
  PROVE  HistInv
<1>1. stream = <<>> /\ Len(stream) = 0 /\ StreamsOK(stream)
  BY DEF Init, StreamsOK
<1>2. SessionOK(session, 0)
  <2>1. session.history = <<>> /\ session.tracked = NoTracking /\ session.phase = "Idle"
        /\ session.next = 1 /\ Shaped(session)
    BY DEF Init, Shaped
  <2> QED
    BY <2>1, NothingTracked DEF SessionOK, Phases
<1>3. Mailboxes(0)
  BY NoMail DEF Init, Mailboxes
<1>4. open \in [gen : 0..0, left : 0..MaxCalls]
  BY NoBatchOpen DEF Init
<1>5. Actors(0)
  <2>1. /\ guard \in 0..0 /\ task \in 0..0 /\ running = {} /\ announced = {}
        /\ buffered = FALSE /\ tombstone = FALSE /\ queue = 0 /\ idle = 0 /\ bridge = 0
    BY DEF Init
  <2> QED
    BY <1>4, <2>1 DEF Actors
<1>6. budget \in [Inputs -> Nat]
  BY BudgetAssumption DEF Init
<1> QED
  BY <1>1, <1>2, <1>3, <1>5, <1>6 DEF HistInv

LEMMA TypesKept == Spec => []HistInv
<1>1. Init => HistInv
  BY InitTypes
<1>2. HistInv /\ [Next]_vars => HistInv'
  BY StepTypes
<1> QED
  BY <1>1, <1>2, PTL DEF Spec

LEMMA TypesHold ==
  ASSUME HistInv
  PROVE  TypeOK
<1> DEFINE n == Len(stream)
<1>1. /\ n \in Nat /\ DOMAIN stream = 1..n /\ SessionOK(session, n)
  BY Known, StreamsParts DEF HistInv
<1>2. CallIds = Ids(n)
  BY <1>1 DEF CallIds, Ids
<1>3. ASSUME NEW k \in DOMAIN session.history
      PROVE  LET e == session.history[k]
             IN /\ e.id \in 1..(session.next - 1) /\ e.kind \in Kinds
                /\ e.call \in CallIds /\ e.from \subseteq DOMAIN stream
                /\ e.whole \in BOOLEAN /\ e.excluded \in BOOLEAN
  <2>1. session.history[k] \in EntriesOf(n, session.next)
    BY <1>1, <1>3, HistoryParts
  <2> QED
    BY <1>1, <1>2, <2>1 DEF EntriesOf
<1>4. DOMAIN session.tracked \subseteq
        {AssistantSlot, ThinkingSlot} \cup {CallSlot(k) : k \in 1..MaxCalls}
        \cup {ResultSlot(c) : c \in CallIds}
  BY <1>1, <1>2 DEF SessionOK, Slots
<1>5. session.phase # "Streaming" => session.tracked = NoTracking
  BY <1>1 DEF SessionOK
<1>6. session.phase \in Phases /\ session.next \in Nat
  BY <1>1 DEF SessionOK
<1>7. CallsUpTo(n) \subseteq CallIds
  BY <1>2 DEF CallsUpTo, Ids
<1>8. running \cup announced \subseteq CallIds
  BY <1>7, ActorsKnown
<1>9. \A g \in DOMAIN stream : stream[g].st \in {"queued", "open", "ended"}
                               /\ stream[g].received <= stream[g].deltas
                               /\ stream[g].deltas <= stream[g].started
  BY <1>1, StreamsParts DEF HistInv, StreamsOK, StreamRecords
<1>10. open.gen \in 0..n /\ open.left \in 0..MaxCalls
  BY ActorsKnown
<1> HIDE DEF n
<1>11. guard \in 0..n /\ task \in 0..n
  BY ActorsKnown DEF n
<1> QED
  BY <1>3, <1>4, <1>5, <1>6, <1>8, <1>9, <1>10, <1>11, ActorsKnown DEF TypeOK, History, n

\* The types of the session, the mailboxes and the actors: a session outside a stream
\* tracks nothing, entries and messages name calls of streams that were started, and
\* of a stream no more calls are delivered than were announced.
THEOREM HistoryTypeCorrect == Spec => []TypeOK
<1>1. HistInv => TypeOK
  BY TypesHold
<1> QED
  BY <1>1, TypesKept, PTL

-----------------------------------------------------------------------------
(* What is tracked. *)

\* A step dispatches no queued message while a stream is written.
Quiet == DispatchQueued => session.phase # "Streaming"

LEMMA EditsIndexed ==
  ASSUME NEW n, Indexed(session), Edits(session, session', n)
  PROVE  Indexed(session')
BY DEF Edits

\* Then the tracked indices stay right: every handler is an edit, and an edit keeps them.
LEMMA StepIndexed ==
  ASSUME HistInv, Indexed(session), [Next]_vars, [Quiet]_vars
  PROVE  Indexed(session')
<1>1. CASE session' = session
  BY <1>1
<1>2. CASE session' # session
  <2>1. DispatchQueued => session.phase # "Streaming"
    BY <1>2 DEF Quiet, vars, sessionVars
  <2>2. Next
    BY <1>2 DEF vars, sessionVars
  <2>3. CASE Handlers
    <3>1. CASE HandleToolExecutionStarted
      BY <3>1, ExecutionStartedEdits
    <3>2. CASE HandleToolExecutionCompleted
      BY <3>2, ExecutionCompletedEdits
    <3>3. CASE HandleSendToLlmProvider
      BY <1>2, <3>3 DEF HandleSendToLlmProvider
    <3> QED
      BY <2>3, <3>1, <3>2, <3>3, TokenEdits, CallBeginEdits, CallDeltaEdits, CallReceivedEdits,
         CompletedEdits, BatchCompletedEdits, EditsIndexed DEF Handlers
  <2>4. CASE DispatchQueued
    BY <2>1, <2>4, DispatchQueuedKeeps, EditsIndexed
  <2>5. CASE HandleEnqueueUserMessage
    BY <2>5, EnqueueEdits, EditsIndexed
  <2>6. CASE HandlePushChatEntry
    BY <2>6, NoticeEdits, EditsIndexed
  <2>7. CASE HandleRetryStalledSession
    BY <2>7, RetryEdits, EditsIndexed
  <2>8. CASE EscConfirm
    BY <2>8, EscEdits, EditsIndexed
  <2>9. ~IgnoreIdle
    BY <1>2 DEF IgnoreIdle
  <2>10. ~Llm
    BY <1>2 DEF Llm, StartStream, PublishCancel, CancelStream, EmitToken, EmitToolUseStarted,
       EmitToolCallStreaming, EmitToolCallReceived, EmitFinished, EmitToolUse, Emit, HandleLlm,
       sessionVars
  <2>11. ~Tools
    BY <1>2 DEF Tools, ExecuteToolBatch, CancelToolBatch, CountToolResult, HandleTool,
       ToolStarts, ToolFinishes, sessionVars
  <2> QED
    BY <2>2, <2>3, <2>4, <2>5, <2>6, <2>7, <2>8, <2>9, <2>10, <2>11 DEF Next
<1> QED
  BY <1>1, <1>2

LEMMA IndexedKept == Spec /\ [][Quiet]_vars => []Indexed(session)
<1>1. Init => HistInv /\ Indexed(session)
  <2> SUFFICES ASSUME Init PROVE HistInv /\ Indexed(session)
    OBVIOUS
  <2>1. session.tracked = NoTracking
    BY DEF Init
  <2> QED
    BY <2>1, InitTypes, NothingTracked DEF Indexed, Own, Placed
<1>2. HistInv /\ Indexed(session) /\ [Next]_vars /\ [Quiet]_vars => Indexed(session)'
  BY StepIndexed
<1> QED
  BY <1>1, <1>2, TypesKept, PTL DEF Spec

\* The chat session's index map: while a stream is written, every tracked index is that
\* of the entry it was taken for, whatever is pushed or inserted meanwhile.  The
\* hypothesis is that no queued message is dispatched in mid-stream: a dispatch
\* normalizes the history, which takes entries out without shifting an index.
THEOREM IndicesStayOwn ==
  Spec /\ [][DispatchQueued => session.phase # "Streaming"]_vars => []IndicesOwnEntries
<1>1. Indexed(session) => IndicesOwnEntries
  BY DEF Indexed, Own, IndicesOwnEntries, History
<1>2. [DispatchQueued => session.phase # "Streaming"]_vars => [Quiet]_vars
  BY DEF Quiet
<1> QED
  BY <1>1, <1>2, IndexedKept, PTL

\* Reasoning is inserted at the index of the text it belongs to, so it stays before
\* that text, as long as no message is dispatched (and the history normalized) in
\* mid-stream.
THEOREM ThinkingStaysFirst ==
  Spec /\ [][DispatchQueued => session.phase # "Streaming"]_vars => []ThinkingFirst
<1>1. Indexed(session) => ThinkingFirst
  BY DEF Indexed, Placed, ThinkingFirst, Tracks, At
<1>2. [DispatchQueued => session.phase # "Streaming"]_vars => [Quiet]_vars
  BY DEF Quiet
<1> QED
  BY <1>1, <1>2, IndexedKept, PTL

-----------------------------------------------------------------------------
(* One result per call. *)

Reports == {"ToolExecutionStarted", "ToolExecutionCompleted"}
Starts(m, c) == m.type = "ToolExecutionStarted" /\ CallOf(m) = c
Completes(m, c) == m.type = "ToolExecutionCompleted" /\ CallOf(m) = c

\* The calls of a generation are not executed yet.
Waiting(g) ==
  \/ stream[g].st # "ended"
  \/ \E k \in DOMAIN toolBox : toolBox[k].type = "ExecuteToolBatch" /\ toolBox[k].gen = g
\* Nothing of call c happened yet: no tool runs, no report is on its way, no result is there.
NotBegun(c) ==
  /\ c \notin running /\ c \notin announced /\ NoResult(session.history, c)
  /\ \A k \in DOMAIN inbox : ~Starts(inbox[k], c) /\ ~Completes(inbox[k], c)

\* A generation is sent to the LLM actor once, before its stream opens; its batch is
\* executed once, after its stream ended.
SentOnce ==
  /\ \A k \in DOMAIN llmBox :
       llmBox[k].type = "SendToLlmProvider" => stream[llmBox[k].gen].st = "queued"
  /\ \A j, k \in DOMAIN llmBox :
       llmBox[j].type = "SendToLlmProvider" /\ llmBox[k].type = "SendToLlmProvider"
       /\ llmBox[j].gen = llmBox[k].gen => j = k
ExecutedOnce ==
  /\ \A k \in DOMAIN toolBox :
       toolBox[k].type = "ExecuteToolBatch" => stream[toolBox[k].gen].st = "ended"
  /\ \A j, k \in DOMAIN toolBox :
       toolBox[j].type = "ExecuteToolBatch" /\ toolBox[k].type = "ExecuteToolBatch"
       /\ toolBox[j].gen = toolBox[k].gen => j = k
\* Where the calls stand.  Those of a generation that is not executed have not begun; a
\* running one is not reported complete; one that has not announced its start has no result
\* and no report; and the report of a start comes once, before that of the end, for a call
\* without a result.
Unstarted == \A g \in DOMAIN stream : Waiting(g) => \A k \in 1..MaxCalls : NotBegun(<<g, k>>)
RunningOpen == \A c \in running : \A k \in DOMAIN inbox : ~Completes(inbox[k], c)
RunningSilent ==
  \A c \in running \ announced :
     NoResult(session.history, c) /\ \A k \in DOMAIN inbox : ~Starts(inbox[k], c)
StartsFirst ==
  \A k \in DOMAIN inbox :
     inbox[k].type = "ToolExecutionStarted" =>
       /\ CallOf(inbox[k]) \in announced /\ NoResult(session.history, CallOf(inbox[k]))
       /\ \A j \in DOMAIN inbox : Starts(inbox[j], CallOf(inbox[k])) => j = k
       /\ \A j \in DOMAIN inbox : Completes(inbox[j], CallOf(inbox[k])) => k < j
Results == Unstarted /\ RunningOpen /\ RunningSilent /\ StartsFirst /\ ResultsOnce(session.history)
ResultInv == SentOnce /\ ExecutedOnce /\ Results

\* The messages of these types in r are messages of q, in the order they have there.
Carries(f, r, q, types) ==
  /\ \A k \in DOMAIN r : r[k].type \in types => f[k] \in DOMAIN q /\ q[f[k]] = r[k]
  /\ \A j, k \in DOMAIN r :
       r[j].type \in types /\ r[k].type \in types /\ j < k => f[j] < f[k]
Follows(r, q, types) == \E f : Carries(f, r, q, types)

LEMMA FollowsSame ==
  ASSUME NEW q, NEW types
  PROVE  Follows(q, q, types)
<1> DEFINE f == [k \in DOMAIN q |-> k]
<1>1. Carries(f, q, q, types)
  BY DEF Carries
<1> QED
  BY <1>1 DEF Follows

LEMMA FollowsTail ==
  ASSUME NEW q, IsQueue(q), q # <<>>, NEW r, r = Tail(q), NEW types
  PROVE  Follows(r, q, types)
<1> DEFINE f == [k \in DOMAIN r |-> k + 1]
<1>1. /\ DOMAIN r = 1..(Len(q) - 1) /\ Len(q) \in Nat
      /\ \A k \in DOMAIN r : r[k] = q[k + 1] /\ k + 1 \in DOMAIN q /\ k \in Nat
  BY QueueShrinks
<1>2. \A j, k \in DOMAIN r : j < k => j + 1 < k + 1
  BY <1>1
<1>3. Carries(f, r, q, types)
  BY <1>1, <1>2 DEF Carries
<1> QED
  BY <1>3 DEF Follows

LEMMA FollowsAppend ==
  ASSUME NEW r, IsQueue(r), NEW q, NEW types, Follows(r, q, types), NEW m, m.type \notin types,
         NEW s, s = Append(r, m)
  PROVE  Follows(s, q, types)
<1>1. /\ Len(r) \in Nat /\ DOMAIN r = 1..Len(r) /\ DOMAIN s = 1..(Len(r) + 1)
      /\ \A k \in DOMAIN r : s[k] = r[k]
      /\ s[Len(r) + 1] = m
  BY QueueGrows
<1>2. \A k \in DOMAIN s : s[k].type \in types => k \in DOMAIN r
  <2>1. \A k \in DOMAIN s : k \in DOMAIN r \/ k = Len(r) + 1
    BY <1>1
  <2> QED
    BY <1>1, <2>1
<1>3. PICK f : Carries(f, r, q, types)
  BY DEF Follows
<1>4. Carries(f, s, q, types)
  BY <1>1, <1>2, <1>3 DEF Carries
<1> QED
  BY <1>4 DEF Follows

LEMMA FollowsTailAppend ==
  ASSUME NEW q, IsQueue(q), q # <<>>, NEW types, NEW m, m.type \notin types
  PROVE  Follows(Append(Tail(q), m), q, types)
<1>1. PICK r : r = Tail(q)
  OBVIOUS
<1>2. IsQueue(r) /\ Follows(r, q, types)
  BY <1>1, QueueShrinks, FollowsTail
<1>3. PICK s : s = Append(r, m)
  OBVIOUS
<1>4. Follows(s, q, types)
  BY <1>2, <1>3, FollowsAppend
<1> QED
  BY <1>1, <1>3, <1>4

LEMMA Positions ==
  ASSUME NEW q, NEW n, MailOK(q, n)
  PROVE  DOMAIN q \subseteq Nat
BY DEF MailOK, IsQueue

LEMMA Queues ==
  ASSUME HistInv
  PROVE  /\ IsQueue(inbox) /\ IsQueue(llmBox) /\ IsQueue(toolBox)
         /\ DOMAIN inbox \subseteq Nat /\ DOMAIN llmBox \subseteq Nat /\ DOMAIN toolBox \subseteq Nat
         /\ \A k \in DOMAIN inbox : Posted(inbox[k], Len(stream))
         /\ \A k \in DOMAIN llmBox : Posted(llmBox[k], Len(stream))
         /\ \A k \in DOMAIN toolBox : Posted(toolBox[k], Len(stream))
<1>1. IsQueue(inbox) /\ IsQueue(llmBox) /\ IsQueue(toolBox)
  BY Known DEF MailOK
<1>2. \A q : IsQueue(q) => DOMAIN q \subseteq Nat
  BY DEF IsQueue
<1> QED
  BY <1>1, <1>2, Known DEF MailOK, ToSet

LEMMA CarriesApart ==
  ASSUME NEW r, NEW q, NEW types, NEW f, Carries(f, r, q, types),
         DOMAIN r \subseteq Nat, DOMAIN q \subseteq Nat,
         NEW j \in DOMAIN r, NEW k \in DOMAIN r, r[j].type \in types, r[k].type \in types
  PROVE  /\ f[j] = f[k] => j = k
         /\ f[j] < f[k] => j < k
<1>1. /\ j \in Nat /\ k \in Nat /\ f[j] \in Nat /\ f[k] \in Nat
      /\ j < k => f[j] < f[k]
      /\ k < j => f[k] < f[j]
  BY DEF Carries
<1> QED
  BY <1>1

LEMMA SentKept ==
  ASSUME HistInv, HistInv', SentOnce, Follows(llmBox', llmBox, {"SendToLlmProvider"}),
         \A k \in DOMAIN llmBox :
           llmBox[k].type = "SendToLlmProvider" =>
             stream'[llmBox[k].gen].st = stream[llmBox[k].gen].st
  PROVE  SentOnce'
<1>1. PICK f : Carries(f, llmBox', llmBox, {"SendToLlmProvider"})
  BY DEF Follows
<1>2. DOMAIN llmBox \subseteq Nat /\ DOMAIN llmBox' \subseteq Nat
  BY Positions DEF HistInv, Mailboxes
<1>3. ASSUME NEW k \in DOMAIN llmBox', llmBox'[k].type = "SendToLlmProvider"
      PROVE  stream'[llmBox'[k].gen].st = "queued"
  BY <1>1, <1>3 DEF Carries, SentOnce
<1>4. ASSUME NEW j \in DOMAIN llmBox', NEW k \in DOMAIN llmBox',
             llmBox'[j].type = "SendToLlmProvider", llmBox'[k].type = "SendToLlmProvider",
             llmBox'[j].gen = llmBox'[k].gen
      PROVE  j = k
  <2>1. f[j] = f[k]
    BY <1>1, <1>4 DEF Carries, SentOnce
  <2> QED
    BY <1>1, <1>2, <1>4, <2>1, CarriesApart
<1> QED
  BY <1>3, <1>4 DEF SentOnce

LEMMA ExecutedKept ==
  ASSUME HistInv, HistInv', ExecutedOnce, Follows(toolBox', toolBox, {"ExecuteToolBatch"}),
         \A g \in DOMAIN stream : stream[g].st = "ended" => stream'[g].st = "ended"
  PROVE  ExecutedOnce'
<1>1. PICK f : Carries(f, toolBox', toolBox, {"ExecuteToolBatch"})
  BY DEF Follows
<1>2. DOMAIN toolBox \subseteq Nat /\ DOMAIN toolBox' \subseteq Nat
  BY Positions DEF HistInv, Mailboxes
<1>3. ASSUME NEW k \in DOMAIN toolBox', toolBox'[k].type = "ExecuteToolBatch"
      PROVE  stream'[toolBox'[k].gen].st = "ended"
  <2>1. f[k] \in DOMAIN toolBox /\ toolBox[f[k]] = toolBox'[k]
    BY <1>1, <1>3 DEF Carries
  <2>2. toolBox'[k].gen \in 1..Len(stream)
    BY <1>3, <2>1, Queues DEF Posted
  <2>3. toolBox'[k].gen \in DOMAIN stream
    BY <2>2, StreamsParts DEF HistInv
  <2> QED
    BY <1>3, <2>1, <2>3 DEF ExecutedOnce
<1>4. ASSUME NEW j \in DOMAIN toolBox', NEW k \in DOMAIN toolBox',
             toolBox'[j].type = "ExecuteToolBatch", toolBox'[k].type = "ExecuteToolBatch",
             toolBox'[j].gen = toolBox'[k].gen
      PROVE  j = k
  <2>1. f[j] = f[k]
    BY <1>1, <1>4 DEF Carries, ExecutedOnce
  <2> QED
    BY <1>1, <1>2, <1>4, <2>1, CarriesApart
<1> QED
  BY <1>3, <1>4 DEF ExecutedOnce

\* A step that starts no call, ends none and reports none, and adds no result.
LEMMA ResultsKept ==
  ASSUME HistInv, HistInv', Results, UNCHANGED announced, running' \subseteq running,
         Follows(inbox', inbox, Reports), ResultsStay(session.history, session'.history),
         \A g \in DOMAIN stream' : Waiting(g)' =>
           (g \in DOMAIN stream /\ Waiting(g)) \/ \A k \in 1..MaxCalls : NotBegun(<<g, k>>)
  PROVE  Results'
<1>1. PICK f : Carries(f, inbox', inbox, Reports)
  BY DEF Follows
<1>2. DOMAIN inbox \subseteq Nat /\ DOMAIN inbox' \subseteq Nat
  BY Positions DEF HistInv, Mailboxes
<1>3. \A c : \A k \in DOMAIN inbox' : Starts(inbox'[k], c) \/ Completes(inbox'[k], c) =>
        f[k] \in DOMAIN inbox /\ inbox[f[k]] = inbox'[k]
  BY <1>1 DEF Carries, Starts, Completes, Reports
<1>4. ResultsOnce(session'.history)
  BY DEF Results, ResultsStay
<1>5. \A c : NotBegun(c) => NotBegun(c)'
  BY <1>3 DEF NotBegun, ResultsStay
<1>6. Unstarted'
  BY <1>5 DEF Results, Unstarted
<1>7. RunningOpen'
  BY <1>3 DEF Results, RunningOpen
<1>8. RunningSilent'
  BY <1>3 DEF Results, RunningSilent, ResultsStay
<1>9. StartsFirst'
  <2> SUFFICES ASSUME NEW k \in DOMAIN inbox', inbox'[k].type = "ToolExecutionStarted"
               PROVE  /\ CallOf(inbox'[k]) \in announced
                      /\ NoResult(session'.history, CallOf(inbox'[k]))
                      /\ \A j \in DOMAIN inbox' : Starts(inbox'[j], CallOf(inbox'[k])) => j = k
                      /\ \A j \in DOMAIN inbox' : Completes(inbox'[j], CallOf(inbox'[k])) => k < j
    BY DEF StartsFirst, Starts, Completes, CallOf
  <2>1. PICK c : c = CallOf(inbox'[k])
    OBVIOUS
  <2>2. Starts(inbox'[k], c)
    BY <2>1 DEF Starts
  <2>3. f[k] \in DOMAIN inbox /\ inbox[f[k]] = inbox'[k]
    BY <1>3, <2>2
  <2>4. /\ c \in announced /\ NoResult(session.history, c)
        /\ \A j \in DOMAIN inbox : Starts(inbox[j], c) => j = f[k]
        /\ \A j \in DOMAIN inbox : Completes(inbox[j], c) => f[k] < j
    BY <2>1, <2>3 DEF Results, StartsFirst
  <2>5. NoResult(session'.history, c)
    BY <2>4 DEF ResultsStay
  <2>6. ASSUME NEW j \in DOMAIN inbox', Starts(inbox'[j], c) PROVE j = k
    <3>1. f[j] = f[k] /\ inbox'[j].type \in Reports /\ inbox'[k].type \in Reports
      BY <1>3, <2>4, <2>6 DEF Starts, Reports
    <3> QED
      BY <1>1, <1>2, <3>1, CarriesApart
  <2>7. ASSUME NEW j \in DOMAIN inbox', Completes(inbox'[j], c) PROVE k < j
    <3>1. f[k] < f[j] /\ inbox'[j].type \in Reports /\ inbox'[k].type \in Reports
      BY <1>3, <2>4, <2>7 DEF Completes, Reports
    <3> QED
      BY <1>1, <1>2, <3>1, CarriesApart
  <2> QED
    BY <2>1, <2>4, <2>5, <2>6, <2>7
<1> QED
  BY <1>4, <1>6, <1>7, <1>8, <1>9 DEF Results

-----------------------------------------------------------------------------
(* One result per call: the steps of the session actor. *)

\* A step of the session actor that dispatches nothing.
LEMMA QuietStep ==
  ASSUME HistInv, HistInv', ResultInv, UNCHANGED <<stream, toolBox, announced>>,
         running' \subseteq running,
         Follows(llmBox', llmBox, {"SendToLlmProvider"}),
         Follows(inbox', inbox, Reports), ResultsStay(session.history, session'.history)
  PROVE  ResultInv'
<1>1. SentOnce'
  BY SentKept DEF ResultInv
<1>2. ExecutedOnce'
  BY FollowsSame, ExecutedKept DEF ResultInv
<1>3. \A g \in DOMAIN stream' : Waiting(g)' => g \in DOMAIN stream /\ Waiting(g)
  BY DEF Waiting
<1>4. Results'
  BY <1>3, ResultsKept DEF ResultInv
<1> QED
  BY <1>1, <1>2, <1>4 DEF ResultInv

\* Nothing is known of a generation before it is dispatched.
LEMMA NewNotBegun ==
  ASSUME HistInv, NEW k \in 1..MaxCalls
  PROVE  NotBegun(<<Len(stream) + 1, k>>)
<1> DEFINE n == Len(stream)
           c == <<n + 1, k>>
<1>1. n \in Nat /\ n + 1 \notin 1..n
  BY Known
<1>2. c \notin CallsUpTo(n) /\ c \notin Ids(n)
  <2>1. c # NoCall
    BY <1>1 DEF NoCall
  <2> QED
    BY <1>1, <2>1 DEF CallsUpTo, Ids
<1>3. c \notin running /\ c \notin announced
  BY <1>2, ActorsKnown
<1>4. NoResult(session.history, c)
  <2> SUFFICES ASSUME NEW j \in DOMAIN session.history PROVE session.history[j].call # c
    BY DEF NoResult
  <2>1. session.history[j] \in EntriesOf(n, session.next)
    BY <1>1, Known, HistoryParts
  <2>2. session.history[j].call \in Ids(n)
    BY <2>1 DEF EntriesOf
  <2> QED
    BY <1>2, <2>2
<1>5. ASSUME NEW j \in DOMAIN inbox, Starts(inbox[j], c) \/ Completes(inbox[j], c) PROVE FALSE
  <2>1. inbox[j].gen = n + 1 /\ inbox[j].type \in Reports
    BY <1>5 DEF Starts, Completes, CallOf, Reports
  <2>2. inbox[j].gen \in 1..n
    BY <2>1, Queues DEF Posted, Reports
  <2> QED
    BY <1>1, <2>1, <2>2
<1> QED
  BY <1>3, <1>4, <1>5 DEF NotBegun

\* A step of the session actor that dispatches a generation.
LEMMA DispatchStep ==
  ASSUME HistInv, HistInv', ResultInv, NEW rest, NEW origin, Dispatch(rest, origin),
         UNCHANGED toolVars, IsQueue(rest), Follows(rest, inbox, Reports),
         ResultsStay(session.history, session'.history)
  PROVE  ResultInv'
<1> DEFINE n == Len(stream)
           m == Send(n + 1, origin)
<1>1. /\ stream' = Append(stream, Fresh) /\ inbox' = Append(rest, m) /\ llmBox' = Append(llmBox, m)
      /\ UNCHANGED <<toolBox, running, announced>>
  BY DEF Dispatch, toolVars
<1>2. m.type = "SendToLlmProvider" /\ m.gen = n + 1 /\ m.type \notin Reports
  BY DEF Send, Reports
<1>3. /\ stream \in Seq(StreamRecords) /\ n \in Nat /\ n + 1 \notin 1..n /\ DOMAIN stream = 1..n
  BY Known DEF HistInv, StreamsOK
<1>4. Fresh \in StreamRecords /\ Fresh.st = "queued"
  BY CallsAssumption DEF Fresh, StreamRecords
<1>5. /\ DOMAIN stream' = 1..(n + 1) /\ stream'[n + 1].st = "queued"
      /\ \A g \in 1..n : stream'[g] = stream[g]
  BY <1>1, <1>3, <1>4
<1> HIDE DEF n, m
<1>6. Follows(inbox', inbox, Reports)
  BY <1>1, <1>2, FollowsAppend
<1>7. /\ \A k \in DOMAIN llmBox' : k \in DOMAIN llmBox \/ k = Len(llmBox) + 1
      /\ \A k \in DOMAIN llmBox : llmBox'[k] = llmBox[k]
      /\ llmBox'[Len(llmBox) + 1] = m
  <2>1. /\ DOMAIN llmBox = 1..Len(llmBox) /\ Len(llmBox) \in Nat
        /\ DOMAIN llmBox' = 1..(Len(llmBox) + 1)
        /\ \A k \in DOMAIN llmBox : llmBox'[k] = llmBox[k]
        /\ llmBox'[Len(llmBox) + 1] = m
    BY <1>1, Queues, QueueGrows
  <2> QED
    BY <2>1
<1>8. \A k \in DOMAIN llmBox : llmBox[k].type = "SendToLlmProvider" => llmBox[k].gen \in 1..n
  BY Queues DEF Posted, n
<1>9. SentOnce'
  <2>1. ASSUME NEW k \in DOMAIN llmBox', llmBox'[k].type = "SendToLlmProvider"
        PROVE  stream'[llmBox'[k].gen].st = "queued"
    BY <1>2, <1>5, <1>7, <1>8, <2>1 DEF ResultInv, SentOnce
  <2>2. ASSUME NEW j \in DOMAIN llmBox', NEW k \in DOMAIN llmBox',
               llmBox'[j].type = "SendToLlmProvider", llmBox'[k].type = "SendToLlmProvider",
               llmBox'[j].gen = llmBox'[k].gen
        PROVE  j = k
    <3>1. CASE j \in DOMAIN llmBox /\ k \in DOMAIN llmBox
      BY <1>7, <2>2, <3>1 DEF ResultInv, SentOnce
    <3>2. CASE j \in DOMAIN llmBox /\ k = Len(llmBox) + 1
      BY <1>2, <1>3, <1>7, <1>8, <2>2, <3>2
    <3>3. CASE k \in DOMAIN llmBox /\ j = Len(llmBox) + 1
      BY <1>2, <1>3, <1>7, <1>8, <2>2, <3>3
    <3> QED
      BY <1>7, <3>1, <3>2, <3>3
  <2> QED
    BY <2>1, <2>2 DEF SentOnce
<1>10. ExecutedOnce'
  BY <1>1, <1>3, <1>5, FollowsSame, ExecutedKept DEF ResultInv
<1>11. ASSUME NEW g \in DOMAIN stream', Waiting(g)'
       PROVE  (g \in DOMAIN stream /\ Waiting(g)) \/ \A k \in 1..MaxCalls : NotBegun(<<g, k>>)
  <2>1. CASE g = n + 1
    BY <2>1, NewNotBegun DEF n
  <2>2. CASE g \in 1..n
    BY <1>1, <1>3, <1>5, <1>11, <2>2 DEF Waiting
  <2> QED
    BY <1>3, <1>5, <2>1, <2>2
<1>12. Results'
  BY <1>1, <1>6, <1>11, ResultsKept DEF ResultInv
<1> QED
  BY <1>9, <1>10, <1>12 DEF ResultInv

\* A report that is handled: the other calls are where they were, the call it names is begun.
LEMMA ReportStep ==
  ASSUME HistInv, HistInv', ResultInv, NEW type \in Reports, Handle(type), inbox' = Tail(inbox),
         UNCHANGED <<llmVars, stream, toolVars>>,
         ResultsOf(session, session', CallOf(Head(inbox))), ResultsOnce(session'.history)
  PROVE  ResultInv'
<1>1. PICK m : m = Head(inbox)
  OBVIOUS
<1>2. PICK c : c = CallOf(m)
  OBVIOUS
<1>3. m.type = type /\ (Starts(m, c) \/ Completes(m, c)) /\ inbox # <<>>
  BY <1>1, <1>2 DEF Handle, Starts, Completes, Reports
<1>4. /\ UNCHANGED <<llmBox, toolBox, running, announced, stream>>
  BY DEF llmVars, toolVars
<1>5. /\ \A k \in DOMAIN inbox' : inbox'[k] = inbox[k + 1] /\ k + 1 \in DOMAIN inbox /\ k \in Nat
      /\ inbox[1] = m /\ 1 \in DOMAIN inbox
  BY <1>1, <1>3, Queues, QueueShrinks
<1>6. \A d : NotBegun(d) => d # c
  BY <1>3, <1>5 DEF NotBegun
<1>7. \A d \in running \ announced : d # c
  BY <1>2, <1>3, <1>5 DEF ResultInv, Results, RunningOpen, RunningSilent, StartsFirst, Starts
<1>8. ASSUME NEW k \in DOMAIN inbox', inbox'[k].type = "ToolExecutionStarted"
      PROVE  CallOf(inbox'[k]) # c
  <2> SUFFICES ASSUME CallOf(inbox'[k]) = c PROVE FALSE
    OBVIOUS
  <2>1. /\ inbox[k + 1].type = "ToolExecutionStarted" /\ CallOf(inbox[k + 1]) = c
        /\ k + 1 \in DOMAIN inbox /\ k \in Nat
    BY <1>5, <1>8
  <2>2. CASE Starts(m, c)
    <3>1. 1 = k + 1
      BY <1>5, <2>1, <2>2 DEF ResultInv, Results, StartsFirst
    <3> QED
      BY <2>1, <3>1
  <2>3. CASE Completes(m, c)
    <3>1. k + 1 < 1
      BY <1>5, <2>1, <2>3 DEF ResultInv, Results, StartsFirst
    <3> QED
      BY <2>1, <3>1
  <2> QED
    BY <1>3, <2>2, <2>3
<1>9. \A d : d # c /\ NoResult(session.history, d) => NoResult(session'.history, d)
  BY <1>1, <1>2 DEF ResultsOf
<1>10. \A d : NotBegun(d) => NotBegun(d)'
  <2> SUFFICES ASSUME NEW d, NotBegun(d) PROVE NotBegun(d)'
    OBVIOUS
  <2>1. NoResult(session'.history, d)
    BY <1>6, <1>9 DEF NotBegun
  <2>2. \A k \in DOMAIN inbox' : ~Starts(inbox'[k], d) /\ ~Completes(inbox'[k], d)
    BY <1>5 DEF NotBegun
  <2> QED
    BY <1>4, <2>1, <2>2 DEF NotBegun
<1>11. Unstarted'
  BY <1>4, <1>10 DEF ResultInv, Results, Unstarted, Waiting
<1>12. RunningOpen'
  BY <1>4, <1>5 DEF ResultInv, Results, RunningOpen
<1>13. RunningSilent'
  <2> SUFFICES ASSUME NEW d \in running \ announced
               PROVE  /\ NoResult(session'.history, d)
                      /\ \A k \in DOMAIN inbox' : ~Starts(inbox'[k], d)
    BY <1>4 DEF RunningSilent
  <2>1. NoResult(session.history, d) /\ \A k \in DOMAIN inbox : ~Starts(inbox[k], d)
    BY DEF ResultInv, Results, RunningSilent
  <2> QED
    BY <1>5, <1>7, <1>9, <2>1
<1>14. StartsFirst'
  <2> SUFFICES ASSUME NEW k \in DOMAIN inbox', inbox'[k].type = "ToolExecutionStarted"
               PROVE  /\ CallOf(inbox'[k]) \in announced
                      /\ NoResult(session'.history, CallOf(inbox'[k]))
                      /\ \A j \in DOMAIN inbox' : Starts(inbox'[j], CallOf(inbox'[k])) => j = k
                      /\ \A j \in DOMAIN inbox' : Completes(inbox'[j], CallOf(inbox'[k])) => k < j
    BY <1>4 DEF StartsFirst, Starts, Completes, CallOf
  <2>1. PICK d : d = CallOf(inbox'[k])
    OBVIOUS
  <2>2. /\ inbox[k + 1].type = "ToolExecutionStarted" /\ CallOf(inbox[k + 1]) = d
        /\ k + 1 \in DOMAIN inbox /\ k \in Nat
    BY <1>5, <2>1
  <2>3. /\ d \in announced /\ NoResult(session.history, d)
        /\ \A j \in DOMAIN inbox : Starts(inbox[j], d) => j = k + 1
        /\ \A j \in DOMAIN inbox : Completes(inbox[j], d) => k + 1 < j
    BY <2>2 DEF ResultInv, Results, StartsFirst
  <2>4. NoResult(session'.history, d)
    BY <1>8, <1>9, <2>1, <2>3
  <2>5. ASSUME NEW j \in DOMAIN inbox', Starts(inbox'[j], d) PROVE j = k
    <3>1. j + 1 = k + 1 /\ j \in Nat
      BY <1>5, <2>3, <2>5
    <3> QED
      BY <2>2, <3>1
  <2>6. ASSUME NEW j \in DOMAIN inbox', Completes(inbox'[j], d) PROVE k < j
    <3>1. k + 1 < j + 1 /\ j \in Nat
      BY <1>5, <2>3, <2>6
    <3> QED
      BY <2>2, <3>1
  <2> QED
    BY <2>1, <2>3, <2>4, <2>5, <2>6
<1>15. SentOnce' /\ ExecutedOnce'
  BY <1>4 DEF ResultInv, SentOnce, ExecutedOnce
<1> QED
  BY <1>11, <1>12, <1>13, <1>14, <1>15 DEF ResultInv, Results

\* The handlers that edit the session.
LEMMA HandledResults ==
  ASSUME HistInv, HistInv', ResultInv, inbox # <<>>, inbox' = Tail(inbox),
         UNCHANGED <<llmBox, stream, toolVars>>, ResultsStay(session.history, session'.history)
  PROVE  ResultInv'
<1>1. Follows(inbox', inbox, Reports)
  BY Queues, FollowsTail
<1>2. Follows(llmBox', llmBox, {"SendToLlmProvider"})
  BY FollowsSame
<1> QED
  BY <1>1, <1>2, QuietStep DEF toolVars

LEMMA ContinuedResults ==
  ASSUME HistInv, HistInv', ResultInv, inbox # <<>>, NEW s, ContinueToolLoop(s, Tail(inbox)),
         UNCHANGED toolVars, ResultsStay(session.history, session'.history)
  PROVE  ResultInv'
<1>1. PICK rest : rest = Tail(inbox)
  OBVIOUS
<1>2. IsQueue(rest) /\ Follows(rest, inbox, Reports)
  BY <1>1, Queues, QueueShrinks, FollowsTail
<1>3. Dispatch(rest, "ToolContinuation")
  BY <1>1 DEF ContinueToolLoop
<1> QED
  BY <1>2, <1>3, DispatchStep

LEMMA HandlersResults ==
  ASSUME HistInv, HistInv', ResultInv, Handlers
  PROVE  ResultInv'
<1>1. CASE HandleToolExecutionStarted
  <2>1. /\ Handle("ToolExecutionStarted") /\ inbox' = Tail(inbox)
        /\ UNCHANGED <<llmVars, stream, toolVars>>
    BY <1>1 DEF HandleToolExecutionStarted, HandleWith
  <2>2. ResultsOf(session, session', CallOf(Head(inbox)))
    BY <1>1, ExecutionStartedEdits
  <2>3. NoResult(session.history, CallOf(Head(inbox))) /\ ResultsOnce(session.history)
    <3>1. inbox # <<>> /\ Head(inbox).type = "ToolExecutionStarted"
      BY <2>1 DEF Handle
    <3>2. Head(inbox) = inbox[1] /\ 1 \in DOMAIN inbox
      BY <3>1, Queues, QueueShrinks
    <3> QED
      BY <3>1, <3>2 DEF ResultInv, Results, StartsFirst
  <2>4. ResultsOnce(session'.history)
    BY <2>2, <2>3 DEF ResultsOf
  <2> QED
    BY <2>1, <2>2, <2>4, ReportStep DEF Reports
<1>2. CASE HandleToolExecutionCompleted
  <2>1. /\ Handle("ToolExecutionCompleted") /\ inbox' = Tail(inbox)
        /\ UNCHANGED <<llmVars, stream, toolVars>>
    BY <1>2 DEF HandleToolExecutionCompleted, HandleWith
  <2>2. /\ ResultsOf(session, session', CallOf(Head(inbox))) /\ ResultsOnce(session'.history)
    BY <1>2, ExecutionCompletedEdits DEF ResultInv, Results
  <2> QED
    BY <2>1, <2>2, ReportStep DEF Reports
<1>3. CASE HandleStreamToken
  BY <1>3, TokenEdits, HandledResults DEF HandleStreamToken, HandleWith, Handle, Edits, llmVars
<1>4. CASE HandleToolUseStarted
  BY <1>4, CallBeginEdits, HandledResults
     DEF HandleToolUseStarted, HandleWith, Handle, Edits, llmVars
<1>5. CASE HandleToolCallStreaming
  BY <1>5, CallDeltaEdits, HandledResults
     DEF HandleToolCallStreaming, HandleWith, Handle, Edits, llmVars
<1>6. CASE HandleToolCallReceived
  BY <1>6, CallReceivedEdits, HandledResults
     DEF HandleToolCallReceived, HandleWith, Handle, Edits, llmVars
<1>7. CASE HandleSendToLlmProvider
  <2>1. inbox # <<>> /\ inbox' = Tail(inbox) /\ session' = session
        /\ UNCHANGED <<llmBox, stream, toolVars>>
    BY <1>7 DEF HandleSendToLlmProvider, Handle, llmVars
  <2>2. ResultsStay(session.history, session'.history)
    BY <2>1 DEF ResultsStay
  <2> QED
    BY <2>1, <2>2, HandledResults
<1>8. CASE HandleStreamCompleted
  <2>1. ResultsStay(session.history, session'.history)
    BY <1>8, CompletedEdits DEF Edits
  <2>2. PICK t : t = Concluded(Head(inbox))
    OBVIOUS
  <2>3. /\ inbox # <<>> /\ UNCHANGED toolVars
        /\ \/ ContinueToolLoop(t, Tail(inbox))
           \/ inbox' = Tail(inbox) /\ UNCHANGED <<llmBox, stream>>
    BY <1>8, <2>2 DEF HandleStreamCompleted, Handle
  <2> QED
    BY <2>1, <2>3, HandledResults, ContinuedResults
<1>9. CASE HandleToolBatchCompleted
  <2>1. ResultsStay(session.history, session'.history)
    BY <1>9, BatchCompletedEdits DEF Edits
  <2>2. /\ inbox # <<>> /\ UNCHANGED toolVars
        /\ \/ ContinueToolLoop(session, Tail(inbox))
           \/ inbox' = Tail(inbox) /\ UNCHANGED <<llmBox, stream>>
    BY <1>9 DEF HandleToolBatchCompleted, Handle
  <2> QED
    BY <2>1, <2>2, HandledResults, ContinuedResults
<1> QED
  BY <1>1, <1>2, <1>3, <1>4, <1>5, <1>6, <1>7, <1>8, <1>9 DEF Handlers

-----------------------------------------------------------------------------
(* One result per call: the steps of the user and of the LLM actor. *)

LEMMA StaysSame ==
  ASSUME session' = session
  PROVE  ResultsStay(session.history, session'.history)
BY DEF ResultsStay

LEMMA UserResults ==
  ASSUME HistInv, HistInv', ResultInv,
         \/ HandleEnqueueUserMessage \/ DispatchQueued \/ IgnoreIdle \/ HandlePushChatEntry
         \/ HandleRetryStalledSession \/ EscConfirm
  PROVE  ResultInv'
<1>1. Follows(inbox, inbox, Reports) /\ Follows(llmBox, llmBox, {"SendToLlmProvider"})
      /\ IsQueue(inbox)
  BY FollowsSame, Queues
<1>2. CASE HandleEnqueueUserMessage
  <2>1. /\ UNCHANGED toolVars
        /\ \/ Dispatch(inbox, "User")
           \/ UNCHANGED <<inbox, llmBox, stream>>
    BY <1>2 DEF HandleEnqueueUserMessage
  <2>2. ResultsStay(session.history, session'.history)
    BY <1>2, EnqueueEdits DEF Edits
  <2> QED
    BY <1>1, <2>1, <2>2, DispatchStep, QuietStep DEF toolVars
<1>3. CASE DispatchQueued
  <2>1. UNCHANGED toolVars /\ Dispatch(inbox, "User")
    BY <1>3 DEF DispatchQueued
  <2>2. ResultsStay(session.history, session'.history)
    BY <1>3, DispatchQueuedKeeps
  <2> QED
    BY <1>1, <2>1, <2>2, DispatchStep
<1>4. CASE IgnoreIdle
  <2>1. UNCHANGED <<session, inbox, llmBox, stream, toolBox, running, announced>>
    BY <1>4 DEF IgnoreIdle, llmVars, toolVars
  <2> QED
    BY <1>1, <2>1, StaysSame, QuietStep
<1>5. CASE HandlePushChatEntry
  <2>1. UNCHANGED <<inbox, llmBox, stream, toolBox, running, announced>>
    BY <1>5 DEF HandlePushChatEntry, llmVars, toolVars
  <2>2. ResultsStay(session.history, session'.history)
    BY <1>5, NoticeEdits DEF Edits
  <2> QED
    BY <1>1, <2>1, <2>2, QuietStep
<1>6. CASE HandleRetryStalledSession
  <2>1. UNCHANGED toolVars /\ Dispatch(inbox, "User")
    BY <1>6 DEF HandleRetryStalledSession
  <2>2. ResultsStay(session.history, session'.history)
    BY <1>6, RetryEdits DEF Edits
  <2> QED
    BY <1>1, <2>1, <2>2, DispatchStep
<1>7. CASE EscConfirm
  <2>1. UNCHANGED <<inbox, llmBox, stream, toolBox, running, announced>>
    BY <1>7 DEF EscConfirm, toolVars
  <2>2. ResultsStay(session.history, session'.history)
    BY <1>7, EscEdits DEF Edits
  <2> QED
    BY <1>1, <2>1, <2>2, QuietStep
<1> QED
  BY <1>2, <1>3, <1>4, <1>5, <1>6, <1>7

\* A step of the LLM actor: no call begins, ends or is reported.
LEMMA LlmStep ==
  ASSUME HistInv, HistInv', ResultInv, SentOnce', ExecutedOnce',
         UNCHANGED <<session, running, announced>>, Follows(inbox', inbox, Reports),
         DOMAIN stream' = DOMAIN stream,
         \A g \in DOMAIN stream : Waiting(g)' => Waiting(g)
  PROVE  ResultInv'
<1>1. ResultsStay(session.history, session'.history)
  BY StaysSame
<1>2. Results'
  BY <1>1, ResultsKept DEF ResultInv
<1> QED
  BY <1>2 DEF ResultInv

LEMMA StartStreamResults ==
  ASSUME HistInv, HistInv', ResultInv, StartStream
  PROVE  ResultInv'
<1> DEFINE m == Head(llmBox)
           g == m.gen
<1>1. PICK to \in {"ended", "open"} :
        /\ llmBox # <<>> /\ m.type = "SendToLlmProvider" /\ llmBox' = Tail(llmBox)
        /\ stream' = [stream EXCEPT ![g].st = to]
        /\ UNCHANGED <<session, inbox, toolBox, running, announced>>
  BY DEF StartStream, HandleLlm, sessionVars, toolVars
<1>2. /\ \A k \in DOMAIN llmBox' : llmBox'[k] = llmBox[k + 1] /\ k + 1 \in DOMAIN llmBox
                                /\ k \in Nat \ {0}
      /\ llmBox[1] = m /\ 1 \in DOMAIN llmBox
  BY <1>1, Queues, QueueShrinks
<1>3. stream[g].st = "queued" /\ g \in DOMAIN stream
  <2>1. g \in 1..Len(stream)
    BY <1>1, <1>2, Queues DEF Posted
  <2> QED
    BY <1>1, <1>2, <2>1, StreamsParts DEF ResultInv, SentOnce, HistInv
<1> HIDE DEF m
<1>4. DOMAIN stream' = DOMAIN stream /\ \A x \in DOMAIN stream : x # g => stream'[x] = stream[x]
  BY <1>1
<1>5. SentOnce'
  <2>1. ASSUME NEW k \in DOMAIN llmBox', llmBox'[k].type = "SendToLlmProvider"
        PROVE  stream'[llmBox'[k].gen].st = "queued"
    <3>1. llmBox'[k] = llmBox[k + 1] /\ k + 1 \in DOMAIN llmBox /\ k + 1 # 1
      BY <1>2
    <3>2. llmBox'[k].gen # g
      BY <1>1, <1>2, <2>1, <3>1 DEF ResultInv, SentOnce
    <3>3. llmBox'[k].gen \in 1..Len(stream)
      BY <2>1, <3>1, Queues DEF Posted
    <3>4. llmBox'[k].gen \in DOMAIN stream
      BY <3>3, StreamsParts DEF HistInv
    <3> QED
      BY <1>4, <2>1, <3>1, <3>2, <3>4 DEF ResultInv, SentOnce
  <2>2. ASSUME NEW j \in DOMAIN llmBox', NEW k \in DOMAIN llmBox',
               llmBox'[j].type = "SendToLlmProvider", llmBox'[k].type = "SendToLlmProvider",
               llmBox'[j].gen = llmBox'[k].gen
        PROVE  j = k
    <3>1. j + 1 = k + 1 /\ j \in Nat /\ k \in Nat
      BY <1>2, <2>2 DEF ResultInv, SentOnce
    <3> QED
      BY <3>1
  <2> QED
    BY <2>1, <2>2 DEF SentOnce
<1>6. \A x \in DOMAIN stream : stream[x].st = "ended" => stream'[x].st = "ended"
  BY <1>3, <1>4
<1>7. ExecutedOnce'
  BY <1>1, <1>6, FollowsSame, ExecutedKept DEF ResultInv
<1>8. \A x \in DOMAIN stream : Waiting(x)' => Waiting(x)
  BY <1>1, <1>3, <1>4 DEF Waiting
<1> QED
  BY <1>1, <1>4, <1>5, <1>7, <1>8, FollowsSame, LlmStep

LEMMA PublishCancelResults ==
  ASSUME HistInv, HistInv', ResultInv, PublishCancel
  PROVE  ResultInv'
<1> DEFINE m == [type |-> "CancelStream"]
<1>1. /\ llmBox' = Append(llmBox, m)
      /\ UNCHANGED <<session, inbox, stream, toolBox, running, announced>>
  BY DEF PublishCancel, sessionVars, toolVars
<1>2. m.type \notin {"SendToLlmProvider"}
  OBVIOUS
<1> HIDE DEF m
<1>3. Follows(llmBox', llmBox, {"SendToLlmProvider"})
  BY <1>1, <1>2, Queues, FollowsSame, FollowsAppend
<1> QED
  BY <1>1, <1>3, FollowsSame, StaysSame, QuietStep

\* A message that is no report is appended to the inbox.
LEMMA InboxAppended ==
  ASSUME HistInv, NEW m, m.type \notin Reports, inbox' = Append(inbox, m)
  PROVE  Follows(inbox', inbox, Reports)
BY Queues, FollowsSame, FollowsAppend

\* A message that is no batch is appended to the orchestrator's mailbox.
LEMMA ToolAppended ==
  ASSUME HistInv, NEW m, m.type # "ExecuteToolBatch", toolBox' = Append(toolBox, m),
         stream' = stream
  PROVE  /\ Follows(toolBox', toolBox, {"ExecuteToolBatch"})
         /\ \A g \in DOMAIN stream : Waiting(g)' => Waiting(g)
<1>1. Follows(toolBox', toolBox, {"ExecuteToolBatch"})
  BY Queues, FollowsSame, FollowsAppend
<1>2. PICK f : Carries(f, toolBox', toolBox, {"ExecuteToolBatch"})
  BY <1>1 DEF Follows
<1>3. \A g \in DOMAIN stream : Waiting(g)' => Waiting(g)
  BY <1>2 DEF Waiting, Carries
<1> QED
  BY <1>1, <1>3

LEMMA CancelStreamResults ==
  ASSUME HistInv, HistInv', ResultInv, CancelStream
  PROVE  ResultInv'
<1> DEFINE m == Completed(task, "Canceled")
           b == Note("CancelToolBatch", task)
<1>1. /\ llmBox # <<>> /\ llmBox' = Tail(llmBox)
      /\ UNCHANGED <<session, stream, running, announced>>
      /\ \/ UNCHANGED <<inbox, toolBox>>
         \/ inbox' = Append(inbox, m) /\ toolBox' = Append(toolBox, b)
  BY DEF CancelStream, HandleLlm, sessionVars
<1>2. m.type \notin Reports /\ b.type # "ExecuteToolBatch"
  BY DEF Completed, Note, Reports
<1> HIDE DEF m, b
<1>3. Follows(llmBox', llmBox, {"SendToLlmProvider"})
  BY <1>1, Queues, FollowsTail
<1>4. Follows(inbox', inbox, Reports)
  BY <1>1, <1>2, InboxAppended, FollowsSame
<1>5. /\ Follows(toolBox', toolBox, {"ExecuteToolBatch"})
      /\ \A g \in DOMAIN stream : Waiting(g)' => Waiting(g)
  <2>1. CASE UNCHANGED toolBox
    BY <1>1, <2>1, FollowsSame DEF Waiting
  <2>2. CASE toolBox' = Append(toolBox, b)
    BY <1>1, <1>2, <2>2, ToolAppended
  <2> QED
    BY <1>1, <2>1, <2>2
<1>6. SentOnce'
  BY <1>1, <1>3, SentKept DEF ResultInv
<1>7. ExecutedOnce'
  BY <1>1, <1>5, ExecutedKept DEF ResultInv
<1> QED
  BY <1>1, <1>4, <1>5, <1>6, <1>7, LlmStep

\* What the task publishes while its generation is open.
LEMMA EmitResults ==
  ASSUME HistInv, HistInv', ResultInv, NEW to, NEW m, m.type \notin Reports, Emit(to, m),
         UNCHANGED <<running, announced>>,
         \/ toolBox' = toolBox
         \/ to.st = "ended" /\ toolBox' = Append(toolBox, Note("ExecuteToolBatch", task))
  PROVE  ResultInv'
<1>1. /\ task # 0 /\ stream[task].st = "open" /\ stream' = [stream EXCEPT ![task] = to]
      /\ inbox' = Append(inbox, m) /\ UNCHANGED <<session, llmBox>>
  BY DEF Emit, sessionVars
<1>2. task \in DOMAIN stream
  BY <1>1, TaskKnown
<1>3. /\ DOMAIN stream' = DOMAIN stream /\ stream'[task] = to
      /\ \A x \in DOMAIN stream : x # task => stream'[x] = stream[x]
  BY <1>1, <1>2
<1>4. Follows(inbox', inbox, Reports)
  BY <1>1, InboxAppended
<1>5. SentOnce'
  <2>1. ASSUME NEW k \in DOMAIN llmBox, llmBox[k].type = "SendToLlmProvider"
        PROVE  stream'[llmBox[k].gen].st = stream[llmBox[k].gen].st
    <3>1. stream[llmBox[k].gen].st = "queued"
      BY <2>1 DEF ResultInv, SentOnce
    <3>2. llmBox[k].gen \in 1..Len(stream)
      BY <2>1, Queues DEF Posted
    <3>3. llmBox[k].gen \in DOMAIN stream
      BY <3>2, StreamsParts DEF HistInv
    <3> QED
      BY <1>1, <1>3, <3>1, <3>3
  <2> QED
    BY <1>1, <2>1, FollowsSame, SentKept DEF ResultInv
<1>6. \A x \in DOMAIN stream : stream[x].st = "ended" => stream'[x].st = "ended"
  BY <1>1, <1>3
<1>7. CASE toolBox' = toolBox
  <2>1. ExecutedOnce'
    BY <1>6, <1>7, FollowsSame, ExecutedKept DEF ResultInv
  <2>2. \A x \in DOMAIN stream : Waiting(x)' => Waiting(x)
    BY <1>1, <1>3, <1>7 DEF Waiting
  <2> QED
    BY <1>1, <1>3, <1>4, <1>5, <2>1, <2>2, LlmStep
<1>8. CASE to.st = "ended" /\ toolBox' = Append(toolBox, Note("ExecuteToolBatch", task))
  <2> DEFINE b == Note("ExecuteToolBatch", task)
             last == Len(toolBox) + 1
  <2>1. b.type = "ExecuteToolBatch" /\ b.gen = task
    BY DEF Note
  <2> HIDE DEF b
  <2>2. /\ DOMAIN toolBox = 1..Len(toolBox) /\ Len(toolBox) \in Nat
        /\ DOMAIN toolBox' = 1..(Len(toolBox) + 1)
        /\ \A k \in DOMAIN toolBox : toolBox'[k] = toolBox[k]
        /\ toolBox'[last] = b
    BY <1>8, Queues, QueueGrows DEF b
  <2>3. \A k \in DOMAIN toolBox' : k \in DOMAIN toolBox \/ k = last
    BY <2>2
  <2> HIDE DEF last
  <2>4. \A k \in DOMAIN toolBox : toolBox[k].type = "ExecuteToolBatch" =>
          /\ stream[toolBox[k].gen].st = "ended" /\ toolBox[k].gen # task
          /\ toolBox[k].gen \in DOMAIN stream
    <3> SUFFICES ASSUME NEW k \in DOMAIN toolBox, toolBox[k].type = "ExecuteToolBatch"
                 PROVE  /\ stream[toolBox[k].gen].st = "ended" /\ toolBox[k].gen # task
                        /\ toolBox[k].gen \in DOMAIN stream
      OBVIOUS
    <3>1. toolBox[k].gen \in 1..Len(stream)
      BY Queues DEF Posted
    <3> QED
      BY <1>1, <3>1, StreamsParts DEF ResultInv, ExecutedOnce, HistInv
  <2>5. ExecutedOnce'
    <3>1. ASSUME NEW k \in DOMAIN toolBox', toolBox'[k].type = "ExecuteToolBatch"
          PROVE  stream'[toolBox'[k].gen].st = "ended"
      BY <1>3, <1>6, <1>8, <2>1, <2>2, <2>3, <2>4, <3>1
    <3>2. ASSUME NEW j \in DOMAIN toolBox', NEW k \in DOMAIN toolBox',
                 toolBox'[j].type = "ExecuteToolBatch", toolBox'[k].type = "ExecuteToolBatch",
                 toolBox'[j].gen = toolBox'[k].gen
          PROVE  j = k
      <4>1. CASE j \in DOMAIN toolBox /\ k \in DOMAIN toolBox
        BY <2>2, <3>2, <4>1 DEF ResultInv, ExecutedOnce
      <4> QED
        BY <2>1, <2>2, <2>3, <2>4, <3>2, <4>1
    <3> QED
      BY <3>1, <3>2 DEF ExecutedOnce
  <2>6. \A x \in DOMAIN stream : Waiting(x)' => Waiting(x)
    <3> SUFFICES ASSUME NEW x \in DOMAIN stream, x # task, Waiting(x)' PROVE Waiting(x)
      BY <1>1 DEF Waiting
    <3> QED
      BY <1>3, <2>1, <2>2, <2>3 DEF Waiting
  <2> QED
    BY <1>1, <1>3, <1>4, <1>5, <2>5, <2>6, LlmStep
<1> QED
  BY <1>7, <1>8

LEMMA LlmResults ==
  ASSUME HistInv, HistInv', ResultInv, Llm
  PROVE  ResultInv'
<1>1. ASSUME NEW thinking \in BOOLEAN, EmitToken(thinking) PROVE ResultInv'
  <2> DEFINE m == [type |-> "StreamToken", gen |-> task, thinking |-> thinking]
  <2>1. Emit(stream[task], m) /\ UNCHANGED <<toolBox, running, announced>>
    BY <1>1 DEF EmitToken, Calls, toolVars
  <2>2. m.type \notin Reports
    BY DEF Reports
  <2> HIDE DEF m
  <2> QED
    BY <2>1, <2>2, EmitResults
<1>2. CASE EmitToolUseStarted
  <2> DEFINE m == CallNote("ToolUseStarted", task, stream[task].started + 1)
             to == [stream[task] EXCEPT !.started = @ + 1]
  <2>1. Emit(to, m) /\ UNCHANGED <<toolBox, running, announced>>
    BY <1>2 DEF EmitToolUseStarted, Calls, toolVars
  <2>2. m.type \notin Reports
    BY DEF Reports, CallNote
  <2> HIDE DEF m, to
  <2> QED
    BY <2>1, <2>2, EmitResults
<1>3. CASE EmitToolCallStreaming
  <2> DEFINE m == CallNote("ToolCallStreaming", task, stream[task].deltas + 1)
             to == [stream[task] EXCEPT !.deltas = @ + 1]
  <2>1. Emit(to, m) /\ UNCHANGED <<toolBox, running, announced>>
    BY <1>3 DEF EmitToolCallStreaming, Calls, toolVars
  <2>2. m.type \notin Reports
    BY DEF Reports, CallNote
  <2> HIDE DEF m, to
  <2> QED
    BY <2>1, <2>2, EmitResults
<1>4. CASE EmitToolCallReceived
  <2> DEFINE m == CallNote("ToolCallReceived", task, stream[task].received + 1)
             to == [stream[task] EXCEPT !.received = @ + 1]
  <2>1. Emit(to, m) /\ UNCHANGED <<toolBox, running, announced>>
    BY <1>4 DEF EmitToolCallReceived, Calls, toolVars
  <2>2. m.type \notin Reports
    BY DEF Reports, CallNote
  <2> HIDE DEF m, to
  <2> QED
    BY <2>1, <2>2, EmitResults
<1>5. CASE EmitFinished
  <2> DEFINE m == Completed(task, "Finished")
             to == [stream[task] EXCEPT !.st = "ended"]
  <2>1. Emit(to, m) /\ UNCHANGED <<toolBox, running, announced>>
    BY <1>5 DEF EmitFinished, Calls, toolVars
  <2>2. m.type \notin Reports
    BY DEF Reports, Completed
  <2> HIDE DEF m, to
  <2> QED
    BY <2>1, <2>2, EmitResults
<1>6. CASE EmitToolUse
  <2> DEFINE m == Completed(task, "ToolUse")
             to == [stream[task] EXCEPT !.st = "ended"]
  <2>1. /\ Emit(to, m) /\ UNCHANGED <<running, announced>> /\ task # 0
        /\ toolBox' = Append(toolBox, Note("ExecuteToolBatch", task))
    BY <1>6 DEF EmitToolUse, Calls
  <2>2. m.type \notin Reports
    BY DEF Reports, Completed
  <2>3. to.st = "ended"
    BY <2>1, TaskKnown DEF StreamRecords
  <2> HIDE DEF m, to
  <2> QED
    BY <2>1, <2>2, <2>3, EmitResults
<1> QED
  BY <1>1, <1>2, <1>3, <1>4, <1>5, <1>6, StartStreamResults, PublishCancelResults,
     CancelStreamResults DEF Llm

-----------------------------------------------------------------------------
(* One result per call: the steps of the tool orchestrator. *)

\* The orchestrator handles a message that begins no call.
LEMMA ToolHandledResults ==
  ASSUME HistInv, HistInv', ResultInv, NEW type, HandleTool(type), running' \subseteq running,
         Follows(inbox', inbox, Reports)
  PROVE  ResultInv'
<1>1. /\ toolBox # <<>> /\ toolBox' = Tail(toolBox)
      /\ UNCHANGED <<session, llmBox, stream, announced>>
  BY DEF HandleTool, sessionVars, llmVars
<1>2. /\ \A k \in DOMAIN toolBox' : toolBox'[k] = toolBox[k + 1] /\ k + 1 \in DOMAIN toolBox
  BY <1>1, Queues, QueueShrinks
<1>3. ExecutedOnce'
  BY <1>1, Queues, FollowsTail, ExecutedKept DEF ResultInv
<1>4. SentOnce'
  BY <1>1, FollowsSame, SentKept DEF ResultInv
<1>5. \A g \in DOMAIN stream' : Waiting(g)' => g \in DOMAIN stream /\ Waiting(g)
  BY <1>1, <1>2 DEF Waiting
<1>6. Results'
  BY <1>1, <1>5, StaysSame, ResultsKept DEF ResultInv
<1> QED
  BY <1>3, <1>4, <1>6 DEF ResultInv

LEMMA CountResults ==
  ASSUME HistInv, HistInv', ResultInv, CancelToolBatch \/ CountToolResult
  PROVE  ResultInv'
<1>1. CASE CancelToolBatch
  BY <1>1, FollowsSame, ToolHandledResults DEF CancelToolBatch
<1>2. CASE CountToolResult
  <2> DEFINE m == Note("ToolBatchCompleted", open.gen)
  <2>1. /\ HandleTool("ToolExecutionCompleted") /\ running' = running
        /\ inbox' = inbox \/ inbox' = Append(inbox, m)
    BY <1>2 DEF CountToolResult
  <2>2. m.type \notin Reports
    BY DEF Note, Reports
  <2> HIDE DEF m
  <2>3. Follows(inbox', inbox, Reports)
    BY <2>1, <2>2, FollowsSame, InboxAppended
  <2> QED
    BY <2>1, <2>3, ToolHandledResults
<1> QED
  BY <1>1, <1>2

\* A batch that is executed: its calls begin, for the first and only time.
LEMMA ExecuteResults ==
  ASSUME HistInv, HistInv', ResultInv, ExecuteToolBatch
  PROVE  ResultInv'
<1>1. PICK g : g = Head(toolBox).gen
  OBVIOUS
<1>2. /\ toolBox # <<>> /\ toolBox' = Tail(toolBox) /\ Head(toolBox).type = "ExecuteToolBatch"
      /\ UNCHANGED <<session, llmBox, stream, announced, inbox>>
      /\ running' = running \cup CallsOf(g)
  BY <1>1 DEF ExecuteToolBatch, HandleTool, sessionVars, llmVars
<1>3. /\ \A k \in DOMAIN toolBox' : toolBox'[k] = toolBox[k + 1] /\ k + 1 \in DOMAIN toolBox
                                    /\ k \in Nat \ {0}
      /\ toolBox[1].type = "ExecuteToolBatch" /\ toolBox[1].gen = g /\ 1 \in DOMAIN toolBox
  BY <1>1, <1>2, Queues, QueueShrinks
<1>4. ExecutedOnce'
  BY <1>2, Queues, FollowsTail, ExecutedKept DEF ResultInv
<1>5. SentOnce'
  BY <1>2, FollowsSame, SentKept DEF ResultInv
<1>6. g \in 1..Len(stream) /\ g \in DOMAIN stream
  <2>1. g \in 1..Len(stream)
    BY <1>3, Queues DEF Posted
  <2> QED
    BY <2>1, StreamsParts DEF HistInv
<1>7. Waiting(g) /\ ~Waiting(g)'
  <2>1. Waiting(g)
    BY <1>3 DEF Waiting
  <2>2. stream'[g].st = "ended"
    BY <1>2, <1>3 DEF ResultInv, ExecutedOnce
  <2>3. ASSUME NEW k \in DOMAIN toolBox', toolBox'[k].type = "ExecuteToolBatch",
               toolBox'[k].gen = g
        PROVE  FALSE
    <3>1. k + 1 = 1 /\ k \in Nat \ {0}
      BY <1>3, <2>3 DEF ResultInv, ExecutedOnce
    <3> QED
      BY <3>1
  <2> QED
    BY <2>1, <2>2, <2>3 DEF Waiting
<1>8. ASSUME NEW c \in CallsOf(g)
      PROVE  NotBegun(c) /\ \A x, k : c = <<x, k>> => x = g
  <2>1. stream[g].started \in 0..MaxCalls
    BY <1>6, StreamsParts DEF HistInv, StreamRecords
  <2>2. 1..stream[g].started \subseteq 1..MaxCalls
    BY <2>1, CallsAssumption
  <2>3. PICK k \in 1..MaxCalls : c = <<g, k>>
    BY <1>8, <2>2 DEF CallsOf
  <2> QED
    BY <1>6, <1>7, <2>3 DEF ResultInv, Results, Unstarted
<1>9. Unstarted'
  <2> SUFFICES ASSUME NEW x \in DOMAIN stream, Waiting(x)', NEW k \in 1..MaxCalls
               PROVE  NotBegun(<<x, k>>)'
    BY <1>2 DEF Unstarted
  <2>1. Waiting(x)
    BY <1>2, <1>3 DEF Waiting
  <2>2. NotBegun(<<x, k>>)
    BY <2>1 DEF ResultInv, Results, Unstarted
  <2>3. x # g
    BY <1>7
  <2>4. <<x, k>> \notin running'
    BY <1>2, <1>8, <2>2, <2>3 DEF NotBegun
  <2> QED
    BY <1>2, <2>2, <2>4 DEF NotBegun
<1>10. RunningOpen' /\ RunningSilent'
  BY <1>2, <1>8 DEF ResultInv, Results, RunningOpen, RunningSilent, NotBegun
<1>11. StartsFirst' /\ ResultsOnce(session'.history)
  BY <1>2 DEF ResultInv, Results, StartsFirst
<1> QED
  BY <1>4, <1>5, <1>9, <1>10, <1>11 DEF ResultInv, Results

\* The mailbox after a report of c: the others' reports are where they were.
LEMMA ReportAppended ==
  ASSUME HistInv, NEW m, inbox' = Append(inbox, m)
  PROVE  /\ \A k \in DOMAIN inbox' : k \in DOMAIN inbox \/ k = Len(inbox) + 1
         /\ \A k \in DOMAIN inbox : inbox'[k] = inbox[k] /\ k < Len(inbox) + 1
         /\ inbox'[Len(inbox) + 1] = m
<1>1. /\ DOMAIN inbox = 1..Len(inbox) /\ Len(inbox) \in Nat
      /\ DOMAIN inbox' = 1..(Len(inbox) + 1)
      /\ \A k \in DOMAIN inbox : inbox'[k] = inbox[k]
      /\ inbox'[Len(inbox) + 1] = m
  BY Queues, QueueGrows
<1> QED
  BY <1>1

LEMMA ToolStartsResults ==
  ASSUME HistInv, HistInv', ResultInv, NEW c \in running, ToolStarts(c)
  PROVE  ResultInv'
<1> DEFINE m == CallNote("ToolExecutionStarted", c[1], c[2])
           last == Len(inbox) + 1
<1>1. /\ c \notin announced /\ announced' = announced \cup {c} /\ inbox' = Append(inbox, m)
      /\ UNCHANGED <<session, llmBox, stream, toolBox, running>>
  BY DEF ToolStarts, sessionVars, llmVars
<1>2. m.type = "ToolExecutionStarted" /\ CallOf(m) = c
  BY RunningKnown DEF CallNote, CallOf
<1> HIDE DEF m
<1>3. /\ \A k \in DOMAIN inbox' : k \in DOMAIN inbox \/ k = last
      /\ \A k \in DOMAIN inbox : inbox'[k] = inbox[k] /\ k < last
      /\ inbox'[last] = m
  BY <1>1, ReportAppended
<1> HIDE DEF last
<1>4. /\ NoResult(session.history, c)
      /\ \A k \in DOMAIN inbox : ~Starts(inbox[k], c) /\ ~Completes(inbox[k], c)
  BY <1>1 DEF ResultInv, Results, RunningSilent, RunningOpen
<1>5. \A d : NotBegun(d) => NotBegun(d)'
  <2> SUFFICES ASSUME NEW d, NotBegun(d) PROVE NotBegun(d)'
    OBVIOUS
  <2>1. d # c
    BY DEF NotBegun
  <2>2. \A k \in DOMAIN inbox' : ~Starts(inbox'[k], d) /\ ~Completes(inbox'[k], d)
    BY <1>2, <1>3, <2>1 DEF NotBegun, Starts, Completes
  <2> QED
    BY <1>1, <2>1, <2>2 DEF NotBegun
<1>6. Unstarted'
  BY <1>1, <1>5 DEF ResultInv, Results, Unstarted, Waiting
<1>7. RunningOpen'
  BY <1>1, <1>2, <1>3 DEF ResultInv, Results, RunningOpen, Completes
<1>8. RunningSilent'
  <2> SUFFICES ASSUME NEW d \in running \ announced, d # c
               PROVE  /\ NoResult(session.history, d)
                      /\ \A k \in DOMAIN inbox' : ~Starts(inbox'[k], d)
    BY <1>1 DEF RunningSilent
  <2>1. NoResult(session.history, d) /\ \A k \in DOMAIN inbox : ~Starts(inbox[k], d)
    BY DEF ResultInv, Results, RunningSilent
  <2> QED
    BY <1>2, <1>3, <2>1 DEF Starts
<1>9. StartsFirst'
  <2> SUFFICES ASSUME NEW k \in DOMAIN inbox', inbox'[k].type = "ToolExecutionStarted"
               PROVE  /\ CallOf(inbox'[k]) \in announced'
                      /\ NoResult(session.history, CallOf(inbox'[k]))
                      /\ \A j \in DOMAIN inbox' : Starts(inbox'[j], CallOf(inbox'[k])) => j = k
                      /\ \A j \in DOMAIN inbox' : Completes(inbox'[j], CallOf(inbox'[k])) => k < j
    BY <1>1 DEF StartsFirst, Starts, Completes, CallOf
  <2>1. CASE k = last
    BY <1>1, <1>2, <1>3, <1>4, <2>1 DEF Starts, Completes
  <2>2. CASE k \in DOMAIN inbox
    <3>1. PICK d : d = CallOf(inbox'[k])
      OBVIOUS
    <3>2. /\ d \in announced /\ NoResult(session.history, d)
          /\ \A j \in DOMAIN inbox : Starts(inbox[j], d) => j = k
          /\ \A j \in DOMAIN inbox : Completes(inbox[j], d) => k < j
      BY <1>3, <2>2, <3>1 DEF ResultInv, Results, StartsFirst
    <3>3. d # c
      BY <1>1, <3>2
    <3> QED
      BY <1>1, <1>2, <1>3, <3>1, <3>2, <3>3 DEF Starts, Completes
  <2> QED
    BY <1>3, <2>1, <2>2
<1>10. SentOnce' /\ ExecutedOnce'
  BY <1>1 DEF ResultInv, SentOnce, ExecutedOnce
<1> QED
  BY <1>1, <1>6, <1>7, <1>8, <1>9, <1>10 DEF ResultInv, Results

LEMMA ToolFinishesResults ==
  ASSUME HistInv, HistInv', ResultInv, NEW c \in running, ToolFinishes(c)
  PROVE  ResultInv'
<1> DEFINE m == CallNote("ToolExecutionCompleted", c[1], c[2])
           last == Len(inbox) + 1
<1>1. /\ running' = running \ {c} /\ inbox' = Append(inbox, m) /\ toolBox' = Append(toolBox, m)
      /\ UNCHANGED <<session, llmBox, stream, announced>>
  BY DEF ToolFinishes, sessionVars, llmVars
<1>2. m.type = "ToolExecutionCompleted" /\ CallOf(m) = c /\ m.type # "ExecuteToolBatch"
  BY RunningKnown DEF CallNote, CallOf
<1> HIDE DEF m
<1>3. /\ \A k \in DOMAIN inbox' : k \in DOMAIN inbox \/ k = last
      /\ \A k \in DOMAIN inbox : inbox'[k] = inbox[k] /\ k < last
      /\ inbox'[last] = m
  BY <1>1, ReportAppended
<1> HIDE DEF last
<1>4. /\ Follows(toolBox', toolBox, {"ExecuteToolBatch"})
      /\ \A g \in DOMAIN stream : Waiting(g)' => Waiting(g)
  BY <1>1, <1>2, ToolAppended
<1>5. \A d : NotBegun(d) => NotBegun(d)'
  <2> SUFFICES ASSUME NEW d, NotBegun(d) PROVE NotBegun(d)'
    OBVIOUS
  <2>1. d # c
    BY DEF NotBegun
  <2>2. \A k \in DOMAIN inbox' : ~Starts(inbox'[k], d) /\ ~Completes(inbox'[k], d)
    BY <1>2, <1>3, <2>1 DEF NotBegun, Starts, Completes
  <2> QED
    BY <1>1, <2>1, <2>2 DEF NotBegun
<1>6. Unstarted'
  BY <1>1, <1>4, <1>5 DEF ResultInv, Results, Unstarted
<1>7. RunningOpen'
  BY <1>1, <1>2, <1>3 DEF ResultInv, Results, RunningOpen, Completes
<1>8. RunningSilent'
  BY <1>1, <1>2, <1>3 DEF ResultInv, Results, RunningSilent, Starts
<1>9. StartsFirst'
  <2> SUFFICES ASSUME NEW k \in DOMAIN inbox', inbox'[k].type = "ToolExecutionStarted"
               PROVE  /\ CallOf(inbox'[k]) \in announced
                      /\ NoResult(session.history, CallOf(inbox'[k]))
                      /\ \A j \in DOMAIN inbox' : Starts(inbox'[j], CallOf(inbox'[k])) => j = k
                      /\ \A j \in DOMAIN inbox' : Completes(inbox'[j], CallOf(inbox'[k])) => k < j
    BY <1>1 DEF StartsFirst, Starts, Completes, CallOf
  <2>1. k \in DOMAIN inbox /\ inbox[k] = inbox'[k] /\ k < last
    BY <1>2, <1>3
  <2>2. PICK d : d = CallOf(inbox'[k])
    OBVIOUS
  <2>3. /\ d \in announced /\ NoResult(session.history, d)
        /\ \A j \in DOMAIN inbox : Starts(inbox[j], d) => j = k
        /\ \A j \in DOMAIN inbox : Completes(inbox[j], d) => k < j
    BY <2>1, <2>2 DEF ResultInv, Results, StartsFirst
  <2> QED
    BY <1>2, <1>3, <2>1, <2>2, <2>3 DEF Starts, Completes
<1>10. SentOnce' /\ ExecutedOnce'
  <2>1. SentOnce'
    BY <1>1 DEF ResultInv, SentOnce
  <2>2. ExecutedOnce'
    BY <1>1, <1>4, ExecutedKept DEF ResultInv
  <2> QED
    BY <2>1, <2>2
<1> QED
  BY <1>1, <1>6, <1>7, <1>8, <1>9, <1>10 DEF ResultInv, Results

\* Every step keeps the invariant.
LEMMA StepResults ==
  ASSUME HistInv, ResultInv, [Next]_vars
  PROVE  ResultInv'
<1>1. HistInv'
  BY StepTypes
<1>2. CASE Next
  BY <1>1, <1>2, UserResults, HandlersResults, LlmResults, ExecuteResults, CountResults,
     ToolStartsResults, ToolFinishesResults DEF Next, Tools
<1>3. CASE UNCHANGED vars
  BY <1>3 DEF ResultInv, SentOnce, ExecutedOnce, Results, Unstarted, RunningOpen, RunningSilent,
     StartsFirst, Waiting, NotBegun, vars, sessionVars, llmVars, toolVars
<1> QED
  BY <1>2, <1>3

LEMMA InitResults ==
  ASSUME Init
  PROVE  ResultInv
BY DEF Init, ResultInv, SentOnce, ExecutedOnce, Results, Unstarted, RunningOpen, RunningSilent,
   StartsFirst, ResultsOnce

\* finalize_tool_result updates the result that begin_tool_result pushed: however starts
\* and completions of tools, cancels and retries fall, no call has two results.
THEOREM OneResult == Spec => []OneResultPerCall
<1>1. Init => ResultInv
  BY InitResults
<1>2. HistInv /\ ResultInv /\ [Next]_vars => ResultInv'
  BY StepResults
<1>3. ResultInv => OneResultPerCall
  BY DEF ResultInv, Results, ResultsOnce, OneResultPerCall, History
<1> QED
  BY <1>1, <1>2, <1>3, TypesKept, PTL DEF Spec
=============================================================================
