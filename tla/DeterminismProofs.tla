--------------------------- MODULE DeterminismProofs ---------------------------
(***************************************************************************)
(* The threaded runner implements the Registry and, whatever the           *)
(* interleaving, publishes what Reference computes: for any finite set of  *)
(* Innies and any programs whose folds list no Innie twice.  What is       *)
(* printed at the end blames the right Innies, also where some do.         *)
(*                                                                         *)
(* The threads run ahead of each other, so no state of theirs is a state   *)
(* of Reference.  But until somebody finds the program quiescent, every    *)
(* thread is where some state of the current phase of Reference has it: a  *)
(* phase is a row of rounds, from one deadlock (or the start) to the next  *)
(* (or the end).  At quiescence every thread has caught up with the last   *)
(* state of the phase, and from there both resolve the same cycles.        *)
(***************************************************************************)
EXTENDS Determinism, Report, RegistryProofs, ReferenceProofs

LEMMA RunStepIsStep ==
    ASSUME [RunNext]_runVars
    PROVE  [Next]_vars
<1>1. ASSUME NEW i \in Innies, RunStep(i) PROVE Step(i)
  BY <1>1 DEF RunStep, Step, AskValues, ReadValues, AskBranches, ReadBranch, FinishDay, SettleDay
<1> QED
  BY <1>1 DEF RunNext, Next, runVars

\* Real programs only ask the Registry for what the open ones may ask for: a
\* run of the threaded runner is a behaviour of Registry, and each property of
\* the Registry holds of it.
THEOREM RunnerImplementsRegistry == RunSpec => Spec
<1>1. RunInit => Init
  BY DEF RunInit
<1> QED
  BY <1>1, RunStepIsStep, PTL DEF RunSpec, Spec

-----------------------------------------------------------------------------
(***************************************************************************)
(* What a thread is waiting for is what its program asks for.              *)
(***************************************************************************)
Calling == InSection \cup {"asleep", "notified"}
Called == {"returned", "read"}

\* A fold that has looked at some of its branches: each of those has settled
\* and does not end it, and those it deferred are not values; if it lists no
\* Innie twice, it deferred just those.
Looked(d, b, c) ==
    LET ask  == NextAsk(d)
        left == Members(b.remaining)
    IN  /\ ask.ids \in Seq(Innies) /\ b.remaining \in Seq(Innies)
        /\ left \subseteq Members(ask.ids)
        /\ \A t \in Members(ask.ids) \ left : c[t] # Pending /\ ~Absorbs(ask, c[t])
        /\ \A k \in b.deferred : /\ k \in DOMAIN ask.ids
                                 /\ c[ask.ids[k]] # Pending /\ c[ask.ids[k]].kind # "value"
        /\ ListsOnce(ask.ids) =>
              /\ ListsOnce(b.remaining)
              /\ b.deferred = {k \in DOMAIN ask.ids :
                                  ask.ids[k] \notin left /\ c[ask.ids[k]].kind # "value"}

Underway(i) == Looked(day[i], branches[i], cell)

FoldOf(i) ==
    NextAsk(day[i]).for = "fold" => branches[i] = StartFold(day[i]) \/ Underway(i)

\* The call an Innie is in, or has come back from, is for its question.
CallOf(i) ==
    LET ask == NextAsk(day[i])
    IN  /\ pc[i] \in Calling =>
              IF InAwaitAny(i)
              THEN ask.for = "fold" /\ Underway(i) /\ want[i] = branches[i].remaining
              ELSE ask.for = "all" /\ need[i] = Members(ask.ids)
        /\ pc[i] \in Called =>
              \/ ask.for = "all" /\ need[i] = Members(ask.ids)
              \/ /\ ask.for = "fold" /\ Underway(i)
                 /\ \E t \in Members(branches[i].remaining) : need[i] = {t}
        /\ pc[i] = "settle" => Ended(day[i])

QuestionInv ==
    /\ DOMAIN day = Innies /\ DOMAIN branches = Innies
    /\ \A i \in Innies : FoldOf(i) /\ CallOf(i)

\* Every question lists Innies ...
AsksInnies ==
    \A i \in Innies : NextAsk(day[i]).for # "nothing" => NextAsk(day[i]).ids \in Seq(Innies)

\* ... and no fold lists one twice.
WellAsked ==
    AsksInnies /\ \A i \in Innies : NextAsk(day[i]).for = "fold" => ListsOnce(NextAsk(day[i]).ids)

-----------------------------------------------------------------------------
(***************************************************************************)
(* The run of Reference so far, and where the threads are in it.           *)
(***************************************************************************)
RunOf(p, N) == RunFrom(schedule, p, N) /\ p[N] = ref

\* Every thread is where the phase has it at one time or other.
Follows(p, b, e) ==
    /\ \A i \in Innies : ~Open(p[b], i) => Settled(i)
    /\ \A i \in Innies : Settled(i) => cell[i] = p[e].cell[i]
    /\ \A i \in Innies : ~Settled(i) => \E n \in b..e : day[i] = p[n].day[i]

\* Two graphs that block the same Innies in the same way: the AND-edges of the
\* one may lead to Innies that are not blocked any more.
SameWaits(g, h) ==
    /\ g \in Graphs /\ h \in Graphs
    /\ Blocked(g) = Blocked(h)
    /\ \A i \in Innies : /\ g.or[i] = h.or[i]
                         /\ g.and[i] \cap Blocked(g) = h.and[i] \cap Blocked(g)

\* The threads are just where a deadlocked state has them.
Matches(p, m) ==
    /\ p[m].stuck
    /\ \A i \in Innies : cell[i] = p[m].cell[i]
    /\ \A i \in Innies : ~Settled(i) => day[i] = p[m].day[i]
    /\ SameWaits(graph, p[m].graph)

Keeping(p, N) ==
    IF \E i \in Innies : pc[i] = "resolve"
    THEN \E m \in 1..N : Matches(p, m)
    ELSE \E b \in 1..N : \E e \in 1..N : Phase(p, N, b, e) /\ Follows(p, b, e)

\* While the run of Reference is not complete, no thread has moved.
Waiting(p) ==
    /\ \A i \in Innies : pc[i] = "run" /\ ~Settled(i) /\ day[i] = p[1].day[i]

\* All of it, once the run of Reference is complete and before.
BothInv ==
    \E N \in Nat \ {0} : \E p :
        /\ RunOf(p, N)
        /\ IF Complete(ref) THEN Keeping(p, N) ELSE Waiting(p)

-----------------------------------------------------------------------------
(***************************************************************************)
(* Lists without repetition, and the questions of a workday.               *)
(***************************************************************************)

\* Taking a member out of a list leaves the others, and the member itself only
\* where the list has it again.
LEMMA RemoveFirstIs ==
    ASSUME NEW s \in Seq(Innies), NEW t \in Members(s)
    PROVE  /\ Seqs!RemoveFirst(s, t) \in Seq(Innies)
           /\ Members(Seqs!RemoveFirst(s, t)) \subseteq Members(s)
           /\ Members(s) \ {t} \subseteq Members(Seqs!RemoveFirst(s, t))
           /\ ListsOnce(s) => /\ t \notin Members(Seqs!RemoveFirst(s, t))
                              /\ ListsOnce(Seqs!RemoveFirst(s, t))
<1> DEFINE hits == {k \in 1..Len(s) : s[k] = t}
           q == CHOOSE k \in hits : \A m \in hits : k <= m
           before == SubSeq(s, 1, q - 1)
           after == SubSeq(s, q + 1, Len(s))
           r == Seqs!RemoveFirst(s, t)
<1>1. Len(s) \in Nat /\ DOMAIN s = 1..Len(s) /\ \A k \in 1..Len(s) : s[k] \in Innies
  BY LenProperties, ElementOfSeq
<1>2. hits # {} /\ hits \subseteq DOMAIN s
  BY <1>1 DEF Members
<1>3. \E k \in hits : \A m \in hits : k <= m
  <2> HIDE DEF hits
  <2> QED
    BY <1>2, FirstOf
<1>4. q \in 1..Len(s) /\ s[q] = t
  <2>1. q \in hits
    BY <1>3
  <2> HIDE DEF q
  <2> QED
    BY <2>1
<1>5. r = before \o after
  <2>1. Seqs!SelectInSeq(s, LAMBDA v : v = t) = q
    BY <1>2 DEF Seqs!SelectInSeq, Seqs!Min
  <2> HIDE DEF q, hits
  <2> QED
    BY <2>1, <1>4 DEF Seqs!RemoveFirst, Seqs!RemoveAt
<1> HIDE DEF q, r, hits
<1>6. /\ before \in Seq(Innies) /\ Len(before) = q - 1
      /\ \A j \in 1..(q - 1) : before[j] = s[j]
  BY <1>1, <1>4, SubSeqProperties
<1>7. /\ after \in Seq(Innies) /\ Len(after) = Len(s) - q
      /\ \A j \in 1..(Len(s) - q) : after[j] = s[q + j]
  <2>1. /\ q + 1 \in 1..(Len(s) + 1) /\ Len(s) \in q..Len(s)
        /\ Len(s) - (q + 1) + 1 = Len(s) - q
        /\ \A j \in 1..(Len(s) - q) : (q + 1) + j - 1 = q + j
    BY <1>1, <1>4
  <2>2. /\ after \in Seq(Innies)
        /\ Len(after) = IF q + 1 <= Len(s) THEN Len(s) - (q + 1) + 1 ELSE 0
        /\ \A j \in 1..Len(s) - (q + 1) + 1 : after[j] = s[(q + 1) + j - 1]
    BY <1>1, <1>4, <2>1, SubSeqProperties
  <2> HIDE DEF after
  <2>3. Len(after) = Len(s) - q
    <3>1. q \in Nat /\ Len(s) \in Nat /\ q <= Len(s)
      BY <1>1, <1>4
    <3>2. Len(after) = IF q + 1 <= Len(s) THEN Len(s) - (q + 1) + 1 ELSE 0
      BY <2>2
    <3> QED
      BY <3>1, <3>2
  <2>4. ASSUME NEW j \in 1..(Len(s) - q) PROVE after[j] = s[q + j]
    BY <1>1, <1>4, <2>1, <2>2
  <2> QED
    BY <2>2, <2>3, <2>4
<1> HIDE DEF before, after
<1>8. /\ r \in Seq(Innies) /\ Len(r) = Len(s) - 1 /\ DOMAIN r = 1..(Len(s) - 1)
      /\ \A j \in 1..(Len(s) - 1) : r[j] = IF j < q THEN s[j] ELSE s[j + 1]
  <2>1. r \in Seq(Innies) /\ Len(r) = Len(before) + Len(after)
        /\ \A j \in 1..(Len(before) + Len(after)) :
              r[j] = IF j <= Len(before) THEN before[j] ELSE after[j - Len(before)]
    BY <1>5, <1>6, <1>7, ConcatProperties
  <2>2. DOMAIN r = 1..Len(r)
    BY <2>1, LenProperties
  <2>3. Len(before) = q - 1 /\ Len(before) + Len(after) = Len(s) - 1
    BY <1>1, <1>4, <1>6, <1>7
  <2>4. ASSUME NEW j \in 1..(Len(s) - 1)
        PROVE  r[j] = IF j < q THEN s[j] ELSE s[j + 1]
    <3>1. CASE j < q
      <4>1. j \in 1..(q - 1) /\ j <= Len(before) /\ j \in 1..(Len(before) + Len(after))
        BY <1>1, <1>4, <2>3, <3>1
      <4> QED
        BY <1>6, <2>1, <3>1, <4>1
    <3>2. CASE ~(j < q)
      <4>1. j - (q - 1) \in 1..(Len(s) - q) /\ q + (j - (q - 1)) = j + 1
        BY <1>1, <1>4, <3>2
      <4>2. ~(j <= Len(before)) /\ j \in 1..(Len(before) + Len(after))
        BY <1>1, <1>4, <2>3, <3>2
      <4> QED
        BY <1>7, <2>1, <2>3, <3>2, <4>1, <4>2
    <3> QED
      BY <3>1, <3>2
  <2> QED
    BY <1>1, <2>1, <2>2, <2>3, <2>4
<1>9. \A m \in 1..(Len(s) - 1) : \E n \in 1..Len(s) : n # q /\ s[n] = r[m]
  <2> SUFFICES ASSUME NEW m \in 1..(Len(s) - 1)
               PROVE  \E n \in 1..Len(s) : n # q /\ s[n] = r[m]
    OBVIOUS
  <2>1. m \in 1..Len(s) /\ m + 1 \in 1..Len(s) /\ r[m] = IF m < q THEN s[m] ELSE s[m + 1]
    BY <1>1, <1>8
  <2> QED
    BY <1>1, <1>4, <2>1
<1>10. Members(r) \subseteq Members(s)
  <2>1. DOMAIN r = 1..(Len(s) - 1) /\ DOMAIN s = 1..Len(s)
    BY <1>1, <1>8
  <2> HIDE DEF r
  <2> QED
    BY <2>1, <1>9 DEF Members
<1>11. ASSUME NEW x \in Members(s), x # t PROVE x \in Members(r)
  <2>1. PICK m \in 1..Len(s) : s[m] = x
    BY <1>1 DEF Members
  <2>2. CASE m < q
    <3>1. m \in 1..(Len(s) - 1)
      BY <1>1, <1>4, <2>2
    <3>2. r[m] = x
      BY <1>8, <2>1, <2>2, <3>1
    <3> QED
      BY <1>8, <3>1, <3>2 DEF Members
  <2>3. CASE m > q
    <3>1. m - 1 \in 1..(Len(s) - 1) /\ ~(m - 1 < q) /\ (m - 1) + 1 = m
      BY <1>1, <1>4, <2>1, <2>3
    <3>2. r[m - 1] = x
      BY <1>8, <2>1, <3>1
    <3> QED
      BY <1>8, <3>1, <3>2 DEF Members
  <2> QED
    BY <1>4, <1>11, <2>1, <2>2, <2>3
<1>12. ASSUME ListsOnce(s) PROVE t \notin Members(r) /\ ListsOnce(r)
  <2>1. \A a \in 1..Len(s), b \in 1..Len(s) : s[a] = s[b] => a = b
    BY <1>1, <1>12 DEF ListsOnce
  <2>2. t \notin Members(r)
    BY <1>4, <1>8, <1>9, <2>1 DEF Members
  <2> DEFINE to(a) == IF a < q THEN a ELSE a + 1
  <2>3. \A a \in 1..(Len(s) - 1) : to(a) \in 1..Len(s) /\ r[a] = s[to(a)]
    BY <1>1, <1>4, <1>8
  <2>4. ASSUME NEW j \in DOMAIN r, NEW m \in DOMAIN r, r[j] = r[m] PROVE j = m
    <3>1. j \in 1..(Len(s) - 1) /\ m \in 1..(Len(s) - 1)
      BY <1>8
    <3>2. s[to(j)] = s[to(m)] /\ to(j) \in 1..Len(s) /\ to(m) \in 1..Len(s)
      BY <2>3, <2>4, <3>1
    <3>3. to(j) = to(m)
      <4> HIDE DEF to
      <4> QED
        BY <2>1, <3>2
    <3> QED
      BY <1>4, <3>1, <3>3
  <2> QED
    BY <2>2, <2>4 DEF ListsOnce
<1> QED
  BY <1>8, <1>10, <1>11, <1>12 DEF r

-----------------------------------------------------------------------------
(***************************************************************************)
(* The cycle of a graph.                                                   *)
(***************************************************************************)

\* Graphs that block the same Innies in the same way have the same knots and
\* the same cycle.
LEMMA SameCycle ==
    ASSUME NEW g, NEW h, SameWaits(g, h)
    PROVE  FindCycle(g) = FindCycle(h)
<1>1. \A i \in Innies : OrGroups(g, i) = OrGroups(h, i)
  BY DEF SameWaits, OrGroups
<1>2. ASSUME NEW X \in SUBSET Blocked(g), NEW i \in Innies
      PROVE  AndEdges(g, i) \cap X = AndEdges(h, i) \cap X
  BY DEF SameWaits, AndEdges
<1>3. ASSUME NEW X PROVE IsKnot(g, X) <=> IsKnot(h, X)
  <2>1. CASE ~(X \subseteq Blocked(g))
    BY <2>1 DEF IsKnot, SameWaits
  <2>2. CASE X \subseteq Blocked(g)
    <3>1. X \subseteq Innies
      BY <2>2 DEF Blocked
    <3>2. \A i \in X : HasWayForward(g, i, X) <=> HasWayForward(h, i, X)
      BY <1>1, <1>2, <2>2, <3>1 DEF HasWayForward
    <3> QED
      BY <2>2, <3>2 DEF IsKnot, SameWaits
  <2> QED
    BY <2>1, <2>2
<1>4. StuckSet(g) = StuckSet(h)
  <2>1. StuckSet(g) \in SUBSET Blocked(h) /\ StuckSet(h) \in SUBSET Blocked(g)
    BY StuckSetIsGreatestKnot DEF IsKnot, SameWaits
  <2>2. IsKnot(g, StuckSet(h)) /\ IsKnot(h, StuckSet(g))
    BY <1>3, StuckSetIsGreatestKnot
  <2> QED
    BY <2>1, <2>2, StuckSetIsGreatestKnot
<1> DEFINE X == StuckSet(g)
           E == [n \in X |-> StuckEdges(g, X, n)]
           F == [n \in X |-> StuckEdges(h, X, n)]
<1>5. X \subseteq Blocked(g) /\ X \subseteq Innies
  BY StuckSetIsGreatestKnot DEF IsKnot, Blocked
<1>6. FindCycle(g) = FirstComponent[EdgePairs(E)] /\ FindCycle(h) = FirstComponent[EdgePairs(F)]
  BY <1>4 DEF FindCycle
<1>7. E = F
  <2> HIDE DEF X
  <2>1. ASSUME NEW n \in X PROVE StuckEdges(g, X, n) = StuckEdges(h, X, n)
    BY <1>1, <1>2, <1>5 DEF StuckEdges
  <2> QED
    BY <2>1
<1> QED
  BY <1>6, <1>7

LEMMA SameWhenCleared ==
    ASSUME NEW g, NEW h, SameWaits(g, h), NEW X
    PROVE  SameWaits(Clear(g, X), Clear(h, X))
<1>1. g \in Graphs /\ h \in Graphs
  BY DEF SameWaits
<1>2. Blocked(Clear(g, X)) = Blocked(g) \ X /\ Blocked(Clear(h, X)) = Blocked(h) \ X
  BY <1>1, ClearIs DEF Blocked
<1>3. ASSUME NEW i \in Innies
      PROVE  /\ Clear(g, X).or[i] = Clear(h, X).or[i]
             /\ Clear(g, X).and[i] \cap (Blocked(g) \ X)
                    = Clear(h, X).and[i] \cap (Blocked(h) \ X)
  <2>1. /\ g.or[i] = h.or[i] /\ Blocked(g) = Blocked(h)
        /\ g.and[i] \cap Blocked(g) = h.and[i] \cap Blocked(h)
    BY DEF SameWaits
  <2>2. CASE i \in X
    BY <1>1, <2>2, ClearIs
  <2>3. CASE i \notin X
    <3>1. /\ Clear(g, X).or[i] = g.or[i] /\ Clear(h, X).or[i] = h.or[i]
          /\ Clear(g, X).and[i] = g.and[i] /\ Clear(h, X).and[i] = h.and[i]
      BY <1>1, <2>3, ClearIs
    <3> QED
      BY <2>1, <3>1
  <2> QED
    BY <2>2, <2>3
<1>4. Clear(g, X) \in Graphs /\ Clear(h, X) \in Graphs
  BY <1>1, ClearIs
<1> QED
  BY <1>2, <1>3, <1>4 DEF SameWaits

-----------------------------------------------------------------------------
(***************************************************************************)
(* The threads ask what their programs ask.                                *)
(***************************************************************************)
CellsKept == \A t \in Innies : Settled(t) => cell'[t] = cell[t]

\* The step of another thread leaves all this alone; it may wake a sleeper.
Apart(j) ==
    /\ day'[j] = day[j] /\ branches'[j] = branches[j]
    /\ want'[j] = want[j] /\ need'[j] = need[j]
    /\ pc'[j] = pc[j] \/ (pc[j] = "asleep" /\ pc'[j] = "notified")

LEMMA UnderwayKept ==
    ASSUME NEW j \in Innies, Underway(j), CellsKept,
           day'[j] = day[j], branches'[j] = branches[j]
    PROVE  Underway(j)'
<1>1. ASSUME NEW d, NEW b, NEW c, NEW e, Looked(d, b, c),
             \A t \in Innies : c[t] # Pending => e[t] = c[t]
      PROVE  Looked(d, b, e)
  <2> DEFINE ids == NextAsk(d).ids
             left == Members(b.remaining)
  <2>1. ids \in Seq(Innies) /\ \A k \in DOMAIN ids : ids[k] \in Members(ids) /\ ids[k] \in Innies
    BY <1>1, MembersAre DEF Looked
  <2>2. \A t \in Members(ids) \ left : e[t] = c[t] /\ c[t] # Pending
    BY <1>1, <2>1, MembersAre DEF Looked
  <2>3. {k \in DOMAIN ids : ids[k] \notin left /\ e[ids[k]].kind # "value"}
        = {k \in DOMAIN ids : ids[k] \notin left /\ c[ids[k]].kind # "value"}
    BY <2>1, <2>2
  <2>4. \A k \in b.deferred : /\ k \in DOMAIN ids /\ e[ids[k]] = c[ids[k]]
                             /\ c[ids[k]] # Pending /\ c[ids[k]].kind # "value"
    BY <1>1, <2>1 DEF Looked
  <2> QED
    BY <1>1, <2>2, <2>3, <2>4 DEF Looked
<1> QED
  BY <1>1 DEF Underway, CellsKept, Settled

LEMMA FoldKept ==
    ASSUME NEW j \in Innies, FoldOf(j), CellsKept,
           day'[j] = day[j], branches'[j] = branches[j]
    PROVE  FoldOf(j)'
BY UnderwayKept DEF FoldOf

LEMMA ApartKept ==
    ASSUME NEW j \in Innies, FoldOf(j), CallOf(j), CellsKept, Apart(j)
    PROVE  FoldOf(j)' /\ CallOf(j)'
<1>1. Underway(j) => Underway(j)'
  BY UnderwayKept DEF Apart
<1>2. FoldOf(j)'
  BY FoldKept DEF Apart
<1>3. /\ InAwaitAny(j)' <=> InAwaitAny(j)
      /\ pc'[j] \in Calling => pc[j] \in Calling
      /\ pc'[j] \in Called => pc[j] \in Called
      /\ pc'[j] = "settle" => pc[j] = "settle"
  BY DEF Apart, InAwaitAny, Calling, Called, InSection
<1>4. CallOf(j)'
  BY <1>1, <1>3 DEF CallOf, Apart, Members
<1> QED
  BY <1>2, <1>4

LEMMA OthersApart ==
    ASSUME IInv, DOMAIN day = Innies, DOMAIN branches = Innies,
           NEW i \in Innies, RunStep(i), NEW j \in Innies, j # i
    PROVE  Apart(j)
<1>1. pc \in [Innies -> Locations] /\ want \in [Innies -> Seq(Innies)]
      /\ need \in [Innies -> SUBSET Innies]
  BY DEF IInv, TypeOK
<1>2. CASE AskValues(i)
  BY <1>1, <1>2 DEF AskValues, AwaitInnies, Apart
<1>3. CASE ReadValues(i)
  BY <1>1, <1>3 DEF ReadValues, Read, Resume, Apart
<1>4. CASE AskBranches(i)
  BY <1>1, <1>4 DEF AskBranches, AwaitAny, Apart
<1>5. CASE ReadBranch(i)
  BY <1>1, <1>5 DEF ReadBranch, Read, Resume, Apart
<1>6. CASE FinishDay(i)
  BY <1>1, <1>6 DEF FinishDay, Finish, Apart
<1>7. CASE SettleDay(i)
  BY <1>1, <1>7 DEF SettleDay, Settle, Notify, Apart
<1>8. CASE Protocol(i) /\ UNCHANGED <<day, branches>>
  <2>1. /\ want'[j] = want[j] /\ need'[j] = need[j]
        /\ pc'[j] = pc[j] \/ (pc[j] = "asleep" /\ pc'[j] = "notified")
    <3>1. CASE ScanHit(i) \/ ScanMiss(i)
      BY <1>1, <3>1 DEF ScanHit, ScanMiss
    <3>2. CASE Detect(i) \/ NoCycleLeft(i)
      BY <1>1, <3>2 DEF Detect, NoCycleLeft
    <3>3. CASE ResolveCycle(i)
      BY <1>1, <3>3 DEF ResolveCycle, Notify
    <3>4. CASE RecheckAll(i) \/ RecheckAny(i)
      BY <1>1, <3>4 DEF RecheckAll, RecheckAny
    <3>5. CASE Wake(i) \/ AskCancelled(i)
      BY <1>1, <3>5 DEF Wake, AskCancelled
    <3> QED
      BY <1>8, <3>1, <3>2, <3>3, <3>4, <3>5 DEF Protocol
  <2> QED
    BY <1>8, <2>1 DEF Apart
<1> QED
  BY <1>2, <1>3, <1>4, <1>5, <1>6, <1>7, <1>8 DEF RunStep

\* What reading one branch does.
LEMMA ReadBranchIs ==
    ASSUME IInv, QuestionInv, NEW i \in Innies, ReadBranch(i)
    PROVE  LET ask == NextAsk(day[i])
               old == branches[i]
           IN  /\ pc[i] = "read" /\ pc'[i] = "run" /\ cell' = cell
               /\ ask.for = "fold" /\ Underway(i)
               /\ \E t \in Members(old.remaining) :
                    LET rest     == Seqs!RemoveFirst(old.remaining, t)
                        deferred == old.deferred \cup
                            (IF cell[t].kind = "value" THEN {} ELSE {Position(ask.ids, t)})
                        blamed   == ask.ids[Sets!Min(deferred)]
                    IN  /\ t \in Innies /\ Settled(t)
                        /\ \/ /\ Absorbs(ask, cell[t])
                              /\ day'[i] = AnswerFold(day[i], ask.cond.quant = "ANY")
                              /\ branches'[i] = StartFold(day'[i])
                           \/ /\ ~Absorbs(ask, cell[t]) /\ rest # <<>>
                              /\ day'[i] = day[i]
                              /\ branches'[i] = [remaining |-> rest, deferred |-> deferred]
                           \/ /\ ~Absorbs(ask, cell[t]) /\ rest = <<>>
                              /\ day'[i] = IF deferred = {}
                                           THEN AnswerFold(day[i], ask.cond.quant # "ANY")
                                           ELSE Raise(day[i], FaultOf(blamed, cell[blamed]))
                              /\ branches'[i] = StartFold(day'[i])
<1> DEFINE ask == NextAsk(day[i])
           old == branches[i]
           rest(t) == Seqs!RemoveFirst(old.remaining, t)
           deferred(t) == old.deferred \cup
                (IF cell[t].kind = "value" THEN {} ELSE {Position(ask.ids, t)})
           blamed(t) == ask.ids[Sets!Min(deferred(t))]
<1>1. pc[i] = "read" /\ pc'[i] = "run" /\ cell' = cell /\ ask.for = "fold"
  BY DEF ReadBranch, Read, IInv, TypeOK
<1>2. Underway(i) /\ \E t \in Members(old.remaining) : need[i] = {t}
  BY <1>1 DEF QuestionInv, CallOf, Called
<1>3. PICK t \in Members(old.remaining) : need[i] = {t}
  BY <1>2
<1>4. t \in Innies
  BY <1>2, MembersAre DEF Underway, Looked
<1>5. Settled(t)
  BY <1>1, <1>3 DEF IInv, LocalInv, SettledOf, PromiseOf, AllSettled
<1>6. (CHOOSE u \in need[i] : TRUE) = t
  BY <1>3
<1>7. IF Absorbs(ask, cell[t])
      THEN Resume(i, AnswerFold(day[i], ask.cond.quant = "ANY"))
      ELSE IF rest(t) # <<>>
      THEN /\ branches' = [branches EXCEPT ![i] =
                               [remaining |-> rest(t), deferred |-> deferred(t)]]
           /\ UNCHANGED day
      ELSE IF deferred(t) # {}
      THEN Resume(i, Raise(day[i], FaultOf(blamed(t), cell[blamed(t)])))
      ELSE Resume(i, AnswerFold(day[i], ask.cond.quant # "ANY"))
  BY <1>6 DEF ReadBranch
<1>8. \A d : Resume(i, d) => day'[i] = d /\ branches'[i] = StartFold(day'[i])
  BY DEF Resume, QuestionInv
<1>9. i \in DOMAIN branches
  BY DEF QuestionInv
<1> HIDE DEF rest, deferred, blamed
<1>10. \/ /\ Absorbs(ask, cell[t])
          /\ day'[i] = AnswerFold(day[i], ask.cond.quant = "ANY")
          /\ branches'[i] = StartFold(day'[i])
       \/ /\ ~Absorbs(ask, cell[t]) /\ rest(t) # <<>>
          /\ day'[i] = day[i]
          /\ branches'[i] = [remaining |-> rest(t), deferred |-> deferred(t)]
       \/ /\ ~Absorbs(ask, cell[t]) /\ rest(t) = <<>>
          /\ day'[i] = IF deferred(t) = {}
                       THEN AnswerFold(day[i], ask.cond.quant # "ANY")
                       ELSE Raise(day[i], FaultOf(blamed(t), cell[blamed(t)]))
          /\ branches'[i] = StartFold(day'[i])
  BY <1>7, <1>8, <1>9
<1> QED
  BY <1>1, <1>2, <1>3, <1>4, <1>5, <1>10 DEF rest, deferred, blamed

\* Where a branch stands in its list: the last place, if it has several.
LEMMA PositionIs ==
    ASSUME NEW ids \in Seq(Innies), NEW t \in Members(ids)
    PROVE  /\ Position(ids, t) \in DOMAIN ids /\ ids[Position(ids, t)] = t
           /\ ListsOnce(ids) => \A k \in DOMAIN ids : ids[k] = t <=> k = Position(ids, t)
<1> DEFINE places == {k \in DOMAIN ids : ids[k] = t}
<1>1. places # {} /\ IsFiniteSet(places) /\ places \subseteq Nat
  <2>1. DOMAIN ids = 1..Len(ids) /\ Len(ids) \in Nat
    BY LenProperties
  <2>2. IsFiniteSet(1..Len(ids))
    BY <2>1, FS_Interval
  <2> QED
    BY <2>1, <2>2, FS_Subset DEF Members
<1>2. \E k \in places : \A m \in places : k >= m
  <2> DEFINE after == {Len(ids) - k : k \in places}
  <2>1. Len(ids) \in Nat /\ \A k \in places : k \in Nat /\ Len(ids) - k \in Nat
    BY LenProperties
  <2>2. after # {} /\ IsFiniteSet(after) /\ after \subseteq Nat
    <3> HIDE DEF places
    <3>1. after \subseteq 0..Len(ids) /\ after # {}
      BY <1>1, <2>1
    <3>2. IsFiniteSet(0..Len(ids))
      BY <2>1, FS_Interval
    <3> QED
      BY <2>1, <3>1, <3>2, FS_Subset
  <2> HIDE DEF places, after
  <2>3. PICK n \in after : \A m \in after : n <= m
    BY <2>2, LeastExists
  <2>4. PICK k \in places : n = Len(ids) - k
    BY <2>3 DEF after
  <2>5. \A m \in places : Len(ids) - m \in after
    BY DEF after
  <2>6. \A m \in places : k >= m
    BY <2>1, <2>3, <2>4, <2>5
  <2> QED
    BY <2>6
<1>3. Position(ids, t) = CHOOSE k \in places : \A m \in places : k >= m
  BY DEF Position, Sets!Max
<1>4. Position(ids, t) \in places
  <2> HIDE DEF places
  <2> QED
    BY <1>2, <1>3
<1> QED
  BY <1>4 DEF ListsOnce

\* A fold goes on with one branch less.
LEMMA GoesOn ==
    ASSUME NEW d, NEW b, NEW c, Looked(d, b, c),
           NEW t \in Members(b.remaining), c[t] # Pending, ~Absorbs(NextAsk(d), c[t])
    PROVE  Looked(d, [remaining |-> Seqs!RemoveFirst(b.remaining, t),
                      deferred  |-> b.deferred \cup
                          (IF c[t].kind = "value" THEN {}
                           ELSE {Position(NextAsk(d).ids, t)})], c)
<1> DEFINE ask == NextAsk(d)
           ids == ask.ids
           left == Members(b.remaining)
           rest == Seqs!RemoveFirst(b.remaining, t)
           more == IF c[t].kind = "value" THEN {} ELSE {Position(ids, t)}
           after == [remaining |-> rest, deferred |-> b.deferred \cup more]
<1>1. /\ ids \in Seq(Innies) /\ b.remaining \in Seq(Innies)
      /\ left \subseteq Members(ids)
      /\ \A u \in Members(ids) \ left : c[u] # Pending /\ ~Absorbs(ask, c[u])
      /\ \A k \in b.deferred : /\ k \in DOMAIN ids
                               /\ c[ids[k]] # Pending /\ c[ids[k]].kind # "value"
      /\ ListsOnce(ids) =>
            /\ ListsOnce(b.remaining)
            /\ b.deferred = {k \in DOMAIN ids : ids[k] \notin left /\ c[ids[k]].kind # "value"}
  BY DEF Looked
<1>2. /\ rest \in Seq(Innies) /\ Members(rest) \subseteq left /\ left \ {t} \subseteq Members(rest)
      /\ ListsOnce(b.remaining) => t \notin Members(rest) /\ ListsOnce(rest)
  BY <1>1, RemoveFirstIs
<1>3. /\ Position(ids, t) \in DOMAIN ids /\ ids[Position(ids, t)] = t
      /\ ListsOnce(ids) => \A k \in DOMAIN ids : ids[k] = t <=> k = Position(ids, t)
  BY <1>1, PositionIs
<1> HIDE DEF rest
<1>4. ListsOnce(ids) =>
        b.deferred \cup more =
          {k \in DOMAIN ids : ids[k] \notin Members(rest) /\ c[ids[k]].kind # "value"}
  BY <1>1, <1>2, <1>3
<1>5. \A u \in Members(ids) \ Members(rest) : c[u] # Pending /\ ~Absorbs(ask, c[u])
  BY <1>1, <1>2
<1>6. after.remaining = rest /\ after.deferred = b.deferred \cup more
  OBVIOUS
<1>7. \A k \in b.deferred \cup more : /\ k \in DOMAIN ids
                                      /\ c[ids[k]] # Pending /\ c[ids[k]].kind # "value"
  BY <1>1, <1>3
<1> HIDE DEF more, after
<1>8. Looked(d, after, c)
  BY <1>1, <1>2, <1>4, <1>5, <1>6, <1>7 DEF Looked
<1> QED
  BY <1>8 DEF after, more, rest

\* Inside a call the question stays the same.
LEMMA ProtocolQuestion ==
    ASSUME IInv, QuestionInv, CellsKept, NEW i \in Innies, Protocol(i),
           UNCHANGED <<day, branches>>
    PROVE  FoldOf(i)' /\ CallOf(i)'
<1> DEFINE ask == NextAsk(day[i])
<1>1. /\ pc \in [Innies -> Locations] /\ want \in [Innies -> Seq(Innies)]
      /\ need \in [Innies -> SUBSET Innies]
      /\ FoldOf(i) /\ CallOf(i) /\ WantOf(i)
  BY DEF IInv, TypeOK, QuestionInv, LocalInv
<1>2. FoldOf(i)' /\ (Underway(i) => Underway(i)')
  BY <1>1, FoldKept, UnderwayKept
<1>3. ASSUME pc[i] \in Calling, pc'[i] \in Calling,
             want'[i] = want[i], need'[i] = need[i]
      PROVE  CallOf(i)'
  BY <1>1, <1>2, <1>3 DEF CallOf, Calling, Called, InSection, InAwaitAny, Members
<1>4. ASSUME pc'[i] = "exited" PROVE CallOf(i)'
  BY <1>4 DEF CallOf, Calling, Called, InSection
<1>5. CASE ScanHit(i)
  <2>1. /\ pc[i] = "scan" /\ pc'[i] = "returned" /\ need'[i] = {FirstSettled(i)}
        /\ FirstSettled(i) \in Members(want[i])
    BY <1>1, <1>5, FirstSettledIs DEF ScanHit, IInv
  <2>2. ask.for = "fold" /\ Underway(i) /\ want[i] = branches[i].remaining
    BY <1>1, <2>1 DEF CallOf, WantOf, Calling, InSection
  <2> QED
    BY <1>2, <2>1, <2>2 DEF CallOf, Calling, Called, InSection, Members
<1>6. CASE ScanMiss(i)
  <2>1. \/ pc'[i] = "exited"
        \/ pc[i] = "scan" /\ pc'[i] = "detect" /\ UNCHANGED <<want, need>>
    BY <1>1, <1>6 DEF ScanMiss
  <2> QED
    BY <1>2, <1>3, <1>4, <2>1 DEF Calling, InSection
<1>7. CASE Detect(i) \/ NoCycleLeft(i)
  <2>1. /\ pc[i] \in InSection /\ pc'[i] \in InSection /\ UNCHANGED <<want, need>>
    BY <1>1, <1>7 DEF Detect, NoCycleLeft, InSection
  <2> QED
    BY <1>2, <1>3, <2>1 DEF Calling
<1>8. CASE ResolveCycle(i)
  <2>1. /\ pc[i] = "resolve" /\ pc'[i] = "resolve" /\ UNCHANGED <<want, need>>
    BY <1>1, <1>8 DEF ResolveCycle, Notify
  <2> QED
    BY <1>2, <1>3, <2>1 DEF Calling, InSection
<1>9. CASE RecheckAll(i)
  <2>1. /\ pc[i] = "recheck" /\ ~InAwaitAny(i) /\ UNCHANGED <<want, need>>
        /\ pc'[i] \in {"returned", "asleep"}
    BY <1>1, <1>9 DEF RecheckAll
  <2>2. CASE pc'[i] = "asleep"
    BY <1>2, <1>3, <2>1, <2>2 DEF Calling, InSection
  <2>3. CASE pc'[i] = "returned"
    <3>1. ask.for = "all" /\ need[i] = Members(ask.ids)
      BY <1>1, <2>1 DEF CallOf, Calling, InSection
    <3> QED
      BY <1>2, <2>1, <2>3, <3>1 DEF CallOf, Calling, Called, InSection, Members
  <2> QED
    BY <2>1, <2>2, <2>3
<1>10. CASE RecheckAny(i)
  <2>1. /\ pc[i] = "recheck" /\ UNCHANGED <<want, need>> /\ pc'[i] \in {"scan", "asleep"}
    BY <1>1, <1>10 DEF RecheckAny
  <2> QED
    BY <1>2, <1>3, <2>1 DEF Calling, InSection
<1>11. CASE Wake(i)
  <2>1. /\ pc[i] = "notified" /\ UNCHANGED <<want, need>> /\ pc'[i] \in {"scan", "detect"}
    BY <1>1, <1>11 DEF Wake
  <2> QED
    BY <1>2, <1>3, <2>1 DEF Calling, InSection
<1>12. CASE AskCancelled(i)
  <2>1. \/ pc'[i] = "exited"
        \/ pc[i] = "returned" /\ pc'[i] = "read" /\ need' = need
    BY <1>1, <1>12 DEF AskCancelled
  <2> QED
    BY <1>1, <1>2, <1>4, <2>1 DEF CallOf, Calling, Called, InSection, Members
<1> QED
  BY <1>5, <1>6, <1>7, <1>8, <1>9, <1>10, <1>11, <1>12 DEF Protocol

\* The thread's own step.
LEMMA OwnQuestion ==
    ASSUME IInv, AsksInnies, QuestionInv, CellsKept, NEW i \in Innies, RunStep(i)
    PROVE  FoldOf(i)' /\ CallOf(i)'
<1> DEFINE ask == NextAsk(day[i])
<1>1. /\ pc \in [Innies -> Locations] /\ want \in [Innies -> Seq(Innies)]
      /\ need \in [Innies -> SUBSET Innies]
      /\ DOMAIN day = Innies /\ DOMAIN branches = Innies
      /\ FoldOf(i) /\ CallOf(i) /\ WantOf(i)
  BY DEF IInv, TypeOK, QuestionInv, LocalInv
<1>2. CASE AskValues(i)
  <2>1. /\ ask.for = "all" /\ pc[i] = "run" /\ UNCHANGED <<day, branches, want>>
        /\ pc'[i] \in {"returned", "detect"} /\ need'[i] = Members(ask.ids)
    BY <1>1, <1>2 DEF AskValues, AwaitInnies
  <2>2. ~InAwaitAny(i)'
    BY <1>1, <2>1 DEF WantOf, InAwaitAny, WaitLocations
  <2> QED
    BY <2>1, <2>2 DEF FoldOf, CallOf, Calling, Called, InSection, Members
<1>3. CASE AskBranches(i)
  <2>1. /\ ask.for = "fold" /\ UNCHANGED <<day, branches>> /\ pc'[i] = "scan"
        /\ want'[i] = branches[i].remaining
        /\ branches[i].remaining \in Seq(Innies) /\ branches[i].remaining # <<>>
    BY <1>1, <1>3, RegistryAssumption DEF AskBranches, AwaitAny
  <2>2. Underway(i)
    <3>1. CASE branches[i] = StartFold(day[i])
      <4>1. branches[i].remaining = ask.ids /\ branches[i].deferred = {}
        BY <2>1, <3>1 DEF StartFold
      <4>2. ask.ids \in Seq(Innies) /\ \A k \in DOMAIN ask.ids : ask.ids[k] \in Members(ask.ids)
        BY <2>1 DEF AsksInnies, Members
      <4>3. /\ Members(ask.ids) \ Members(branches[i].remaining) = {}
            /\ {k \in DOMAIN ask.ids : ask.ids[k] \notin Members(branches[i].remaining)
                                       /\ cell[ask.ids[k]].kind # "value"} = {}
        BY <4>1, <4>2
      <4> QED
        BY <4>1, <4>2, <4>3 DEF Underway, Looked
    <3> QED
      BY <1>1, <2>1, <3>1 DEF FoldOf
  <2>3. Underway(i)'
    BY <2>1, <2>2, UnderwayKept
  <2> QED
    BY <2>1, <2>3 DEF FoldOf, CallOf, InAwaitAny, Calling, Called, InSection
<1>4. CASE ReadValues(i)
  BY <1>1, <1>4 DEF ReadValues, Read, Resume, FoldOf, CallOf, Calling, Called, InSection
<1>5. CASE ReadBranch(i)
  <2>1. pc'[i] = "run"
    BY <1>5, ReadBranchIs
  <2>2. branches'[i] = StartFold(day'[i]) \/ Underway(i)'
    <3> DEFINE after(t) ==
                [remaining |-> Seqs!RemoveFirst(branches[i].remaining, t),
                 deferred  |-> branches[i].deferred \cup
                    (IF cell[t].kind = "value" THEN {} ELSE {Position(ask.ids, t)})]
    <3>1. cell' = cell /\ Underway(i)
      BY <1>5, ReadBranchIs
    <3>2. \/ branches'[i] = StartFold(day'[i])
          \/ \E t \in Members(branches[i].remaining) :
                /\ Settled(t) /\ ~Absorbs(ask, cell[t]) /\ day'[i] = day[i]
                /\ branches'[i] = after(t)
      BY <1>5, ReadBranchIs
    <3>3. ASSUME NEW t \in Members(branches[i].remaining),
                 Settled(t), ~Absorbs(ask, cell[t]), day'[i] = day[i],
                 branches'[i] = after(t)
          PROVE  Underway(i)'
      <4>1. Looked(day[i], after(t), cell)
        BY <3>1, <3>3, GoesOn DEF Underway, Settled
      <4> QED
        BY <3>1, <3>3, <4>1 DEF Underway
    <3> QED
      BY <3>2, <3>3
  <2> QED
    BY <2>1, <2>2 DEF FoldOf, CallOf, Calling, Called, InSection
<1>6. CASE FinishDay(i)
  <2>1. /\ UNCHANGED <<day, branches>> /\ Ended(day[i])
        /\ pc'[i] \in {"exited", "settle"}
    BY <1>1, <1>6 DEF FinishDay, Finish
  <2> QED
    BY <1>1, <2>1, FoldKept DEF CallOf, Calling, Called, InSection
<1>7. CASE SettleDay(i)
  <2>1. UNCHANGED <<day, branches>> /\ pc'[i] = "exited"
    BY <1>1, <1>7 DEF SettleDay, Settle, Notify
  <2> QED
    BY <1>1, <2>1, FoldKept DEF CallOf, Calling, Called, InSection
<1>8. CASE Protocol(i) /\ UNCHANGED <<day, branches>>
  BY <1>1, <1>8, ProtocolQuestion
<1> QED
  BY <1>2, <1>3, <1>4, <1>5, <1>6, <1>7, <1>8 DEF RunStep

LEMMA QuestionInit ==
    ASSUME RunInit
    PROVE  QuestionInv
BY DEF RunInit, Init, QuestionInv, FoldOf, CallOf, Calling, Called, InSection

LEMMA QuestionStep ==
    ASSUME IInv, AsksInnies, QuestionInv, [RunNext]_runVars
    PROVE  QuestionInv'
<1>1. CellsKept
  BY RunStepIsStep, SettledKept DEF CellsKept
<1>2. ASSUME NEW i \in Innies, RunStep(i) PROVE QuestionInv'
  <2>1. DOMAIN day' = Innies /\ DOMAIN branches' = Innies
    BY <1>2 DEF QuestionInv, RunStep, AskValues, ReadValues, AskBranches, ReadBranch,
                Resume, FinishDay, SettleDay
  <2>2. ASSUME NEW j \in Innies PROVE FoldOf(j)' /\ CallOf(j)'
    <3>1. CASE j = i
      BY <1>1, <1>2, <3>1, OwnQuestion
    <3>2. CASE j # i
      BY <1>1, <1>2, <3>2, OthersApart, ApartKept DEF QuestionInv
    <3> QED
      BY <3>1, <3>2
  <2> QED
    BY <2>1, <2>2 DEF QuestionInv
<1>3. CASE UNCHANGED <<vars, day, branches>>
  <2>1. \A j \in Innies : Apart(j)
    BY <1>3 DEF vars, Apart
  <2> QED
    BY <1>1, <1>3, <2>1, ApartKept DEF QuestionInv
<1> QED
  BY <1>2, <1>3 DEF RunNext, Over, runVars

-----------------------------------------------------------------------------
(***************************************************************************)
(* While nobody resolves, the threads follow a phase of the run.           *)
(***************************************************************************)

\* An Innie that waits in vain could not move in any state of the run that has
\* no more results than there are Cells settled.
LEMMA WaitsInVain ==
    ASSUME IInv, QuestionInv, NEW j \in Innies, Waits(j), StillWaits(j),
           NEW s, s.day[j] = day[j],
           \A t \in Innies : Open(s, t) \/ (Settled(t) /\ s.cell[t] = cell[t])
    PROVE  ~CanMove(s, j) /\ ~Ended(day[j])
<1> DEFINE ask == NextAsk(day[j])
<1>1. pc[j] \in Calling /\ CallOf(j) /\ want[j] \in Seq(Innies) /\ need[j] \in SUBSET Innies
  BY DEF Waits, WaitLocations, Calling, InSection, QuestionInv, IInv, TypeOK
<1>2. CASE InAwaitAny(j)
  <2>1. /\ ask.for = "fold" /\ Underway(j) /\ want[j] = branches[j].remaining
        /\ \A t \in Members(want[j]) : ~Settled(t)
    BY <1>1, <1>2 DEF CallOf, StillWaits
  <2>2. /\ Members(want[j]) \subseteq Members(ask.ids) /\ ask.ids \in Seq(Innies)
        /\ \A t \in Members(ask.ids) \ Members(want[j]) : ~Absorbs(ask, cell[t])
    BY <2>1 DEF Underway, Looked
  <2>3. PICK t \in Members(want[j]) : TRUE
    <3>1. 1 \in DOMAIN want[j]
      BY <1>1, <1>2, EmptySeq, LenProperties DEF InAwaitAny
    <3> QED
      BY <3>1 DEF Members
  <2>4. PICK k \in DOMAIN ask.ids : ask.ids[k] = t
    BY <2>2, <2>3 DEF Members
  <2>5. t \in Innies /\ ~Settled(t)
    BY <1>1, <2>1, <2>3, MembersAre
  <2>6. ~AllIn(s, ask.ids)
    BY <2>4, <2>5 DEF AllIn
  <2>7. ~Absorbed(s, ask)
    <3> SUFFICES ASSUME NEW m \in DOMAIN ask.ids, ~Open(s, ask.ids[m]),
                        Absorbs(ask, s.cell[ask.ids[m]])
                 PROVE  FALSE
      BY DEF Absorbed
    <3>1. ask.ids[m] \in Members(ask.ids) /\ ask.ids[m] \in Innies
      BY <2>2, MembersAre
    <3>2. Settled(ask.ids[m]) /\ s.cell[ask.ids[m]] = cell[ask.ids[m]]
      BY <3>1
    <3> QED
      BY <2>1, <2>2, <3>1, <3>2
  <2>8. ~CanMove(s, j)
    BY <2>1, <2>6, <2>7 DEF CanMove
  <2> QED
    BY <2>1, <2>8, QuestionKinds
<1>3. CASE ~InAwaitAny(j)
  <2>1. ask.for = "all" /\ need[j] = Members(ask.ids)
    BY <1>1, <1>3 DEF CallOf
  <2>2. PICK t \in Members(ask.ids) : ~Settled(t)
    BY <1>3, <2>1 DEF StillWaits, AllSettled
  <2>3. Open(s, t)
    BY <1>1, <2>1, <2>2
  <2>4. ~AllIn(s, ask.ids)
    BY <2>2, <2>3 DEF AllIn, Members
  <2>5. ~CanMove(s, j)
    BY <2>1, <2>4 DEF CanMove
  <2> QED
    BY <2>1, <2>5, QuestionKinds
<1> QED
  BY <1>2, <1>3

\* When every unsettled Innie waits in vain, the threads have caught up with
\* the last state of the phase.
LEMMA CaughtUp ==
    ASSUME IInv, QuestionInv,
           NEW p, NEW N, NEW b \in Nat, NEW e \in Nat, Phase(p, N, b, e), Follows(p, b, e),
           \A j \in Innies : ~Settled(j) => Waits(j) /\ StillWaits(j)
    PROVE  \A j \in Innies : /\ cell[j] = p[e].cell[j]
                             /\ ~Settled(j) => day[j] = p[e].day[j]
<1> DEFINE S == {m \in b..e : \A j \in Innies :
                    ~Settled(j) => \E n \in m..e : day[j] = p[n].day[j]}
<1>1. b \in S /\ b <= e
  BY DEF Phase, Follows
<1>2. \A j \in Innies : ~Open(p[b], j) => Settled(j)
  BY DEF Follows
<1>3. ASSUME NEW m \in S, NEW t \in Innies, ~Settled(t) PROVE Open(p[m], t)
  <2>1. Open(p[b], t)
    BY <1>2, <1>3
  <2>2. PICK n \in m..e : day[t] = p[n].day[t]
    BY <1>3
  <2>3. Open(p[m], t) \/ (Ended(p[m].day[t]) /\ p[m].cell[t] = Outcome(p[m].day[t]))
    BY <2>1, PhaseEnds
  <2>4. SUFFICES ASSUME ~Open(p[m], t) PROVE FALSE
    OBVIOUS
  <2>5. p[n].day[t] = p[m].day[t]
    <3>1. m \in b..e /\ n \in m..e
      OBVIOUS
    <3> HIDE DEF S
    <3> QED
      BY <2>4, <3>1, PhaseKeeps
  <2>6. Ended(day[t])
    BY <2>2, <2>3, <2>4, <2>5
  <2>7. NextAsk(day[t]).for = "nothing"
    BY <2>6, QuestionKinds
  <2>8. pc[t] \in Calling /\ CallOf(t)
    BY <1>3 DEF Waits, WaitLocations, Calling, InSection, QuestionInv
  <2> QED
    BY <2>7, <2>8 DEF CallOf
<1>4. ASSUME NEW m \in S, NEW t \in Innies
      PROVE  Open(p[m], t) \/ (Settled(t) /\ p[m].cell[t] = cell[t])
  <2> SUFFICES ASSUME ~Open(p[m], t) PROVE Settled(t) /\ p[m].cell[t] = cell[t]
    OBVIOUS
  <2>1. Settled(t)
    BY <1>3
  <2>2. e \in m..e /\ m \in b..e
    OBVIOUS
  <2>3. p[e].cell[t] = p[m].cell[t]
    BY <2>2, PhaseKeeps
  <2> QED
    BY <2>1, <2>3 DEF Follows
<1>5. ASSUME NEW m \in b..(e - 1), m \in S PROVE m + 1 \in S
  <2>1. m + 1 \in b..e /\ p[m + 1] = Round(p[m])
    BY DEF Phase
  <2>2. ASSUME NEW j \in Innies, ~Settled(j)
        PROVE  \E n \in (m + 1)..e : day[j] = p[n].day[j]
    <3>1. PICK n \in m..e : day[j] = p[n].day[j]
      BY <1>5, <2>2
    <3>2. CASE n # m
      BY <3>1, <3>2
    <3>3. CASE n = m
      <4>1. ~CanMove(p[m], j)
        BY <1>4, <1>5, <2>2, <3>1, <3>3, WaitsInVain
      <4>2. p[m + 1].day[j] = day[j]
        BY <2>1, <3>1, <3>3, <4>1, RoundIs, ZenonT(30)
      <4> QED
        BY <2>1, <4>2
    <3> QED
      BY <3>2, <3>3
  <2> QED
    BY <2>1, <2>2
<1>6. e \in S
  <2> HIDE DEF S
  <2>1. b..e \subseteq S
    BY <1>1, <1>5, UpTo
  <2> QED
    BY <1>1, <2>1
<1>7. ASSUME NEW j \in Innies PROVE cell[j] = p[e].cell[j]
  <2>1. CASE Settled(j)
    BY <2>1 DEF Follows
  <2>2. CASE ~Settled(j)
    BY <1>3, <1>6, <2>2 DEF Open, Settled
  <2> QED
    BY <2>1, <2>2
<1>8. ASSUME NEW j \in Innies, ~Settled(j) PROVE day[j] = p[e].day[j]
  <2>1. PICK n \in e..e : day[j] = p[n].day[j]
    BY <1>6, <1>8
  <2>2. n = e
    OBVIOUS
  <2> QED
    BY <2>1, <2>2
<1> QED
  BY <1>7, <1>8

\* Then the graph says what that state says of who waits for whom.
LEMMA SameGraph ==
    ASSUME IInv, QuestionInv,
           \A j \in Innies : ~Settled(j) => Waits(j) /\ StillWaits(j),
           NEW s,
           \A j \in Innies : cell[j] = s.cell[j],
           \A j \in Innies : ~Settled(j) => day[j] = s.day[j]
    PROVE  SameWaits(graph, WaitsOf(s))
<1> DEFINE h == WaitsOf(s)
           free == {j \in Innies : ~Settled(j)}
<1>1. \A j \in Innies : Open(s, j) <=> ~Settled(j)
  BY DEF Open, Settled
<1>2. ASSUME NEW j \in Innies, Settled(j)
      PROVE  /\ graph.and[j] = {} /\ graph.or[j] = <<>>
             /\ h.and[j] = {} /\ h.or[j] = <<>>
  <2>1. ~Waits(j) /\ GraphOf(j)
    BY <1>2 DEF IInv, LocalInv, SettledOf, Waits, WaitLocations
  <2> QED
    BY <1>1, <1>2, <2>1, WaitsOfIs DEF GraphOf
<1>3. ASSUME NEW j \in Innies, ~Settled(j)
      PROVE  /\ graph.or[j] = h.or[j]
             /\ graph.and[j] \cap free = h.and[j] \cap free
             /\ graph.and[j] # {} \/ graph.or[j] # <<>>
             /\ h.and[j] # {} \/ h.or[j] # <<>>
  <2> DEFINE ask == NextAsk(day[j])
             pending == {t \in Innies : Open(s, t) /\ \E k \in DOMAIN ask.ids : ask.ids[k] = t}
  <2>1. /\ h.and[j] = IF ask.for = "all" THEN pending ELSE {}
        /\ h.or[j] = IF ask.for = "fold" THEN <<pending>> ELSE <<>>
    <3> DEFINE asked == NextAsk(s.day[j])
               due == {t \in Innies : Open(s, t) /\ \E k \in DOMAIN asked.ids : asked.ids[k] = t}
    <3>1. /\ h.and[j] = IF Open(s, j) /\ asked.for = "all" THEN due ELSE {}
          /\ h.or[j] = IF Open(s, j) /\ asked.for = "fold" THEN <<due>> ELSE <<>>
      BY WaitsOfIs
    <3>2. asked = ask /\ Open(s, j)
      BY <1>1, <1>3
    <3> HIDE DEF ask, asked, h
    <3> QED
      BY <3>1, <3>2
  <2>2. pending = {t \in Innies : ~Settled(t) /\ t \in Members(ask.ids)}
    BY <1>1 DEF Members
  <2>3. /\ pc[j] \in Calling /\ CallOf(j) /\ Waits(j) /\ StillWaits(j) /\ GraphOf(j)
        /\ want[j] \in Seq(Innies) /\ need[j] \in SUBSET Innies
    BY <1>3 DEF Waits, WaitLocations, Calling, InSection, QuestionInv, IInv, TypeOK, LocalInv
  <2> HIDE DEF pending
  <2>4. CASE InAwaitAny(j)
    <3>1. /\ ask.for = "fold" /\ Underway(j) /\ want[j] = branches[j].remaining
          /\ \A t \in Members(want[j]) : ~Settled(t)
      BY <2>3, <2>4 DEF CallOf, StillWaits
    <3>2. pending = Members(want[j])
      <4>1. Members(want[j]) \subseteq Innies
        BY <2>3, MembersAre
      <4>2. /\ Members(want[j]) \subseteq Members(ask.ids)
            /\ \A t \in Members(ask.ids) \ Members(want[j]) : Settled(t)
        BY <3>1 DEF Underway, Looked, Settled
      <4> QED
        BY <2>2, <3>1, <4>1, <4>2
    <3>3. graph.and[j] = {} /\ graph.or[j] = <<Members(want[j])>>
      BY <2>3, <2>4 DEF GraphOf
    <3>4. h.and[j] = {} /\ h.or[j] = <<Members(want[j])>>
      BY <2>1, <3>1, <3>2
    <3> QED
      BY <3>3, <3>4
  <2>5. CASE ~InAwaitAny(j)
    <3>1. ask.for = "all" /\ need[j] = Members(ask.ids)
      BY <2>3, <2>5 DEF CallOf
    <3>2. /\ graph.or[j] = <<>> /\ graph.and[j] # {} /\ graph.and[j] \subseteq need[j]
          /\ \A t \in need[j] \ graph.and[j] : Settled(t)
      BY <2>3, <2>5 DEF GraphOf
    <3>3. h.and[j] = pending /\ h.or[j] = <<>>
      BY <2>1, <3>1
    <3>4. pending # {}
      BY <2>2, <2>3, <2>5, <3>1 DEF StillWaits, AllSettled
    <3>5. graph.and[j] \cap free = pending \cap free
      BY <2>2, <2>3, <3>1, <3>2
    <3> QED
      BY <3>2, <3>3, <3>4, <3>5
  <2> QED
    BY <2>4, <2>5
<1>4. Blocked(graph) = free /\ Blocked(h) = free
  BY <1>2, <1>3 DEF Blocked
<1>5. graph \in Graphs /\ h \in Graphs
  BY WaitsOfIs DEF IInv, TypeOK
<1>6. ASSUME NEW j \in Innies
      PROVE  graph.or[j] = h.or[j] /\ graph.and[j] \cap free = h.and[j] \cap free
  BY <1>2, <1>3
<1> QED
  BY <1>4, <1>5, <1>6 DEF SameWaits

-----------------------------------------------------------------------------
(***************************************************************************)
(* The steps of the threads, one kind at a time.                           *)
(***************************************************************************)

\* What the lemmas on steps assume: the invariants, and that the threads follow
\* the phase of p from b to e.
Following(p, N, b, e) ==
    /\ IInv /\ WellAsked /\ QuestionInv
    /\ N \in Nat \ {0} /\ b \in 1..N /\ e \in 1..N
    /\ Phase(p, N, b, e) /\ Follows(p, b, e)

\* A step that touches neither Cells nor workdays.
LEMMA IdleFollows ==
    ASSUME NEW p, NEW b, NEW e, Follows(p, b, e), cell' = cell, day' = day
    PROVE  Follows(p, b, e)'
BY DEF Follows, Settled

\* A thread publishes what its workday left: so does the run.
LEMMA SettleFollows ==
    ASSUME NEW p, NEW N, NEW b, NEW e, Following(p, N, b, e),
           NEW i \in Innies, SettleDay(i)
    PROVE  Follows(p, b, e)'
<1>1. /\ pc[i] = "settle" /\ day' = day /\ cell \in [Innies -> Results \cup {Pending}]
      /\ b \in Nat /\ e \in Nat
  BY DEF SettleDay, Settle, Following, IInv, TypeOK
<1>2. ~Settled(i) /\ Ended(day[i])
  BY <1>1 DEF Following, IInv, LocalInv, SettledOf, QuestionInv, CallOf
<1>3. cell' = [cell EXCEPT ![i] = Outcome(day[i])] /\ Outcome(day[i]) # Pending
  BY <1>2, CellsAssumption DEF SettleDay, Settle
<1>4. PICK n \in b..e : day[i] = p[n].day[i]
  BY <1>2 DEF Following, Follows
<1>5. Open(p[b], i)
  BY <1>2 DEF Following, Follows
<1>6. p[e].cell[i] = Outcome(day[i])
  <2>1. Phase(p, N, b, e) /\ Ended(p[n].day[i])
    BY <1>2, <1>4 DEF Following
  <2>2. p[e].cell[i] = Outcome(p[n].day[i])
    BY <1>1, <1>5, <2>1, Published
  <2> QED
    BY <1>4, <2>2
<1>7. \A j \in Innies : cell'[j] = IF j = i THEN Outcome(day[i]) ELSE cell[j]
  BY <1>1, <1>3
<1> QED
  BY <1>1, <1>3, <1>6, <1>7 DEF Following, Follows, Settled

\* A thread that moves on goes where the run goes.
LEMMA MoveFollows ==
    ASSUME NEW p, NEW b, NEW e, Follows(p, b, e), cell' = cell,
           NEW i \in Innies, \A j \in Innies : j # i => day'[j] = day[j],
           \E n \in b..e : day'[i] = p[n].day[i]
    PROVE  Follows(p, b, e)'
BY DEF Follows, Settled

\* The results a thread has seen are those of every state of the phase that
\* has them at all.
LEMMA SeenInPhase ==
    ASSUME NEW p, NEW N, NEW b, NEW e, Following(p, N, b, e),
           NEW k \in b..e, NEW t \in Innies
    PROVE  /\ ~Open(p[k], t) => p[k].cell[t] = p[e].cell[t]
           /\ Settled(t) => ~Open(p[e], t) /\ cell[t] = p[e].cell[t]
<1>1. b \in Nat /\ e \in Nat /\ e \in k..e
  BY DEF Following
<1>2. ~Open(p[k], t) => p[e].cell[t] = p[k].cell[t]
  BY <1>1, PhaseKeeps DEF Following
<1> QED
  BY <1>2 DEF Following, Follows, Settled, Open

LEMMA ReadValuesFollows ==
    ASSUME NEW p, NEW N, NEW b, NEW e, Following(p, N, b, e),
           NEW i \in Innies, ReadValues(i)
    PROVE  Follows(p, b, e)'
<1> DEFINE d == day[i]
           ids == NextAsk(d).ids
<1>1. /\ pc[i] = "read" /\ NextAsk(d).for = "all" /\ cell' = cell
      /\ day' = [day EXCEPT ![i] = AnswerAll(d, ids, cell)]
      /\ b \in Nat /\ e \in Nat
  BY DEF ReadValues, Read, Resume, Following
<1>2. ids \in Seq(Innies)
  BY <1>1 DEF Following, WellAsked, AsksInnies
<1>3. ~Settled(i) /\ \A t \in Members(ids) : Settled(t)
  BY <1>1 DEF Following, IInv, LocalInv, SettledOf, PromiseOf, QuestionInv, CallOf, Called, AllSettled
<1>4. ~Ended(d)
  BY <1>1, QuestionKinds
<1>5. PICK n \in b..e : d = p[n].day[i]
  BY <1>3 DEF Following, Follows
<1>6. Open(p[b], i)
  BY <1>3 DEF Following, Follows
<1>7. \A k \in DOMAIN ids : Settled(ids[k]) /\ ids[k] \in Innies
  BY <1>2, <1>3, MembersAre
<1>8. AllIn(p[e], ids)
  BY <1>1, <1>5, <1>7, SeenInPhase DEF AllIn
<1>9. ASSUME Open(p[e], i), p[e].day[i] = p[n].day[i] PROVE CanMove(p[e], i)
  BY <1>1, <1>5, <1>8, <1>9 DEF CanMove
<1>10. PICK k \in n..(e - 1) : /\ p[k].day[i] = d /\ CanMove(p[k], i)
                               /\ p[k + 1].day[i] = Moved(p[k], i)
  BY <1>1, <1>4, <1>5, <1>6, <1>9, WillMove DEF Following
<1>11. AllIn(p[k], ids) /\ Moved(p[k], i) = AnswerAll(d, ids, p[k].cell)
  BY <1>1, <1>10 DEF CanMove, Moved
<1>12. \A m \in DOMAIN ids : p[k].cell[ids[m]] = cell[ids[m]]
  <2>1. k \in b..e
    BY <1>1, <1>5, <1>10
  <2> QED
    BY <1>7, <1>11, <2>1, SeenInPhase DEF AllIn
<1>13. AnswerAll(d, ids, p[k].cell) = AnswerAll(d, ids, cell)
  BY <1>2, <1>12, SameAnswerAll
<1>14. k + 1 \in b..e
  BY <1>1, <1>5, <1>10
<1>15. day'[i] = p[k + 1].day[i] /\ \A j \in Innies : j # i => day'[j] = day[j]
  BY <1>1, <1>10, <1>11, <1>13 DEF Following, QuestionInv
<1> QED
  BY <1>1, <1>14, <1>15, MoveFollows DEF Following

\* After the last branch, what the thread has collected is what a fold over all
\* the results gives.
LEMMA LastBranch ==
    ASSUME NEW d, NEW b, NEW c, Looked(d, b, c), ListsOnce(NextAsk(d).ids),
           NEW t \in Members(b.remaining), c[t] # Pending, ~Absorbs(NextAsk(d), c[t]),
           Seqs!RemoveFirst(b.remaining, t) = <<>>
    PROVE  LET ask      == NextAsk(d)
               deferred == b.deferred \cup
                    (IF c[t].kind = "value" THEN {} ELSE {Position(ask.ids, t)})
               blamed   == ask.ids[Sets!Min(deferred)]
           IN  /\ FoldAll(d, ask, c) = IF deferred = {}
                                       THEN AnswerFold(d, ask.cond.quant # "ANY")
                                       ELSE Raise(d, FaultOf(blamed, c[blamed]))
               /\ \A u \in Members(ask.ids) : c[u] # Pending /\ ~Absorbs(ask, c[u])
<1> DEFINE ask == NextAsk(d)
           ids == ask.ids
           rest == Seqs!RemoveFirst(b.remaining, t)
           deferred == b.deferred \cup
                (IF c[t].kind = "value" THEN {} ELSE {Position(ids, t)})
           after == [remaining |-> rest, deferred |-> deferred]
           faulty == {k \in DOMAIN ids : c[ids[k]].kind # "value"}
<1>1. Looked(d, after, c)
  BY GoesOn
<1>2. after.remaining = <<>> /\ after.deferred = deferred
  OBVIOUS
<1>3. Members(<<>>) = {}
  BY DEF Members
<1> HIDE DEF after, deferred
<1>4. deferred = faulty
  BY <1>1, <1>2, <1>3 DEF Looked
<1>5. \A u \in Members(ids) : c[u] # Pending /\ ~Absorbs(ask, c[u])
  BY <1>1, <1>2, <1>3 DEF Looked
<1>6. FoldAll(d, ask, c) = IF faulty = {} THEN AnswerFold(d, ask.cond.quant # "ANY")
                           ELSE Raise(d, FaultOf(ids[Sets!Min(faulty)], c[ids[Sets!Min(faulty)]]))
  BY DEF FoldAll, Sets!Min
<1> HIDE DEF faulty
<1>7. FoldAll(d, ask, c) = IF deferred = {} THEN AnswerFold(d, ask.cond.quant # "ANY")
                           ELSE Raise(d, FaultOf(ids[Sets!Min(deferred)], c[ids[Sets!Min(deferred)]]))
  BY <1>4, <1>6
<1> QED
  BY <1>5, <1>7 DEF deferred

LEMMA ReadBranchFollows ==
    ASSUME NEW p, NEW N, NEW b, NEW e, Following(p, N, b, e),
           NEW i \in Innies, RunStep(i), ReadBranch(i)
    PROVE  Follows(p, b, e)'
<1> DEFINE d == day[i]
           ask == NextAsk(d)
           ids == ask.ids
           old == branches[i]
           rest(t) == Seqs!RemoveFirst(old.remaining, t)
           deferred(t) == old.deferred \cup
                (IF cell[t].kind = "value" THEN {} ELSE {Position(ids, t)})
           blamed(t) == ids[Sets!Min(deferred(t))]
<1>1. /\ IInv /\ QuestionInv /\ Follows(p, b, e) /\ Phase(p, N, b, e)
      /\ b \in Nat /\ e \in Nat
  BY DEF Following
<1>2. \A j \in Innies : j # i => day'[j] = day[j]
  BY <1>1, OthersApart DEF QuestionInv, Apart
<1>3. pc[i] = "read" /\ ask.for = "fold" /\ Looked(d, old, cell) /\ cell' = cell
  BY <1>1, ReadBranchIs DEF Underway
<1>4. PICK t \in Members(old.remaining) :
        /\ t \in Innies /\ Settled(t)
        /\ \/ Absorbs(ask, cell[t]) /\ day'[i] = AnswerFold(d, ask.cond.quant = "ANY")
           \/ day'[i] = d
           \/ /\ ~Absorbs(ask, cell[t]) /\ rest(t) = <<>>
              /\ day'[i] = IF deferred(t) = {}
                           THEN AnswerFold(d, ask.cond.quant # "ANY")
                           ELSE Raise(d, FaultOf(blamed(t), cell[blamed(t)]))
  BY <1>1, ReadBranchIs
<1>5. /\ ids \in Seq(Innies) /\ \A k \in DOMAIN ids : ids[k] \in Innies /\ ids[k] \in Members(ids)
      /\ t \in Members(ids)
  BY <1>3, MembersAre DEF Looked
<1>6. ~Settled(i) /\ ~Ended(d)
  BY <1>1, <1>3, QuestionKinds DEF IInv, LocalInv, SettledOf
<1>7. PICK n \in b..e : d = p[n].day[i]
  BY <1>1, <1>6 DEF Follows
<1>8. Open(p[b], i)
  BY <1>1, <1>6 DEF Follows
<1>9. PICK m \in DOMAIN ids : ids[m] = t
  BY <1>5 DEF Members
<1>10. ASSUME Absorbed(p[e], ask) \/ AllIn(p[e], ids)
       PROVE  \E k \in n..(e - 1) : /\ p[k].day[i] = d /\ k \in b..e /\ k + 1 \in b..e
                                    /\ Absorbed(p[k], ask) \/ AllIn(p[k], ids)
                                    /\ p[k + 1].day[i] = IF Absorbed(p[k], ask)
                                            THEN AnswerFold(d, ask.cond.quant = "ANY")
                                            ELSE FoldAll(d, ask, p[k].cell)
  <2>1. Open(p[e], i) /\ p[e].day[i] = p[n].day[i] => CanMove(p[e], i)
    BY <1>3, <1>7, <1>10 DEF CanMove
  <2>2. ~Ended(p[n].day[i]) /\ n \in b..e /\ b \in Nat /\ e \in Nat /\ Phase(p, N, b, e)
    BY <1>1, <1>6, <1>7
  <2> HIDE DEF d, ask, ids
  <2>3. \E k \in n..(e - 1) : /\ p[k].day[i] = p[n].day[i] /\ CanMove(p[k], i)
                              /\ p[k + 1].day[i] = Moved(p[k], i)
    BY <1>8, <2>1, <2>2, WillMove
  <2>4. PICK k \in n..(e - 1) : /\ p[k].day[i] = p[n].day[i] /\ CanMove(p[k], i)
                                /\ p[k + 1].day[i] = Moved(p[k], i)
    BY <2>3
  <2> USE DEF d, ask, ids
  <2>5. NextAsk(p[k].day[i]) = ask /\ p[k].day[i] = d
    BY <1>7, <2>4
  <2>6. Absorbed(p[k], ask) \/ AllIn(p[k], ids)
    BY <1>3, <2>4, <2>5 DEF CanMove
  <2>7. Moved(p[k], i) = IF Absorbed(p[k], ask) THEN AnswerFold(d, ask.cond.quant = "ANY")
                         ELSE FoldAll(d, ask, p[k].cell)
    BY <1>3, <2>5 DEF Moved
  <2>8. k \in b..e /\ k + 1 \in b..e
    BY <1>1
  <2> QED
    BY <2>4, <2>5, <2>6, <2>7, <2>8
<1>11. ASSUME NEW k \in b..e, NEW q \in DOMAIN ids, Settled(ids[q]), ~Open(p[k], ids[q])
       PROVE  p[k].cell[ids[q]] = cell[ids[q]]
  BY <1>5, <1>11, SeenInPhase
<1>12. CASE day'[i] = d
  BY <1>1, <1>2, <1>3, <1>7, <1>12, MoveFollows
<1>13. CASE Absorbs(ask, cell[t]) /\ day'[i] = AnswerFold(d, ask.cond.quant = "ANY")
  <2>1. ~Open(p[e], ids[m]) /\ p[e].cell[ids[m]] = cell[t]
    <3>1. e \in b..e
      BY <1>1, <1>7
    <3>2. Settled(t) => ~Open(p[e], t) /\ cell[t] = p[e].cell[t]
      BY <1>4, <3>1, SeenInPhase
    <3> QED
      BY <1>4, <1>9, <3>2
  <2>2. Absorbed(p[e], ask)
    BY <1>9, <1>13, <2>1 DEF Absorbed
  <2>3. PICK k \in n..(e - 1) : /\ p[k].day[i] = d /\ k \in b..e /\ k + 1 \in b..e
                                /\ Absorbed(p[k], ask) \/ AllIn(p[k], ids)
                                /\ p[k + 1].day[i] = IF Absorbed(p[k], ask)
                                        THEN AnswerFold(d, ask.cond.quant = "ANY")
                                        ELSE FoldAll(d, ask, p[k].cell)
    BY <1>10, <2>2
  <2>4. Absorbed(p[k], ask)
    <3> SUFFICES ASSUME AllIn(p[k], ids) PROVE Absorbed(p[k], ask)
      BY <2>3
    <3>1. ~Open(p[k], ids[m])
      BY <1>9 DEF AllIn
    <3>2. p[k].cell[ids[m]] = cell[t]
      BY <1>4, <1>9, <1>11, <2>3, <3>1
    <3> QED
      BY <1>9, <1>13, <3>1, <3>2 DEF Absorbed
  <2>5. day'[i] = p[k + 1].day[i]
    BY <1>13, <2>3, <2>4
  <2> QED
    BY <1>1, <1>2, <1>3, <2>3, <2>5, MoveFollows
<1>14. CASE /\ ~Absorbs(ask, cell[t]) /\ rest(t) = <<>>
            /\ day'[i] = IF deferred(t) = {}
                         THEN AnswerFold(d, ask.cond.quant # "ANY")
                         ELSE Raise(d, FaultOf(blamed(t), cell[blamed(t)]))
  <2>1. /\ day'[i] = FoldAll(d, ask, cell)
        /\ \A u \in Members(ids) : cell[u] # Pending /\ ~Absorbs(ask, cell[u])
    <3>1. cell[t] # Pending /\ ~Absorbs(ask, cell[t]) /\ rest(t) = <<>>
      BY <1>4, <1>14 DEF Settled
    <3>2. ListsOnce(NextAsk(d).ids)
      BY <1>3 DEF Following, WellAsked
    <3>3. /\ FoldAll(d, ask, cell) = IF deferred(t) = {}
                                     THEN AnswerFold(d, ask.cond.quant # "ANY")
                                     ELSE Raise(d, FaultOf(blamed(t), cell[blamed(t)]))
          /\ \A u \in Members(ids) : cell[u] # Pending /\ ~Absorbs(ask, cell[u])
      BY <1>3, <3>1, <3>2, LastBranch
    <3> HIDE DEF deferred, blamed
    <3> QED
      BY <1>14, <3>3
  <2>2. \A q \in DOMAIN ids : Settled(ids[q]) /\ ~Absorbs(ask, cell[ids[q]])
    BY <1>5, <2>1 DEF Settled
  <2>3. AllIn(p[e], ids)
    BY <1>5, <1>7, <2>2, SeenInPhase DEF AllIn
  <2>4. PICK k \in n..(e - 1) : /\ p[k].day[i] = d /\ k \in b..e /\ k + 1 \in b..e
                                /\ Absorbed(p[k], ask) \/ AllIn(p[k], ids)
                                /\ p[k + 1].day[i] = IF Absorbed(p[k], ask)
                                        THEN AnswerFold(d, ask.cond.quant = "ANY")
                                        ELSE FoldAll(d, ask, p[k].cell)
    BY <1>10, <2>3
  <2>5. ~Absorbed(p[k], ask)
    BY <1>11, <2>2, <2>4 DEF Absorbed
  <2>6. \A q \in DOMAIN ids : p[k].cell[ids[q]] = cell[ids[q]]
    BY <1>11, <2>2, <2>4, <2>5 DEF AllIn
  <2>7. FoldAll(d, ask, p[k].cell) = FoldAll(d, ask, cell)
    BY <1>5, <2>6, SameFoldAll
  <2>8. day'[i] = p[k + 1].day[i]
    BY <2>1, <2>4, <2>5, <2>7
  <2> QED
    BY <1>1, <1>2, <1>3, <2>4, <2>8, MoveFollows
<1> QED
  BY <1>4, <1>12, <1>13, <1>14

\* Behind the gate the threads have caught up, and the run is deadlocked too.
LEMMA DetectMatches ==
    ASSUME NEW p, NEW N, NEW b, NEW e, Following(p, N, b, e),
           RunOf(p, N), Complete(ref),
           NEW i \in Innies, Detect(i), Quiescent, day' = day
    PROVE  \E m \in 1..N : Matches(p, m)'
<1>1. /\ IInv /\ QuestionInv /\ Follows(p, b, e) /\ Phase(p, N, b, e)
      /\ b \in Nat /\ e \in 1..N /\ e \in Nat
  BY DEF Following
<1>2. \A j \in Innies : ~Settled(j) => Waits(j) /\ StillWaits(j)
  <2> SUFFICES ASSUME NEW j \in Innies, ~Settled(j) PROVE Waits(j) /\ StillWaits(j)
    OBVIOUS
  <2>1. j \in Blocked(graph) /\ ~WaitSatisfied(j) /\ GraphOf(j)
    BY <1>1 DEF Quiescent, IInv, LocalInv
  <2> QED
    BY <2>1, BlockedIsWaiting, SatisfiedIsOver
<1>3. /\ \A j \in Innies : cell[j] = p[e].cell[j]
      /\ \A j \in Innies : ~Settled(j) => day[j] = p[e].day[j]
  <2>1. \A j \in Innies : /\ cell[j] = p[e].cell[j]
                          /\ ~Settled(j) => day[j] = p[e].day[j]
    <3>1. IInv /\ QuestionInv /\ b \in Nat /\ e \in Nat /\ Phase(p, N, b, e) /\ Follows(p, b, e)
      BY <1>1
    <3> QED
      BY <1>2, <3>1, CaughtUp
  <2> QED
    BY <2>1
<1>4. SameWaits(graph, WaitsOf(p[e]))
  BY <1>1, <1>2, <1>3, SameGraph
<1>5. e # N
  <2>1. PICK j \in Blocked(graph) : TRUE
    BY DEF Quiescent
  <2>2. j \in Innies /\ ~Settled(j)
    <3>1. j \in Innies /\ GraphOf(j) /\ SettledOf(j)
      BY <1>1, <2>1 DEF Blocked, IInv, LocalInv
    <3>2. Waits(j)
      BY <2>1, <3>1, BlockedIsWaiting
    <3> QED
      BY <3>1, <3>2 DEF SettledOf, Waits, WaitLocations
  <2>3. Open(p[e], j)
    BY <1>3, <2>2 DEF Open, Settled
  <2> QED
    BY <2>2, <2>3 DEF RunOf, RunFrom, Complete
<1>6. p[e + 1] = Stop(p[e]) /\ e + 1 \in 1..N
  BY <1>1, <1>5 DEF Phase, Following
<1>7. cell' = cell /\ graph' = graph
  BY DEF Detect
<1>8. Matches(p, e + 1)'
  BY <1>3, <1>4, <1>6, <1>7 DEF Matches, Stop, Settled
<1> QED
  BY <1>6, <1>8

\* Every step from a state that follows a phase.
LEMMA FreeStep ==
    ASSUME NEW p, NEW N, NEW b, NEW e, Following(p, N, b, e),
           RunOf(p, N), Complete(ref),
           \A j \in Innies : pc[j] # "resolve",
           NEW i \in Innies, RunStep(i)
    PROVE  Keeping(p, N)'
<1>1. /\ IInv /\ QuestionInv /\ Follows(p, b, e) /\ Phase(p, N, b, e)
      /\ b \in 1..N /\ e \in 1..N /\ pc \in [Innies -> Locations]
  BY DEF Following, IInv, TypeOK
<1>2. \A j \in Innies : j # i => pc'[j] # "resolve"
  BY <1>1, OthersApart DEF QuestionInv, Apart
<1>3. ASSUME pc'[i] # "resolve", Follows(p, b, e)' PROVE Keeping(p, N)'
  <2>1. Phase(p, N, b, e)' /\ ~(\E j \in Innies : pc'[j] = "resolve")
    BY <1>1, <1>2, <1>3 DEF Phase
  <2> QED
    BY <1>1, <1>3, <2>1 DEF Keeping
<1>4. ASSUME pc'[i] # "resolve", cell' = cell, day' = day PROVE Keeping(p, N)'
  BY <1>1, <1>3, <1>4, IdleFollows
<1>5. CASE AskValues(i)
  BY <1>1, <1>4, <1>5 DEF AskValues, AwaitInnies
<1>6. CASE ReadValues(i)
  BY <1>1, <1>3, <1>6, ReadValuesFollows DEF ReadValues, Read
<1>7. CASE AskBranches(i)
  BY <1>1, <1>4, <1>7 DEF AskBranches, AwaitAny
<1>8. CASE ReadBranch(i)
  BY <1>1, <1>3, <1>8, ReadBranchFollows DEF ReadBranch, Read
<1>9. CASE FinishDay(i)
  BY <1>1, <1>4, <1>9 DEF FinishDay, Finish
<1>10. CASE SettleDay(i)
  <2>1. pc'[i] = "exited"
    BY <1>1, <1>10 DEF SettleDay, Settle, Notify
  <2>2. Follows(p, b, e)'
    BY <1>10, SettleFollows
  <2> QED
    BY <1>3, <2>1, <2>2
<1>11. CASE Protocol(i) /\ UNCHANGED <<day, branches>>
  <2>1. CASE ScanHit(i) \/ ScanMiss(i)
    BY <1>1, <1>4, <1>11, <2>1 DEF ScanHit, ScanMiss
  <2>2. CASE RecheckAll(i) \/ RecheckAny(i)
    BY <1>1, <1>4, <1>11, <2>2 DEF RecheckAll, RecheckAny
  <2>3. CASE Wake(i) \/ AskCancelled(i)
    BY <1>1, <1>4, <1>11, <2>3 DEF Wake, AskCancelled
  <2>4. CASE Detect(i) /\ ~Quiescent
    BY <1>1, <1>4, <1>11, <2>4 DEF Detect
  <2>5. CASE Detect(i) /\ Quiescent
    <3>1. pc'[i] = "resolve"
      BY <1>1, <2>5 DEF Detect
    <3>2. \E m \in 1..N : Matches(p, m)'
      BY <1>11, <2>5, DetectMatches
    <3> QED
      BY <3>1, <3>2 DEF Keeping
  <2>6. ~ResolveCycle(i) /\ ~NoCycleLeft(i)
    BY DEF ResolveCycle, NoCycleLeft
  <2> QED
    BY <1>11, <2>1, <2>2, <2>3, <2>4, <2>5, <2>6 DEF Protocol
<1> QED
  BY <1>5, <1>6, <1>7, <1>8, <1>9, <1>10, <1>11 DEF RunStep

\* While somebody resolves, only he takes steps: he resolves what the run
\* resolves, and then both go on.
LEMMA ResolvingStep ==
    ASSUME NEW p, NEW N \in Nat \ {0}, NEW m \in 1..N, IInv, QuestionInv,
           RunOf(p, N), Complete(ref), Matches(p, m),
           NEW j \in Innies, pc[j] = "resolve",
           NEW i \in Innies, RunStep(i)
    PROVE  Keeping(p, N)'
<1>1. /\ lock = j /\ lock # NoOne /\ \A k \in Innies : pc[k] \in InSection => k = j
      /\ pc \in [Innies -> Locations]
  BY RegistryAssumption DEF IInv, LockInv, TypeOK, InSection
<1>2. i = j /\ pc[i] = "resolve" /\ Protocol(i) /\ UNCHANGED <<day, branches>>
  <2>1. ~AskValues(i) /\ ~ReadValues(i) /\ ~AskBranches(i) /\ ~ReadBranch(i)
    BY <1>1 DEF AskValues, AwaitInnies, ReadValues, Read, AskBranches, AwaitAny, ReadBranch
  <2>2. ~FinishDay(i) /\ ~SettleDay(i)
    BY <1>1 DEF FinishDay, Finish, SettleDay, Settle
  <2>3. Protocol(i) /\ UNCHANGED <<day, branches>>
    BY <2>1, <2>2 DEF RunStep
  <2>4. pc[i] \in InSection
    BY <1>1, <2>3 DEF Protocol, ScanHit, ScanMiss, Detect, ResolveCycle, NoCycleLeft,
                      RecheckAll, RecheckAny, Wake, AskCancelled, InSection
  <2> QED
    BY <1>1, <2>3, <2>4
<1>3. /\ p[m].stuck /\ SameWaits(graph, p[m].graph)
      /\ \A k \in Innies : cell[k] = p[m].cell[k]
      /\ \A k \in Innies : ~Settled(k) => day[k] = p[m].day[k]
  BY DEF Matches
<1>4. FindCycle(graph) = FindCycle(p[m].graph)
  BY <1>3, SameCycle
<1>5. m \in 1..(N - 1) /\ m + 1 \in 1..N /\ p[m + 1] = Successor(p[m])
  <2>1. m # N
    BY <1>3 DEF RunOf, RunFrom, Complete
  <2> QED
    BY <2>1 DEF RunOf, RunFrom
<1>6. CASE ResolveCycle(i)
  <2> DEFINE X == FindCycle(graph)
  <2>1. /\ X # {} /\ graph' = Clear(graph, X) /\ pc'[i] = "resolve"
        /\ \A k \in Innies : cell'[k] = IF k \in X /\ ~Settled(k) THEN DeadlockResult ELSE cell[k]
    BY <1>1, <1>2, <1>6 DEF ResolveCycle, Notify
  <2>2. p[m + 1] = Unwork(p[m])
    BY <1>3, <1>4, <1>5, <2>1 DEF Successor
  <2>3. /\ p[m + 1].stuck /\ p[m + 1].day = p[m].day
        /\ p[m + 1].graph = Clear(p[m].graph, X)
        /\ \A k \in Innies : p[m + 1].cell[k] = IF k \in X THEN DeadlockResult ELSE p[m].cell[k]
    BY <1>4, <2>2 DEF Unwork
  <2>4. ASSUME NEW k \in X PROVE k \in Innies /\ ~Settled(k)
    <3>1. k \in Blocked(graph)
      BY CycleIsStuck
    <3>2. k \in Innies /\ GraphOf(k) /\ SettledOf(k)
      BY <3>1 DEF Blocked, IInv, LocalInv
    <3>3. Waits(k)
      BY <3>1, <3>2, BlockedIsWaiting
    <3> QED
      BY <3>2, <3>3 DEF SettledOf, Waits, WaitLocations
  <2>5. SameWaits(graph', p[m + 1].graph)
    BY <1>3, <2>1, <2>3, SameWhenCleared
  <2> HIDE DEF X
  <2>6. \A k \in Innies : cell'[k] = p[m + 1].cell[k]
    BY <1>3, <2>1, <2>3, <2>4
  <2>7. ASSUME NEW k \in Innies, cell'[k] = Pending PROVE day'[k] = p[m + 1].day[k]
    <3>1. ~Settled(k)
      BY <2>1, <2>7, CellsAssumption DEF Settled
    <3> QED
      BY <1>2, <1>3, <2>3, <3>1
  <2>8. Matches(p, m + 1)'
    BY <2>3, <2>5, <2>6, <2>7 DEF Matches, Settled
  <2> QED
    BY <1>5, <2>1, <2>8 DEF Keeping
<1>7. CASE NoCycleLeft(i)
  <2>1. /\ FindCycle(graph) = {} /\ cell' = cell /\ pc'[i] = "recheck"
        /\ \A k \in Innies : k # i => pc'[k] = pc[k]
    BY <1>1, <1>7 DEF NoCycleLeft
  <2>2. PICK b \in 1..N : b = m + 1
    BY <1>5
  <2>3. p[b] = GoOn(p[m])
    BY <1>3, <1>4, <1>5, <2>1, <2>2 DEF Successor
  <2>4. ~p[b].stuck /\ p[b].cell = p[m].cell /\ p[b].day = p[m].day
    BY <2>3 DEF GoOn
  <2>5. PICK e \in 1..N : Phase(p, N, b, e)
    BY <2>4, PhaseFrom DEF RunOf, RunFrom
  <2>6. b \in b..e /\ e \in b..e /\ e \in Nat /\ b \in Nat
    BY <2>5 DEF Phase
  <2>7. ASSUME NEW k \in Innies PROVE Settled(k) <=> ~Open(p[b], k)
    BY <1>3, <2>4 DEF Settled, Open
  <2>8. ASSUME NEW k \in Innies, Settled(k) PROVE cell[k] = p[e].cell[k]
    <3>1. p[e].cell[k] = p[b].cell[k]
      BY <2>5, <2>6, <2>7, <2>8, PhaseKeeps
    <3> QED
      BY <1>3, <2>4, <3>1
  <2>9. ASSUME NEW k \in Innies, ~Settled(k) PROVE \E n \in b..e : day[k] = p[n].day[k]
    BY <1>3, <2>4, <2>6, <2>9
  <2>10. Follows(p, b, e)
    BY <2>7, <2>8, <2>9 DEF Follows
  <2>11. Follows(p, b, e)' /\ Phase(p, N, b, e)'
    BY <1>2, <2>1, <2>5, <2>10, IdleFollows DEF Phase
  <2>12. ~(\E k \in Innies : pc'[k] = "resolve")
    BY <1>1, <1>2, <2>1 DEF InSection
  <2> QED
    BY <2>11, <2>12 DEF Keeping
<1>8. ResolveCycle(i) \/ NoCycleLeft(i)
  BY <1>2 DEF Protocol, ScanHit, ScanMiss, Detect, RecheckAll, RecheckAny, Wake, AskCancelled
<1> QED
  BY <1>6, <1>7, <1>8

-----------------------------------------------------------------------------
(***************************************************************************)
(* Both together.                                                          *)
(***************************************************************************)

LEMMA BothStarts ==
    ASSUME BothInit
    PROVE  BothInv
<1> DEFINE p == [k \in 1..1 |-> ref]
<1>1. RunOf(p, 1)
  BY DEF BothInit, RunOf, RunFrom
<1>2. Waiting(p)
  BY DEF BothInit, RunInit, Init, Waiting, StartOf, Settled
<1>3. Complete(ref) => Keeping(p, 1)
  <2> SUFFICES ASSUME Complete(ref) PROVE Keeping(p, 1)
    OBVIOUS
  <2>1. PICK e \in 1..1 : /\ Phase(p, 1, 1, e) /\ 1 \in 1..e
                          /\ \A i \in Innies : Open(p[1], i)
    BY <1>1, FirstPhase DEF RunOf, RunFrom
  <2>2. Follows(p, 1, e)
    BY <1>2, <2>1 DEF Waiting, Follows
  <2> QED
    BY <1>2, <2>1, <2>2 DEF Waiting, Keeping
<1> QED
  BY <1>1, <1>2, <1>3 DEF BothInv

LEMMA ComputeKeeps ==
    ASSUME BothInv, Compute
    PROVE  BothInv'
<1>1. PICK N \in Nat \ {0} : \E p : RunOf(p, N) /\ Waiting(p)
  BY DEF BothInv, Compute
<1>2. PICK p : RunOf(p, N) /\ Waiting(p)
  BY <1>1
<1>3. PICK r : r = ref'
  OBVIOUS
<1>4. /\ ~Complete(ref) /\ r = Successor(ref)
      /\ UNCHANGED <<pc, cell, day, schedule>>
  BY <1>3 DEF Compute, runVars, vars
<1>5. PICK M \in Nat \ {0} : M = N + 1
  OBVIOUS
<1> DEFINE q == [k \in 1..M |-> IF k = M THEN r ELSE p[k]]
<1>6. q[1] = p[1] /\ q[M] = r
  BY <1>5
<1>7. ASSUME NEW k \in 1..(M - 1) PROVE ~Complete(q[k]) /\ q[k + 1] = Successor(q[k])
  <2>1. CASE k = N
    BY <1>2, <1>4, <1>5, <2>1 DEF RunOf, RunFrom
  <2>2. CASE k # N
    <3>1. k \in 1..(N - 1) /\ q[k] = p[k] /\ q[k + 1] = p[k + 1]
      BY <1>5, <2>2
    <3> QED
      BY <1>2, <3>1 DEF RunOf, RunFrom
  <2> QED
    BY <2>1, <2>2
<1>8. PICK programs : programs = schedule /\ q[1] = StartOf(programs)
  BY <1>2, <1>6 DEF RunOf, RunFrom
<1> HIDE DEF q
<1>9. RunOf(q, M)'
  BY <1>3, <1>4, <1>6, <1>7, <1>8 DEF RunOf, RunFrom
<1>10. Waiting(q)'
  BY <1>2, <1>4, <1>6 DEF Waiting, Settled
<1>11. ASSUME Complete(ref)' PROVE Keeping(q, M)'
  <2>1. Complete(q[M])
    BY <1>3, <1>6, <1>11 DEF Complete
  <2>2. PICK e \in 1..M : /\ Phase(q, M, 1, e) /\ 1 \in 1..e
                          /\ \A i \in Innies : Open(q[1], i)
    BY <1>7, <1>8, <2>1, FirstPhase
  <2>3. Follows(q, 1, e)'
    BY <1>10, <2>2 DEF Waiting, Follows
  <2>4. Phase(q, M, 1, e)'
    BY <2>2 DEF Phase
  <2> QED
    BY <1>10, <2>2, <2>3, <2>4 DEF Waiting, Keeping
<1> QED
  BY <1>9, <1>10, <1>11 DEF BothInv

LEMMA ThreadsKeep ==
    ASSUME IInv, WellAsked, QuestionInv, BothInv,
           RunThreads \/ UNCHANGED bothVars
    PROVE  BothInv'
<1>1. PICK N \in Nat \ {0} : \E p : /\ RunOf(p, N)
                                    /\ IF Complete(ref) THEN Keeping(p, N) ELSE Waiting(p)
  BY DEF BothInv
<1>2. PICK p : RunOf(p, N) /\ IF Complete(ref) THEN Keeping(p, N) ELSE Waiting(p)
  BY <1>1
<1>3. ref' = ref /\ schedule' = schedule
  BY DEF RunThreads, RunNext, RunStep, bothVars, runVars
<1>4. RunOf(p, N)' /\ (Complete(ref)' <=> Complete(ref))
  BY <1>2, <1>3 DEF RunOf, RunFrom
<1>5. CASE RunThreads /\ \E i \in Innies : RunStep(i)
  <2>1. Complete(ref) /\ Keeping(p, N)
    BY <1>2, <1>5 DEF RunThreads
  <2>2. PICK i \in Innies : RunStep(i)
    BY <1>5
  <2>3. CASE \E j \in Innies : pc[j] = "resolve"
    <3>1. PICK j \in Innies : pc[j] = "resolve"
      BY <2>3
    <3>2. PICK m \in 1..N : Matches(p, m)
      BY <2>1, <2>3 DEF Keeping
    <3> QED
      BY <1>2, <1>4, <2>1, <2>2, <3>1, <3>2, ResolvingStep DEF BothInv
  <2>4. CASE \A j \in Innies : pc[j] # "resolve"
    <3>1. PICK b \in 1..N : \E e \in 1..N : Phase(p, N, b, e) /\ Follows(p, b, e)
      BY <2>1, <2>4 DEF Keeping
    <3>2. PICK e \in 1..N : Phase(p, N, b, e) /\ Follows(p, b, e)
      BY <3>1
    <3>3. Following(p, N, b, e)
      BY <3>2 DEF Following
    <3>4. Keeping(p, N)'
      BY <1>2, <2>1, <2>2, <2>4, <3>3, FreeStep
    <3> QED
      BY <1>4, <2>1, <3>4 DEF BothInv
  <2> QED
    BY <2>3, <2>4
<1>6. CASE UNCHANGED <<cell, graph, pc, day>>
  <2>1. Keeping(p, N)' <=> Keeping(p, N)
    BY <1>6 DEF Keeping, Matches, Follows, Phase, Settled
  <2>2. Waiting(p)' <=> Waiting(p)
    BY <1>6 DEF Waiting, Settled
  <2> QED
    BY <1>2, <1>4, <2>1, <2>2 DEF BothInv
<1>7. RunThreads => (\E i \in Innies : RunStep(i)) \/ UNCHANGED <<cell, graph, pc, day>>
  BY DEF RunThreads, RunNext, Over, vars
<1> QED
  BY <1>5, <1>6, <1>7 DEF bothVars, runVars, vars

\* Threads that keep to a run have its results.
LEMMA KeepingDetermines ==
    ASSUME NEW N \in Nat \ {0}, NEW p, RunOf(p, N), Keeping(p, N)
    PROVE  Deterministic
<1> SUFFICES ASSUME NEW i \in Innies, Settled(i) PROVE cell[i] = ref.cell[i]
  BY DEF Deterministic
<1>1. \E k \in 1..N : cell[i] = p[k].cell[i]
  BY DEF Keeping, Matches, Follows
<1>2. PICK k \in 1..N : cell[i] = p[k].cell[i]
  BY <1>1
<1>3. PICK programs : RunFrom(programs, p, N)
  BY DEF RunOf
<1>4. ~Open(p[k], i)
  BY <1>2 DEF Settled, Open
<1>5. p[N].cell[i] = p[k].cell[i]
  BY <1>3, <1>4, RunKeeps
<1> QED
  BY <1>2, <1>5 DEF RunOf

\* However the answers come, the workdays keep to the instructions they began
\* with, and each is stopped at a question or over.
Inside(I) == \A i \in Innies : InProgress(I, day[i]) /\ Stopped(day[i])

LEMMA BeginsKeeping ==
    ASSUME NEW I, Closed(I), RunsBlocks(I), NEW s \in [Innies -> Seq(I)],
           schedule = s, RunInit
    PROVE  Inside(I)
BY BeginsInside DEF RunInit, Inside

LEMMA KeepsKeeping ==
    ASSUME NEW I, Closed(I), RunsBlocks(I), IInv, QuestionInv, Inside(I), [RunNext]_runVars
    PROVE  Inside(I)'
<1>1. DOMAIN day = Innies
  BY DEF QuestionInv
<1>2. ASSUME NEW i \in Innies, NEW d, Resume(i, d), InProgress(I, d), Stopped(d)
      PROVE  Inside(I)'
  BY <1>1, <1>2 DEF Resume, Inside
<1>3. ASSUME NEW i \in Innies, NEW x
      PROVE  /\ InProgress(I, Answer(day[i], x)) /\ Stopped(Answer(day[i], x))
             /\ InProgress(I, Raise(day[i], x)) /\ Stopped(Raise(day[i], x))
  BY GoesOnInside DEF Inside
<1>4. CASE day' = day
  BY <1>4 DEF Inside
<1>5. ASSUME NEW i \in Innies, ReadValues(i) PROVE Inside(I)'
  BY <1>2, <1>3, <1>5, ToldOrRaised DEF ReadValues
<1>6. ASSUME NEW i \in Innies, ReadBranch(i) PROVE Inside(I)'
  <2>1. \/ \E b : Resume(i, AnswerFold(day[i], b))
        \/ \E x : Resume(i, Raise(day[i], x))
        \/ day' = day
    BY <1>6 DEF ReadBranch
  <2>2. \A b : \E x : AnswerFold(day[i], b) = Answer(day[i], x)
    BY DEF AnswerFold
  <2> QED
    BY <1>2, <1>3, <1>4, <2>1, <2>2
<1>7. ASSUME NEW i \in Innies, RunStep(i) PROVE Inside(I)'
  BY <1>4, <1>5, <1>6, <1>7 DEF RunStep, AskValues, AskBranches, FinishDay, SettleDay
<1> QED
  BY <1>4, <1>7 DEF RunNext, Over, runVars, vars

LEMMA KeepingAsks ==
    ASSUME NEW I, Closed(I), RefersTo(I, Innies), Inside(I)
    PROVE  AsksInnies /\ (FoldsOnce(I) => WellAsked)
<1>1. ASSUME NEW i \in Innies, NextAsk(day[i]).for # "nothing"
      PROVE  NextAsk(day[i]).ids \in Seq(Innies)
  <2>1. PICK instr \in I : NextAsk(day[i]).ids \in ListsOf(instr)
    BY <1>1, AsksItsLists DEF Inside
  <2> QED
    BY <2>1 DEF RefersTo
<1>2. ASSUME FoldsOnce(I), NEW i \in Innies, NextAsk(day[i]).for = "fold"
      PROVE  ListsOnce(NextAsk(day[i]).ids)
  <2>1. PICK instr \in I : /\ instr.op \in WithCondition /\ instr.cond.quant # "NONE"
                           /\ NextAsk(day[i]).ids = instr.cond.rhs.ids
    BY <1>2, AsksItsLists DEF Inside
  <2> QED
    BY <1>2, <2>1 DEF FoldsOnce
<1> QED
  BY <1>1, <1>2 DEF AsksInnies, WellAsked

\* Everything that is kept, from the first state of a run on.
LEMMA AlwaysTogether ==
    ASSUME NEW I, Closed(I), RefersTo(I, Innies), RunsBlocks(I),
           \A s \in Schedules : s \in [Innies -> Seq(I)]
    PROVE  /\ BothInit => IInv /\ QuestionInv /\ Inside(I)
           /\ IInv /\ QuestionInv /\ Inside(I) /\ [BothNext]_bothVars
                 => (IInv /\ QuestionInv /\ Inside(I))'
<1>1. ASSUME BothInit PROVE IInv /\ QuestionInv /\ Inside(I)
  BY <1>1, InitIInv, QuestionInit, BeginsKeeping DEF BothInit, RunInit
<1>2. ASSUME IInv, QuestionInv, Inside(I), [BothNext]_bothVars
      PROVE  IInv' /\ QuestionInv' /\ Inside(I)'
  <2>1. [RunNext]_runVars
    BY <1>2 DEF BothNext, Compute, RunThreads, bothVars
  <2>2. AsksInnies
    BY <1>2, KeepingAsks
  <2> QED
    BY <1>2, <2>1, <2>2, RunStepIsStep, StepKeepsIInv, QuestionStep, KeepsKeeping
<1> QED
  BY <1>1, <1>2

\* The threaded runner is deterministic: of any schedule whose folds list no
\* Innie twice, whatever its cycles and however the threads are scheduled, each
\* Cell gets the one result the schedule defines.  I is any set of instructions
\* the programs can be executed in.
THEOREM ResultsAreDefined ==
    ASSUME NEW I, Closed(I), RefersTo(I, Innies), FoldsOnce(I), RunsBlocks(I),
           \A s \in Schedules : s \in [Innies -> Seq(I)]
    PROVE  BothSpec => []Deterministic
<1>1. BothInit => IInv /\ QuestionInv /\ Inside(I) /\ BothInv
  BY AlwaysTogether, BothStarts DEF BothInit
<1>2. IInv /\ QuestionInv /\ Inside(I) /\ BothInv /\ [BothNext]_bothVars
        => (IInv /\ QuestionInv /\ Inside(I) /\ BothInv)'
  <2> SUFFICES ASSUME IInv, QuestionInv, Inside(I), BothInv, [BothNext]_bothVars
               PROVE  IInv' /\ QuestionInv' /\ Inside(I)' /\ BothInv'
    OBVIOUS
  <2>1. IInv' /\ QuestionInv' /\ Inside(I)'
    BY AlwaysTogether
  <2>2. WellAsked
    BY KeepingAsks
  <2>3. BothInv'
    BY <2>2, ComputeKeeps, ThreadsKeep DEF BothNext
  <2> QED
    BY <2>1, <2>3
<1>3. BothInv => Deterministic
  <2> SUFFICES ASSUME BothInv PROVE Deterministic
    OBVIOUS
  <2>1. PICK N \in Nat \ {0} : \E p : /\ RunOf(p, N)
                                      /\ IF Complete(ref) THEN Keeping(p, N) ELSE Waiting(p)
    BY DEF BothInv
  <2>2. PICK p : RunOf(p, N) /\ IF Complete(ref) THEN Keeping(p, N) ELSE Waiting(p)
    BY <2>1
  <2>3. CASE Complete(ref)
    BY <2>2, <2>3, KeepingDetermines
  <2>4. CASE ~Complete(ref)
    BY <2>2, <2>4 DEF Waiting, Deterministic
  <2> QED
    BY <2>3, <2>4
<1> QED
  BY <1>1, <1>2, <1>3, PTL DEF BothSpec

-----------------------------------------------------------------------------
(***************************************************************************)
(* What the report says.                                                   *)
(***************************************************************************)

\* When the exceptions of F have their causes among themselves, _describe finds
\* the end of a chain of them, or where it comes back.
LEMMA ChainStays ==
    ASSUME NEW c, NEW i, NEW F, i \in F,
           \A j \in F : CausedBy(c, j) = <<>> \/ \E t \in F : CausedBy(c, j) = <<t>>,
           NEW chain \in Causes(c, i)
    PROVE  \A k \in DOMAIN chain : chain[k] \in F
<1>1. /\ chain[1] = i
      /\ \A k \in 1..(Len(chain) - 1) : CausedBy(c, chain[k]) = <<chain[k + 1]>>
  BY DEF Causes
<1>2. PICK n \in 1..Cardinality(DOMAIN c) : chain \in [1..n -> DOMAIN c]
  BY DEF Causes
<1>3. n \in Nat
  <2>1. \A x : n \in 1..x => n \in Nat
    OBVIOUS
  <2> QED
    BY <1>2, <2>1
<1>4. Len(chain) = n /\ DOMAIN chain = 1..n
  BY <1>2, <1>3
<1> DEFINE S == {k \in 1..n : chain[k] \in F}
<1>5. 1 \in 1..n => 1 \in S
  BY <1>1
<1>6. ASSUME NEW k \in 1..(n - 1), k \in S PROVE k + 1 \in S
  <2>1. CausedBy(c, chain[k]) = <<chain[k + 1]>> /\ chain[k] \in F /\ k + 1 \in 1..n
    BY <1>1, <1>3, <1>4, <1>6
  <2>2. \E t \in F : <<chain[k + 1]>> = <<t>>
    BY <2>1
  <2> QED
    BY <2>1, <2>2
<1>7. 1..n \subseteq S
  <2>1. CASE n = 0
    BY <2>1
  <2>2. CASE n # 0
    <3>1. 1 \in S
      BY <1>3, <1>5, <2>2
    <3> HIDE DEF S
    <3> QED
      BY <1>3, <1>6, <3>1, UpTo
  <2> QED
    BY <2>1, <2>2
<1> QED
  BY <1>4, <1>7

LEMMA DescribeIs ==
    ASSUME NEW c, DOMAIN c = Innies, NEW F, F \subseteq Innies, NEW i \in F,
           \A j \in F : CausedBy(c, j) = <<>> \/ \E t \in F : CausedBy(c, j) = <<t>>
    PROVE  LET chain == Describe(c, i)
           IN  /\ chain \in Causes(c, i)
               /\ \/ CausedBy(c, chain[Len(chain)]) = <<>>
                  \/ \E k \in DOMAIN chain : CausedBy(c, chain[Len(chain)]) = <<chain[k]>>
<1> DEFINE N == Cardinality(Innies)
           left == {N - Len(chain) : chain \in Causes(c, i)}
<1>1. N \in Nat /\ 1 \in 1..N
  <2>1. IsFiniteSet(Innies) /\ i \in Innies /\ Innies # {}
    <3>1. i \in Innies
      OBVIOUS
    <3> QED
      BY <3>1, InniesAreFinite
  <2>2. Cardinality(Innies) \in Nat /\ Cardinality(Innies) # 0
    BY <2>1, FS_CardinalityType, FS_EmptySet
  <2> QED
    BY <2>2
<1> HIDE DEF N
<1>2. \A chain \in Causes(c, i) :
        \E n \in 1..N : /\ chain \in [1..n -> Innies] /\ Len(chain) = n /\ DOMAIN chain = 1..n
                        /\ n \in Nat \ {0} /\ N - n \in 0..N
  <2> TAKE chain \in Causes(c, i)
  <2>1. PICK n \in 1..N : chain \in [1..n -> Innies]
    BY DEF Causes, N
  <2>2. n \in Nat \ {0} /\ N - n \in 0..N
    BY <1>1
  <2>3. Len(chain) = n /\ DOMAIN chain = 1..n
    BY <2>1, <2>2
  <2> QED
    BY <2>1, <2>2, <2>3
<1>3. \E chain : chain \in Causes(c, i)
  <2>1. PICK chain : chain = [k \in 1..1 |-> i]
    OBVIOUS
  <2>2. chain \in [1..1 -> Innies] /\ chain[1] = i /\ DOMAIN chain = 1..1 /\ Len(chain) = 1
    BY <2>1
  <2>3. 1..(Len(chain) - 1) = {} /\ \A j, k \in 1..1 : j = k
    BY <2>2
  <2>4. chain \in UNION {[1..n -> DOMAIN c] : n \in 1..Cardinality(DOMAIN c)}
    BY <1>1, <2>2 DEF N
  <2> QED
    BY <2>2, <2>3, <2>4 DEF Causes
<1>4. left \subseteq 0..N /\ left # {} /\ left \subseteq Nat /\ IsFiniteSet(left)
  <2>1. left \subseteq 0..N /\ left # {}
    BY <1>2, <1>3
  <2>2. 0..N \subseteq Nat /\ IsFiniteSet(0..N)
    BY <1>1, FS_Interval
  <2> HIDE DEF left
  <2> QED
    BY <2>1, <2>2, FS_Subset
<1>5. PICK least \in left : \A m \in left : least <= m
  <2> HIDE DEF left
  <2> QED
    BY <1>4, LeastExists
<1>6. PICK chain \in Causes(c, i) : least = N - Len(chain)
  BY <1>5
<1>7. PICK n \in 1..N : /\ chain \in [1..n -> Innies] /\ Len(chain) = n /\ DOMAIN chain = 1..n
                        /\ n \in Nat \ {0} /\ N - n \in 0..N
  BY <1>2, <1>6
<1>8. ASSUME NEW longer \in Causes(c, i), Len(longer) = n + 1 PROVE FALSE
  <2>1. N - (n + 1) \in left
    BY <1>8
  <2>2. N - n <= N - (n + 1)
    BY <1>5, <1>6, <1>7, <2>1
  <2> QED
    BY <1>1, <1>7, <2>2
<1>9. /\ chain[1] = i /\ n \in 1..n
      /\ \A j, k \in 1..n : chain[j] = chain[k] => j = k
      /\ \A k \in 1..(n - 1) : CausedBy(c, chain[k]) = <<chain[k + 1]>>
  <2>1. n \in 1..n
    BY <1>7
  <2>2. /\ chain[1] = i
        /\ \A j, k \in DOMAIN chain : chain[j] = chain[k] => j = k
        /\ \A k \in 1..(Len(chain) - 1) : CausedBy(c, chain[k]) = <<chain[k + 1]>>
    BY <1>6 DEF Causes
  <2> QED
    BY <1>7, <2>1, <2>2
<1>10. \/ CausedBy(c, chain[n]) = <<>>
       \/ \E k \in 1..n : CausedBy(c, chain[n]) = <<chain[k]>>
  <2> SUFFICES ASSUME CausedBy(c, chain[n]) # <<>>,
                      \A k \in 1..n : CausedBy(c, chain[n]) # <<chain[k]>>
               PROVE  FALSE
    OBVIOUS
  <2>1. chain[n] \in F
    BY <1>6, <1>7, <1>9, ChainStays
  <2>2. PICK t \in F : CausedBy(c, chain[n]) = <<t>>
    BY <2>1
  <2>3. t \in Innies /\ \A k \in 1..n : chain[k] # t
    BY <2>2
  <2>4. PICK longer : longer = [k \in 1..(n + 1) |-> IF k = n + 1 THEN t ELSE chain[k]]
    OBVIOUS
  <2>5. \A k \in 1..(n + 1) : k = n + 1 \/ k \in 1..n
    BY <1>7
  <2>6. \A k \in 1..n : k \in 1..(n + 1) /\ k # n + 1
    BY <1>7
  <2>7. /\ longer \in [1..(n + 1) -> Innies] /\ longer[n + 1] = t
        /\ \A k \in 1..n : longer[k] = chain[k]
    BY <1>7, <2>3, <2>4, <2>5, <2>6
  <2>8. ASSUME NEW j \in 1..(n + 1), NEW k \in 1..(n + 1), longer[j] = longer[k] PROVE j = k
    BY <1>9, <2>3, <2>5, <2>7, <2>8
  <2>9. n + 1 \in 1..N
    <3>1. 1 \in Int /\ n + 1 \in Int /\ ~(1 > n + 1) /\ (n + 1) - 1 + 1 = n + 1
      BY <1>7
    <3>2. IsFiniteSet(1..(n + 1)) /\ Cardinality(1..(n + 1)) = n + 1
      BY <3>1, FS_Interval
    <3>3. ~(Cardinality(Innies) < Cardinality(1..(n + 1)))
      BY <2>7, <2>8, <3>2, InniesAreFinite, FS_PigeonHole
    <3> QED
      BY <1>1, <1>7, <3>2, <3>3 DEF N
  <2>10. Len(longer) = n + 1 /\ DOMAIN longer = 1..(n + 1)
    BY <1>7, <2>7
  <2>11. ASSUME NEW k \in 1..n PROVE CausedBy(c, longer[k]) = <<longer[k + 1]>>
    <3>1. CASE k = n
      BY <2>2, <2>7, <3>1
    <3>2. CASE k # n
      <4>1. k \in 1..(n - 1) /\ k + 1 \in 1..n
        BY <1>7, <3>2
      <4> QED
        BY <1>9, <2>7, <4>1
    <3> QED
      BY <3>1, <3>2
  <2>12. longer \in Causes(c, i)
    <3>1. longer \in UNION {[1..m -> DOMAIN c] : m \in 1..Cardinality(DOMAIN c)}
      BY <2>7, <2>9 DEF N
    <3>2. longer[1] = i /\ (n + 1) - 1 = n
      BY <1>7, <1>9, <2>7
    <3> QED
      BY <2>8, <2>10, <2>11, <3>1, <3>2 DEF Causes
  <2> QED
    BY <1>8, <2>10, <2>12
<1>11. \E x \in Causes(c, i) :
          \/ CausedBy(c, x[Len(x)]) = <<>>
          \/ \E k \in DOMAIN x : CausedBy(c, x[Len(x)]) = <<x[k]>>
  BY <1>6, <1>7, <1>10
<1> QED
  BY <1>11 DEF Describe

\* A result that is accounted for: a value, VOID, or an exception with its
\* reason, which has settled.
Accounted(r, c) ==
    \/ r = Void
    \/ \E n : r = Value(n)
    \/ r = Fault("ArithmeticFault", 0)
    \/ \E j \in Innies : c[j] # Pending /\ IsFault(c[j]) /\ r = Fault("DependencyFaulted", j)
    \/ \E j \in Innies : c[j] # Pending /\ c[j] = Void /\ r = Fault("NoWorkProduct", j)

DayAccounted(d, c) ==
    /\ d.staged = Void \/ \E n : d.staged = Value(n)
    /\ d.raised = <<>> \/ \E r : d.raised = <<r>> /\ Accounted(r, c)

\* An exception settled later than its cause, so no causes go in a circle.
Grounded(c) ==
    \A S \in SUBSET {i \in Innies : c[i] # Pending /\ IsFault(c[i])} :
        S # {} => \E i \in S : \A t \in S : CausedBy(c, i) # <<t>>

BlameInv ==
    /\ \A i \in Innies : Settled(i) => Accounted(cell[i], cell)
    /\ \A i \in Innies : DayAccounted(day[i], cell)
    /\ Grounded(cell)

LEMMA ResultKinds ==
    /\ Void.kind = "void"
    /\ \A n : Value(n).kind = "value"
    /\ \A w, j : /\ Fault(w, j).kind = "fault" /\ Fault(w, j).why = w
                 /\ Fault(w, j).innie = j
BY DEF Void, Value, Fault

LEMMA AccountedKept ==
    ASSUME NEW r, NEW c, NEW e, \A j \in Innies : c[j] # Pending => e[j] = c[j], Accounted(r, c)
    PROVE  Accounted(r, e)
BY DEF Accounted

\* The exception that a reader of an accounted result deserves is accounted for.
LEMMA FaultAccounted ==
    ASSUME NEW c, NEW j \in Innies, c[j] # Pending, c[j].kind # "value", Accounted(c[j], c)
    PROVE  Accounted(FaultOf(j, c[j]), c)
<1>1. CASE c[j] = Void
  <2>1. FaultOf(j, c[j]) = Fault("NoWorkProduct", j)
    BY <1>1, ResultKinds DEF FaultOf
  <2> QED
    BY <1>1, <2>1 DEF Accounted
<1>2. CASE \E w, k : c[j] = Fault(w, k)
  <2>1. c[j].kind = "fault"
    BY <1>2, ResultKinds
  <2>2. FaultOf(j, c[j]) = Fault("DependencyFaulted", j) /\ IsFault(c[j])
    BY <2>1 DEF FaultOf, IsFault
  <2> QED
    BY <2>2 DEF Accounted
<1> QED
  BY <1>1, <1>2, ResultKinds DEF Accounted

LEMMA DayGoesOn ==
    ASSUME NEW I, Closed(I), RunsBlocks(I), NEW d, InProgress(I, d), NEW c, DayAccounted(d, c)
    PROVE  /\ \A x : DayAccounted(Answer(d, x), c)
           /\ \A truth : DayAccounted(AnswerFold(d, truth), c)
           /\ \A r : Accounted(r, c) => DayAccounted(Raise(d, r), c)
<1>1. ASSUME NEW x PROVE DayAccounted(Answer(d, x), c)
  <2>1. Leaves(d, Answer(d, x))
    BY GoesOnInside
  <2>2. Accounted(Fault("ArithmeticFault", 0), c)
    BY DEF Accounted
  <2> QED
    BY <2>1, <2>2 DEF Leaves, DayAccounted
<1>2. ASSUME NEW r, Accounted(r, c) PROVE DayAccounted(Raise(d, r), c)
  <2>1. Raise(d, r).raised = <<r>> /\ Raise(d, r).staged = d.staged
    BY GoesOnInside
  <2> QED
    BY <1>2, <2>1 DEF DayAccounted
<1> QED
  BY <1>1, <1>2 DEF AnswerFold

LEMMA DayBegins ==
    ASSUME NEW I, Closed(I), RunsBlocks(I), NEW program \in Seq(I), NEW c
    PROVE  DayAccounted(RunToAsk(Begin(program)), c)
<1>1. Leaves(Begin(program), RunToAsk(Begin(program)))
  BY BeginsInside
<1>2. Begin(program).raised = <<>> /\ Begin(program).staged = Void
  BY DEF Begin
<1>3. Accounted(Fault("ArithmeticFault", 0), c)
  BY DEF Accounted
<1> QED
  BY <1>1, <1>2, <1>3 DEF Leaves, DayAccounted

\* What a thread reads, it reads right.
LEMMA ReaderAccounts ==
    ASSUME NEW I, Closed(I), RunsBlocks(I), IInv, AsksInnies, QuestionInv, Inside(I), BlameInv,
           NEW i \in Innies, ReadValues(i) \/ ReadBranch(i)
    PROVE  DayAccounted(day'[i], cell)
<1> DEFINE d == day[i]
           ask == NextAsk(d)
<1>1. InProgress(I, d) /\ DayAccounted(d, cell) /\ DOMAIN day = Innies
  BY DEF Inside, BlameInv, QuestionInv
<1>2. /\ \A x : DayAccounted(Answer(d, x), cell)
      /\ \A truth : DayAccounted(AnswerFold(d, truth), cell)
      /\ \A r : Accounted(r, cell) => DayAccounted(Raise(d, r), cell)
  BY <1>1, DayGoesOn
<1>3. ASSUME NEW j \in Innies, Settled(j), cell[j].kind # "value"
      PROVE  DayAccounted(Raise(d, FaultOf(j, cell[j])), cell)
  <2>1. Accounted(FaultOf(j, cell[j]), cell)
    BY <1>3, FaultAccounted DEF BlameInv, Settled
  <2> QED
    BY <1>2, <2>1
<1>4. CASE ReadValues(i)
  <2>1. pc[i] = "read" /\ ask.for = "all" /\ day'[i] = AnswerAll(d, ask.ids, cell)
    BY <1>1, <1>4 DEF ReadValues, Read, Resume
  <2>2. ask.ids \in Seq(Innies) /\ \A t \in Members(ask.ids) : Settled(t)
    BY <2>1 DEF AsksInnies, IInv, LocalInv, SettledOf, PromiseOf, QuestionInv, CallOf, Called,
                AllSettled
  <2>3. \A k \in DOMAIN ask.ids : ask.ids[k] \in Innies /\ Settled(ask.ids[k])
    BY <2>2, MembersAre
  <2>4. \/ \E x : AnswerAll(d, ask.ids, cell) = Answer(d, x)
        \/ \E k \in DOMAIN ask.ids :
              /\ cell[ask.ids[k]].kind # "value"
              /\ AnswerAll(d, ask.ids, cell) = Raise(d, FaultOf(ask.ids[k], cell[ask.ids[k]]))
    BY <2>2, ToldOrFaulted
  <2> QED
    BY <1>2, <1>3, <2>1, <2>3, <2>4
<1>5. CASE ReadBranch(i)
  <2> DEFINE old == branches[i]
             rest(t) == Seqs!RemoveFirst(old.remaining, t)
             deferred(t) == old.deferred \cup
                  (IF cell[t].kind = "value" THEN {} ELSE {Position(ask.ids, t)})
             blamed(t) == ask.ids[Sets!Min(deferred(t))]
  <2>1. Looked(d, old, cell) /\ ask.for = "fold"
    BY <1>5, ReadBranchIs DEF Underway
  <2>2. PICK t \in Members(old.remaining) :
          /\ t \in Innies /\ Settled(t)
          /\ \/ Absorbs(ask, cell[t]) /\ day'[i] = AnswerFold(d, ask.cond.quant = "ANY")
             \/ day'[i] = d
             \/ /\ ~Absorbs(ask, cell[t]) /\ rest(t) = <<>>
                /\ day'[i] = IF deferred(t) = {}
                             THEN AnswerFold(d, ask.cond.quant # "ANY")
                             ELSE Raise(d, FaultOf(blamed(t), cell[blamed(t)]))
    BY <1>5, ReadBranchIs
  <2>3. /\ ask.ids \in Seq(Innies) /\ t \in Members(ask.ids)
        /\ \A k \in old.deferred : /\ k \in DOMAIN ask.ids
                                   /\ Settled(ask.ids[k]) /\ cell[ask.ids[k]].kind # "value"
    BY <2>1 DEF Looked, Settled
  <2>4. Position(ask.ids, t) \in DOMAIN ask.ids /\ ask.ids[Position(ask.ids, t)] = t
    BY <2>3, PositionIs
  <2>5. \A k \in deferred(t) : /\ k \in DOMAIN ask.ids /\ ask.ids[k] \in Innies
                               /\ Settled(ask.ids[k]) /\ cell[ask.ids[k]].kind # "value"
    BY <2>2, <2>3, <2>4, MembersAre
  <2>6. ASSUME deferred(t) # {} PROVE Sets!Min(deferred(t)) \in deferred(t)
    <3> HIDE DEF deferred
    <3>1. \E k \in deferred(t) : \A m \in deferred(t) : k <= m
      BY <2>3, <2>5, <2>6, FirstOf
    <3> QED
      BY <3>1 DEF Sets!Min
  <2> HIDE DEF deferred
  <2> QED
    BY <1>1, <1>2, <1>3, <2>2, <2>5, <2>6
<1> QED
  BY <1>4, <1>5

\* What an exception was caused by, when it is accounted for, is in the Cells.
LEMMA CauseSettled ==
    ASSUME NEW c, NEW e, NEW j, NEW t, Accounted(e[j], c), IsFault(e[j]), CausedBy(e, j) = <<t>>
    PROVE  t \in Innies /\ c[t] # Pending /\ IsFault(c[t])
<1>1. e[j].why = "DependencyFaulted" /\ e[j].innie = t
  BY DEF CausedBy
<1> QED
  BY <1>1, ResultKinds DEF Accounted, IsFault

\* If what settles is accounted for by what had settled before, so is all of it,
\* and the causes stay grounded.
LEMMA GroundedStays ==
    ASSUME NEW c, NEW e, \A j \in Innies : c[j] # Pending => e[j] = c[j],
           \A j \in Innies : e[j] # Pending => Accounted(e[j], c), Grounded(c)
    PROVE  /\ \A j \in Innies : e[j] # Pending => Accounted(e[j], e)
           /\ Grounded(e)
<1>1. \A j \in Innies : e[j] # Pending => Accounted(e[j], e)
  BY AccountedKept
<1>2. ASSUME NEW S \in SUBSET {j \in Innies : e[j] # Pending /\ IsFault(e[j])}, S # {}
      PROVE  \E j \in S : \A t \in S : CausedBy(e, j) # <<t>>
  <2> DEFINE before == {j \in S : c[j] # Pending}
  <2>1. \A j \in S : \A t : CausedBy(e, j) = <<t>> => c[t] # Pending
    BY CauseSettled
  <2>2. CASE before = {}
    BY <1>2, <2>1, <2>2
  <2>3. CASE before # {}
    <3>1. before \in SUBSET {j \in Innies : c[j] # Pending /\ IsFault(c[j])}
      OBVIOUS
    <3>2. PICK j \in before : \A t \in before : CausedBy(c, j) # <<t>>
      BY <2>3, <3>1 DEF Grounded
    <3>3. CausedBy(e, j) = CausedBy(c, j)
      BY <3>2 DEF CausedBy
    <3>4. ASSUME NEW t \in S PROVE CausedBy(e, j) # <<t>>
      BY <2>1, <3>2, <3>3
    <3> QED
      BY <3>2, <3>4
  <2> QED
    BY <2>2, <2>3
<1> QED
  BY <1>1, <1>2 DEF Grounded

\* What is published, by the Innie itself or for a cycle, is accounted for.
LEMMA PublishedAccounted ==
    ASSUME DeadlockResult = Value(-1), IInv, BlameInv, [RunNext]_runVars
    PROVE  \A j \in Innies : Settled(j)' => Accounted(cell'[j], cell)
<1>1. cell \in [Innies -> Results \cup {Pending}]
  BY DEF IInv, TypeOK
<1>2. CASE cell' = cell
  BY <1>2 DEF BlameInv, Settled
<1>3. ASSUME NEW i \in Innies, SettleDay(i), cell' # cell
      PROVE  \A j \in Innies : Settled(j)' => Accounted(cell'[j], cell)
  <2>1. cell' = [cell EXCEPT ![i] = Outcome(day[i])]
    BY <1>3 DEF SettleDay, Settle
  <2>2. /\ cell'[i] = Outcome(day[i])
        /\ \A j \in Innies : j # i => cell'[j] = cell[j]
    BY <1>1, <2>1
  <2>3. Accounted(Outcome(day[i]), cell)
    BY DEF BlameInv, DayAccounted, Outcome, Accounted
  <2> QED
    BY <2>2, <2>3 DEF BlameInv, Settled
<1>4. ASSUME NEW i \in Innies, ResolveCycle(i)
      PROVE  \A j \in Innies : Settled(j)' => Accounted(cell'[j], cell)
  <2>1. \A j \in Innies : cell'[j] = cell[j] \/ cell'[j] = Value(-1)
    BY <1>4 DEF ResolveCycle
  <2>2. Accounted(Value(-1), cell)
    BY DEF Accounted
  <2> QED
    BY <2>1, <2>2 DEF BlameInv, Settled
<1>5. ASSUME NEW i \in Innies, RunStep(i), ~SettleDay(i), ~ResolveCycle(i) PROVE cell' = cell
  BY <1>5 DEF RunStep, AskValues, AwaitInnies, ReadValues, Read, AskBranches, AwaitAny, ReadBranch,
              FinishDay, Finish, Protocol, ScanHit, ScanMiss, Detect, NoCycleLeft, RecheckAll,
              RecheckAny, Wake, AskCancelled
<1>6. CASE UNCHANGED vars
  BY <1>2, <1>6 DEF vars
<1> QED
  BY <1>2, <1>3, <1>4, <1>5, <1>6 DEF RunNext, Over, runVars

LEMMA BlameStep ==
    ASSUME NEW I, Closed(I), RunsBlocks(I), DeadlockResult = Value(-1),
           IInv, AsksInnies, QuestionInv, Inside(I), BlameInv, [RunNext]_runVars
    PROVE  BlameInv'
<1>1. \A j \in Innies : Settled(j) => cell'[j] = cell[j]
  BY RunStepIsStep, SettledKept
<1>2. PICK c, e : c = cell /\ e = cell'
  OBVIOUS
<1>3. /\ \A i \in Innies : Settled(i)' => Accounted(cell'[i], cell')
      /\ Grounded(cell')
  <2>1. /\ \A j \in Innies : c[j] # Pending => e[j] = c[j]
        /\ \A j \in Innies : e[j] # Pending => Accounted(e[j], c)
        /\ Grounded(c)
    BY <1>1, <1>2, PublishedAccounted DEF BlameInv, Settled
  <2>2. /\ \A j \in Innies : e[j] # Pending => Accounted(e[j], e)
        /\ Grounded(e)
    BY <2>1, GroundedStays
  <2> QED
    BY <1>2, <2>2 DEF Settled
<1>4. \A d : DayAccounted(d, cell) => DayAccounted(d, cell')
  <2>1. \A r : Accounted(r, c) => Accounted(r, e)
    BY <1>1, <1>2, AccountedKept DEF Settled
  <2> QED
    BY <1>2, <2>1 DEF DayAccounted
<1>5. ASSUME NEW j \in Innies PROVE DayAccounted(day'[j], cell')
  <2>1. CASE day'[j] = day[j]
    BY <1>4, <2>1 DEF BlameInv
  <2>2. ASSUME NEW i \in Innies, ReadValues(i) \/ ReadBranch(i) PROVE DayAccounted(day'[j], cell')
    <3>1. DayAccounted(day'[i], cell)
      BY <2>2, ReaderAccounts
    <3>2. i # j => day'[j] = day[j]
      BY <2>2 DEF ReadValues, ReadBranch, Resume, QuestionInv
    <3> QED
      BY <1>4, <2>1, <3>1, <3>2
  <2>3. (\E i \in Innies : ReadValues(i) \/ ReadBranch(i)) \/ day' = day
    BY DEF RunNext, RunStep, AskValues, AskBranches, FinishDay, SettleDay, runVars
  <2> QED
    BY <2>1, <2>2, <2>3
<1> QED
  BY <1>3, <1>5 DEF BlameInv

LEMMA BlameBegins ==
    ASSUME NEW I, Closed(I), RunsBlocks(I), NEW s \in [Innies -> Seq(I)], schedule = s, RunInit
    PROVE  BlameInv
<1>1. \A i \in Innies : cell[i] = Pending
  BY DEF RunInit, Init
<1>2. \A i \in Innies : DayAccounted(day[i], cell)
  BY DayBegins DEF RunInit
<1> QED
  BY <1>1, <1>2 DEF BlameInv, Settled, Grounded

\* What the entries say when all is accounted for.
LEMMA BlameIsReported ==
    ASSUME IInv, BlameInv
    PROVE  ReportBlamesCulprits
<1> SUFFICES ASSUME \A i \in Innies : Settled(i) PROVE ReportBlamesCulprits
  BY DEF ReportBlamesCulprits
<1> DEFINE F == {i \in Innies : IsFault(cell[i])}
           report == FormatResults(cell)
<1>1. PICK c : c = cell /\ DOMAIN c = Innies
  BY DEF IInv, TypeOK
<1>2. \A j \in Innies : Accounted(c[j], c) /\ c[j] # Pending
  BY <1>1 DEF BlameInv, Settled
<1>3. \A j \in F : \/ CausedBy(c, j) = <<>> /\ j \in Culprits
                   \/ \E t \in F : CausedBy(c, j) = <<t>>
  <2> TAKE j \in F
  <2>1. Accounted(c[j], c) /\ c[j].kind = "fault" /\ j \in Innies
    BY <1>1, <1>2 DEF IsFault
  <2>2. CASE c[j] = Fault("ArithmeticFault", 0)
    BY <1>1, <2>2, ResultKinds DEF CausedBy, Culprits
  <2>3. CASE \E k \in Innies : IsFault(c[k]) /\ c[j] = Fault("DependencyFaulted", k)
    BY <1>1, <2>3, ResultKinds DEF CausedBy
  <2>4. CASE \E k \in Innies : c[k] = Void /\ c[j] = Fault("NoWorkProduct", k)
    BY <1>1, <2>4, ResultKinds DEF CausedBy, Culprits
  <2> QED
    BY <2>1, <2>2, <2>3, <2>4, ResultKinds DEF Accounted
<1>4. \A i \in Innies : report[i].error = IF i \in F THEN Describe(c, i) ELSE <<>>
  BY <1>1 DEF FormatResults, Entry
<1>5. ASSUME NEW i \in F
      PROVE  LET chain == Describe(c, i)
             IN  /\ chain # <<>> /\ \A j \in DOMAIN chain : IsFault(cell[chain[j]])
                 /\ chain[Len(chain)] \in Culprits
  <2>1. PICK chain : chain = Describe(c, i)
    OBVIOUS
  <2>2. F \subseteq Innies /\ \A j \in F : CausedBy(c, j) = <<>> \/ \E t \in F : CausedBy(c, j) = <<t>>
    BY <1>3
  <2>3. /\ chain \in Causes(c, i)
        /\ \/ CausedBy(c, chain[Len(chain)]) = <<>>
           \/ \E k \in DOMAIN chain : CausedBy(c, chain[Len(chain)]) = <<chain[k]>>
    <3>1. PICK G : G = F
      OBVIOUS
    <3>2. G \subseteq DOMAIN c /\ i \in G
      BY <1>1, <1>5, <2>2, <3>1
    <3>3. \A j \in G : CausedBy(c, j) = <<>> \/ \E t \in G : CausedBy(c, j) = <<t>>
      BY <2>2, <3>1
    <3>4. Describe(c, i) \in Causes(c, i)
          /\ \/ CausedBy(c, Describe(c, i)[Len(Describe(c, i))]) = <<>>
             \/ \E k \in DOMAIN Describe(c, i) :
                   CausedBy(c, Describe(c, i)[Len(Describe(c, i))]) = <<Describe(c, i)[k]>>
      BY ONLY <1>1, <3>2, <3>3, DescribeIs, InniesAssumption
    <3> QED
      BY <2>1, <3>4
  <2>4. \A k \in DOMAIN chain : chain[k] \in F
    BY <2>2, <2>3, ChainStays
  <2>5. PICK n : chain \in [1..n -> Innies] /\ n \in 1..Cardinality(Innies)
    BY <1>1, <2>3 DEF Causes
  <2>6. n \in Nat \ {0}
    <3>1. Cardinality(Innies) \in Nat
      BY InniesAreFinite, FS_CardinalityType
    <3> QED
      BY <2>5, <3>1
  <2>7. Len(chain) = n /\ DOMAIN chain = 1..n /\ n \in 1..n /\ chain # <<>>
    BY <2>5, <2>6
  <2>8. ASSUME NEW k \in DOMAIN chain, CausedBy(c, chain[n]) = <<chain[k]>> PROVE FALSE
    <3> DEFINE S == {chain[m] : m \in 1..n}
    <3>1. S \in SUBSET {j \in Innies : c[j] # Pending /\ IsFault(c[j])} /\ S # {}
      BY <1>1, <1>2, <2>4, <2>7
    <3>2. PICK j \in S : \A t \in S : CausedBy(c, j) # <<t>>
      <4>1. Grounded(c)
        BY <1>1 DEF BlameInv
      <4> HIDE DEF S
      <4> QED
        BY ONLY <3>1, <4>1 DEF Grounded
    <3>3. PICK m \in 1..n : j = chain[m]
      BY <3>2
    <3>4. CASE m = n
      BY <2>7, <2>8, <3>2, <3>3, <3>4
    <3>5. CASE m # n
      <4>1. m \in 1..(n - 1) /\ m + 1 \in 1..n
        BY <2>6, <3>3, <3>5
      <4>2. CausedBy(c, chain[m]) = <<chain[m + 1]>>
        BY <2>3, <2>7, <4>1 DEF Causes
      <4> QED
        BY <3>2, <3>3, <4>1, <4>2
    <3> QED
      BY <3>4, <3>5
  <2>9. chain[n] \in F /\ CausedBy(c, chain[n]) = <<>>
    BY <2>3, <2>4, <2>7, <2>8
  <2>10. chain[n] \in Culprits
    <3>1. PICK j : j = chain[n]
      OBVIOUS
    <3>2. j \in F /\ CausedBy(c, j) = <<>>
      BY <2>9, <3>1
    <3>3. \A t : <<>> # <<t>>
      OBVIOUS
    <3>4. j \in Culprits \/ \E t \in F : CausedBy(c, j) = <<t>>
      BY <1>3, <3>2
    <3> HIDE DEF F
    <3> QED
      BY <3>1, <3>2, <3>3, <3>4
  <2> QED
    BY <2>1, <2>4, <2>7, <2>10
<1>6. Culprits \subseteq F
  BY DEF Culprits
<1>7. ExitCode(FALSE, report) = IF F = {} THEN 0 ELSE 1
  <2>1. DOMAIN report = Innies
    BY <1>1 DEF FormatResults
  <2>2. (\E i \in Innies : report[i].error # <<>>) <=> F # {}
    BY <1>4, <1>5
  <2> HIDE DEF report
  <2> QED
    BY <2>1, <2>2 DEF ExitCode
<1>8. F = {} <=> Culprits = {}
  BY <1>5, <1>6
<1>9. \A i \in Innies : report[i].error # <<>> =>
          /\ \A j \in DOMAIN report[i].error : IsFault(cell[report[i].error[j]])
          /\ report[i].error[Len(report[i].error)] \in Culprits
  BY <1>4, <1>5
<1> HIDE DEF report, F
<1> QED
  BY <1>7, <1>8, <1>9 DEF ReportBlamesCulprits, report

\* A run of the threads beside that of Reference is a run of the threads.
LEMMA BothRun == BothSpec => RunSpec
<1>1. BothInit => RunInit
  BY DEF BothInit
<1>2. [BothNext]_bothVars => [RunNext]_runVars
  BY DEF BothNext, Compute, RunThreads, bothVars
<1> QED
  BY <1>1, <1>2, PTL DEF BothSpec, RunSpec

\* Whatever the interleaving, and whether a fold lists an Innie twice or not,
\* the report of the run leads from each fault to the Innie whose instruction
\* went wrong (format_results and _describe, cli.py:24-58), and main exits with
\* 1 if there is one and with 0 if not.
THEOREM ReportIsRight ==
    ASSUME NEW I, Closed(I), RefersTo(I, Innies), RunsBlocks(I),
           \A s \in Schedules : s \in [Innies -> Seq(I)],
           DeadlockResult = Value(-1)
    PROVE  RunSpec \/ BothSpec => []ReportBlamesCulprits
<1>1. RunInit => IInv /\ QuestionInv /\ Inside(I) /\ BlameInv
  BY InitIInv, QuestionInit, BeginsKeeping, BlameBegins DEF RunInit
<1>2. IInv /\ QuestionInv /\ Inside(I) /\ BlameInv /\ [RunNext]_runVars
        => (IInv /\ QuestionInv /\ Inside(I) /\ BlameInv)'
  <2> SUFFICES ASSUME IInv, QuestionInv, Inside(I), BlameInv, [RunNext]_runVars
               PROVE  IInv' /\ QuestionInv' /\ Inside(I)' /\ BlameInv'
    OBVIOUS
  <2>1. AsksInnies
    BY KeepingAsks
  <2> QED
    BY <2>1, RunStepIsStep, StepKeepsIInv, QuestionStep, KeepsKeeping, BlameStep
<1>3. IInv /\ BlameInv => ReportBlamesCulprits
  BY BlameIsReported
<1> QED
  BY <1>1, <1>2, <1>3, BothRun, PTL DEF RunSpec
=============================================================================
