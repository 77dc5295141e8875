---------------------------- MODULE RegistryProofs ----------------------------
(***************************************************************************)
(* The safety properties of the Registry, for any finite set of Innies,    *)
(* any programs and any number of calls.  They all follow from one         *)
(* inductive invariant, IInv, whose parts are stated first.  Then, that    *)
(* the Registry implements Workday, and who is resolved.                   *)
(***************************************************************************)
EXTENDS Registry, DetectorProofs

\* Where the thread of an Innie with an entry in the graph can be.
WaitLocations == {"detect", "resolve", "recheck", "asleep", "notified"}

Waits(i) == pc[i] \in WaitLocations /\ i \notin cancelled

\* The lock is held by the thread that is between two steps of one critical
\* section, if there is one.
LockInv == \A i \in Innies : pc[i] \in InSection <=> lock = i

\* await_any's list lives as long as the call.
WantOf(i) ==
    /\ pc[i] = "scan" => InAwaitAny(i)
    /\ InAwaitAny(i) => pc[i] \in WaitLocations \cup {"scan"}

\* The graph holds what the waiting Innies wait for, and nothing else.  The
\* AND-edges are the targets that were pending when the wait began.
GraphOf(i) ==
    /\ ~Waits(i) => graph.and[i] = {} /\ graph.or[i] = <<>>
    /\ Waits(i) /\ InAwaitAny(i) =>
            graph.and[i] = {} /\ graph.or[i] = <<Members(want[i])>>
    /\ Waits(i) /\ ~InAwaitAny(i) =>
            /\ graph.or[i] = <<>>
            /\ graph.and[i] # {} /\ graph.and[i] \subseteq need[i]
            /\ \A t \in need[i] \ graph.and[i] : Settled(t)

\* A Cell is settled by a resolution or by its own thread's last step.
SettledOf(i) ==
    /\ Settled(i) <=> i \in cancelled \/ pc[i] = "exited"
    /\ i \in cancelled => pc[i] \notin {"run", "read", "settle"}

\* What a finished call promises, and what a cancelled one finds.
PromiseOf(i) ==
    /\ pc[i] \in {"returned", "read"} /\ i \notin cancelled => AllSettled(need[i])
    /\ i \in cancelled /\ InAwaitAny(i) => \E t \in Members(want[i]) : Settled(t)

\* Who sleeps, or is about to without looking again, waits in vain.
VainOf(i) ==
    /\ pc[i] = "asleep" => i \notin cancelled /\ StillWaits(i)
    /\ InAwaitAny(i) /\ pc[i] = "detect" => i \notin cancelled /\ StillWaits(i)
    /\ InAwaitAny(i) /\ pc[i] \in {"resolve", "recheck"} /\ ~resolved[i] =>
            i \notin cancelled /\ StillWaits(i)

\* What holds of each Innie by itself.
LocalInv(i) == WantOf(i) /\ GraphOf(i) /\ SettledOf(i) /\ PromiseOf(i) /\ VainOf(i)

\* Behind the gate nobody computes, and until something is resolved nobody has
\* what it waits for.
QuietOf(i) ==
    pc[i] = "resolve" =>
        \A j \in Innies : ~Settled(j) =>
            j \in Blocked(graph) /\ (resolved[i] \/ StillWaits(j))

\* After detection some unsettled Innie will go on: another one that is awake,
\* or the detecting one itself.
RecheckOf(i) ==
    pc[i] = "recheck" /\ (\E j \in Innies : ~Settled(j)) =>
        \E j \in Innies : /\ ~Settled(j) /\ pc[j] # "asleep"
                          /\ j = i => ~StillWaits(i)

\* The unsettled Innies do not all sleep.
AwakeInv ==
    (\E i \in Innies : ~Settled(i)) =>
        \E i \in Innies : ~Settled(i) /\ pc[i] # "asleep"

IInv ==
    /\ TypeOK
    /\ LockInv
    /\ \A i \in Innies : LocalInv(i)
    /\ \A i \in Innies : QuietOf(i) /\ RecheckOf(i)
    /\ AwakeInv

-----------------------------------------------------------------------------
\* The members of a list of Innies are Innies, and a first settled one is one
\* of them.

LEMMA MembersAre ==
    ASSUME NEW s \in Seq(Innies)
    PROVE  /\ Members(s) \in SUBSET Innies
           /\ \A k \in DOMAIN s : s[k] \in Members(s)
BY ElementOfSeq, LenProperties DEF Members

LEMMA FirstSettledIs ==
    ASSUME TypeOK, NEW i \in Innies, NEW t \in Members(want[i]), Settled(t)
    PROVE  /\ FirstSettled(i) \in Members(want[i])
           /\ FirstSettled(i) \in Innies
           /\ Settled(FirstSettled(i))
<1> DEFINE hits == {k \in DOMAIN want[i] : Settled(want[i][k])}
           first == CHOOSE k \in hits : \A m \in hits : k <= m
<1>1. want[i] \in Seq(Innies) /\ Len(want[i]) \in Nat /\ DOMAIN want[i] = 1..Len(want[i])
  BY LenProperties DEF TypeOK
<1>2. hits \in SUBSET Nat /\ IsFiniteSet(hits)
  <2>1. IsFiniteSet(1..Len(want[i])) /\ hits \subseteq 1..Len(want[i])
    BY <1>1, FS_Interval
  <2> QED
    BY <1>1, <2>1, FS_Subset
<1>3. hits # {}
  BY DEF Members
<1>4. \E k \in hits : \A m \in hits : k <= m
  <2> HIDE DEF hits
  <2> QED
    BY <1>2, <1>3, LeastExists
<1>5. first \in hits
  BY <1>4
<1>6. FirstSettled(i) = want[i][first]
  BY DEF FirstSettled
<1> HIDE DEF first
<1> QED
  BY <1>1, <1>5, <1>6, MembersAre

\* An Innie is in the graph just while it waits, and the gate's idea of a
\* satisfied wait is the Innie's own.
LEMMA BlockedIsWaiting ==
    ASSUME NEW i \in Innies, GraphOf(i)
    PROVE  i \in Blocked(graph) <=> Waits(i)
BY DEF GraphOf, Blocked

LEMMA SatisfiedIsOver ==
    ASSUME NEW i \in Innies, GraphOf(i), Waits(i)
    PROVE  WaitSatisfied(i) <=> ~StillWaits(i)
<1>1. CASE InAwaitAny(i)
  <2>1. graph.and[i] = {} /\ graph.or[i] = <<Members(want[i])>>
    BY <1>1 DEF GraphOf
  <2>2. OrGroups(graph, i) = {Members(want[i])}
    BY <2>1 DEF OrGroups
  <2> QED
    BY <1>1, <2>1, <2>2 DEF WaitSatisfied, StillWaits, AndEdges
<1>2. CASE ~InAwaitAny(i)
  <2>1. /\ graph.or[i] = <<>> /\ graph.and[i] # {} /\ graph.and[i] \subseteq need[i]
        /\ \A t \in need[i] \ graph.and[i] : Settled(t)
    BY <1>2 DEF GraphOf
  <2>2. OrGroups(graph, i) = {}
    BY <2>1 DEF OrGroups
  <2> QED
    BY <1>2, <2>1, <2>2 DEF WaitSatisfied, StillWaits, AndEdges, AllSettled
<1> QED
  BY <1>1, <1>2

-----------------------------------------------------------------------------
\* A step of one thread that settles nothing leaves the others' part of the
\* state alone.
Untouched(j) ==
    /\ pc'[j] = pc[j] /\ want'[j] = want[j] /\ need'[j] = need[j]
    /\ resolved'[j] = resolved[j]
    /\ graph'.and[j] = graph.and[j] /\ graph'.or[j] = graph.or[j]

LEMMA WishKept ==
    ASSUME NEW j \in Innies, cell' = cell, want'[j] = want[j], need'[j] = need[j]
    PROVE  /\ StillWaits(j)' <=> StillWaits(j)
           /\ InAwaitAny(j)' <=> InAwaitAny(j)
           /\ Members(want[j])' = Members(want[j])
           /\ \A t : Settled(t)' <=> Settled(t)
           /\ AllSettled(need[j])' <=> AllSettled(need[j])
BY DEF StillWaits, InAwaitAny, Members, AllSettled, Settled

LEMMA UntouchedKept ==
    ASSUME NEW j \in Innies, Untouched(j), cell' = cell, cancelled' = cancelled,
           LocalInv(j)
    PROVE  LocalInv(j)'
<1>1. /\ StillWaits(j)' <=> StillWaits(j)
      /\ InAwaitAny(j)' <=> InAwaitAny(j)
      /\ Waits(j)' <=> Waits(j)
      /\ Members(want[j])' = Members(want[j])
      /\ \A t : Settled(t)' <=> Settled(t)
      /\ AllSettled(need[j])' <=> AllSettled(need[j])
  BY WishKept DEF Untouched, Waits
<1>2. WantOf(j)'
  BY <1>1 DEF LocalInv, WantOf, Untouched
<1>3. GraphOf(j)'
  BY <1>1 DEF LocalInv, GraphOf, Untouched
<1>4. SettledOf(j)'
  BY <1>1 DEF LocalInv, SettledOf, Untouched
<1>5. PromiseOf(j)'
  BY <1>1 DEF LocalInv, PromiseOf, Untouched
<1>6. VainOf(j)'
  BY <1>1 DEF LocalInv, VainOf, Untouched
<1> QED
  BY <1>2, <1>3, <1>4, <1>5, <1>6 DEF LocalInv

\* So such a step keeps the invariant if it keeps it of its own thread.
LEMMA OwnStep ==
    ASSUME IInv, NEW i \in Innies,
           TypeOK', LockInv', lock' \in {i, NoOne},
           cell' = cell, cancelled' = cancelled,
           \A j \in Innies : j # i => Untouched(j),
           LocalInv(i)', QuietOf(i)', RecheckOf(i)',
           pc'[i] = "asleep" => AwakeInv'
    PROVE  IInv'
<1>1. ASSUME NEW j \in Innies PROVE LocalInv(j)'
  BY UntouchedKept DEF IInv
<1>2. ASSUME NEW j \in Innies, j # i PROVE QuietOf(j)' /\ RecheckOf(j)'
  <2>1. pc'[j] \notin InSection
    BY <1>2, RegistryAssumption, CellsAssumption DEF LockInv
  <2> QED
    BY <2>1 DEF QuietOf, RecheckOf, InSection
<1>3. AwakeInv'
  <2>1. CASE pc'[i] # "asleep"
    BY <2>1 DEF IInv, AwakeInv, Settled, Untouched
  <2> QED
    BY <2>1
<1> QED
  BY <1>1, <1>2, <1>3 DEF IInv

-----------------------------------------------------------------------------
THEOREM InitIInv == Init => IInv
<1> SUFFICES ASSUME Init PROVE IInv
  OBVIOUS
<1>1. TypeOK
  BY EmptyGraphIs, EmptySeq DEF Init, TypeOK, Locations, InSection
<1>2. LockInv
  BY RegistryAssumption, CellsAssumption DEF Init, LockInv, InSection
<1>3. ASSUME NEW i \in Innies PROVE LocalInv(i)
  <2>1. pc[i] = "run" /\ ~InAwaitAny(i) /\ ~Settled(i) /\ i \notin cancelled
    BY DEF Init, InAwaitAny, Settled
  <2>2. graph.and[i] = {} /\ graph.or[i] = <<>>
    BY EmptyGraphIs DEF Init
  <2> QED
    BY <2>1, <2>2
    DEF LocalInv, WantOf, GraphOf, SettledOf, PromiseOf, VainOf, Waits, WaitLocations
<1>4. ASSUME NEW i \in Innies PROVE QuietOf(i) /\ RecheckOf(i)
  BY DEF Init, QuietOf, RecheckOf
<1>5. AwakeInv
  BY DEF Init, AwakeInv
<1> QED
  BY <1>1, <1>2, <1>3, <1>4, <1>5 DEF IInv

LEMMA AwaitInniesStep ==
    ASSUME IInv, NEW i \in Innies, NEW T \in AndCalls, AwaitInnies(i, T)
    PROVE  IInv'
<1> DEFINE P == PendingOf(T)
           g == WaitOn(graph, i, P)
<1>1. T \in SUBSET Innies /\ P \in SUBSET Innies /\ graph \in Graphs
  BY RegistryAssumption, CellsAssumption DEF PendingOf, IInv, TypeOK
<1>2. /\ g \in Graphs
      /\ \A j \in Innies : g.and[j] = IF j = i THEN P ELSE graph.and[j]
      /\ \A j \in Innies : g.or[j] = graph.or[j]
  <2> HIDE DEF P
  <2> QED
    BY <1>1, WaitOnIs
<1>3. graph' = IF PendingOf(T) = {} THEN graph ELSE g
  BY DEF AwaitInnies
<1> HIDE DEF g
<1>4. TypeOK'
  <2>1. graph' \in Graphs /\ lock' \in Innies \cup {NoOne}
    BY <1>1, <1>2, <1>3 DEF IInv, TypeOK, AwaitInnies
  <2>2. pc' \in [Innies -> Locations]
    BY DEF IInv, TypeOK, AwaitInnies, Locations, InSection
  <2> QED
    BY <1>1, <2>1, <2>2 DEF IInv, TypeOK, AwaitInnies
<1>5. LockInv'
  BY RegistryAssumption, CellsAssumption DEF IInv, TypeOK, LockInv, AwaitInnies, InSection
<1>6. \A j \in Innies : j # i => Untouched(j)
  BY <1>2, <1>3 DEF IInv, TypeOK, AwaitInnies, Untouched
<1>7. LocalInv(i)'
  <2>1. LocalInv(i) /\ pc[i] = "run" /\ ~InAwaitAny(i) /\ i \notin cancelled /\ ~Settled(i)
    BY DEF IInv, LocalInv, WantOf, SettledOf, AwaitInnies, WaitLocations
  <2>2. graph.and[i] = {} /\ graph.or[i] = <<>>
    BY <2>1 DEF LocalInv, GraphOf, Waits, WaitLocations
  <2>3. /\ ~InAwaitAny(i)' /\ i \notin cancelled' /\ ~Settled(i)' /\ need'[i] = T
        /\ \A t : Settled(t)' <=> Settled(t)
    BY <2>1 DEF IInv, TypeOK, AwaitInnies, InAwaitAny, Settled
  <2>4. CASE PendingOf(T) = {}
    <3>1. pc'[i] = "returned" /\ graph'.and[i] = {} /\ graph'.or[i] = <<>>
      BY <1>3, <2>2, <2>4 DEF IInv, TypeOK, AwaitInnies
    <3>2. AllSettled(need[i])'
      BY <2>3, <2>4 DEF AllSettled, PendingOf
    <3> QED
      BY <2>3, <3>1, <3>2
      DEF LocalInv, WantOf, GraphOf, SettledOf, PromiseOf, VainOf, Waits, WaitLocations
  <2>5. CASE PendingOf(T) # {}
    <3>1. pc'[i] = "detect" /\ graph'.and[i] = PendingOf(T) /\ graph'.or[i] = <<>>
      BY <1>2, <1>3, <2>2, <2>5 DEF IInv, TypeOK, AwaitInnies
    <3>2. PendingOf(T) \subseteq T /\ \A t \in T \ PendingOf(T) : Settled(t)
      BY DEF PendingOf
    <3> QED
      BY <2>3, <2>5, <3>1, <3>2
      DEF LocalInv, WantOf, GraphOf, SettledOf, PromiseOf, VainOf, Waits, WaitLocations
  <2> QED
    BY <2>4, <2>5
<1>8. pc'[i] \in {"returned", "detect"}
  BY DEF IInv, TypeOK, AwaitInnies
<1>9. QuietOf(i)' /\ RecheckOf(i)'
  BY <1>8 DEF QuietOf, RecheckOf
<1>10. lock' \in {i, NoOne} /\ cell' = cell /\ cancelled' = cancelled
  BY DEF AwaitInnies
<1> QED
  BY <1>4, <1>5, <1>6, <1>7, <1>8, <1>9, <1>10, OwnStep

LEMMA AwaitAnyStep ==
    ASSUME IInv, NEW i \in Innies, NEW S \in OrCalls, AwaitAny(i, S)
    PROVE  IInv'
<1>1. S \in Seq(Innies) /\ S # <<>>
  BY RegistryAssumption, CellsAssumption
<1>2. TypeOK'
  BY <1>1 DEF IInv, TypeOK, AwaitAny, Locations, InSection
<1>3. LockInv'
  BY RegistryAssumption, CellsAssumption DEF IInv, TypeOK, LockInv, AwaitAny, InSection
<1>4. \A j \in Innies : j # i => Untouched(j)
  BY DEF IInv, TypeOK, AwaitAny, Untouched
<1>5. pc'[i] = "scan" /\ want'[i] = S
  BY DEF IInv, TypeOK, AwaitAny
<1>6. LocalInv(i)'
  <2>1. LocalInv(i) /\ pc[i] = "run" /\ i \notin cancelled /\ ~Settled(i)
    BY DEF IInv, LocalInv, SettledOf, AwaitAny
  <2>2. graph'.and[i] = {} /\ graph'.or[i] = <<>>
    BY <2>1 DEF LocalInv, GraphOf, Waits, WaitLocations, AwaitAny
  <2>3. i \notin cancelled' /\ ~Settled(i)' /\ InAwaitAny(i)'
    BY <1>1, <1>5, <2>1 DEF AwaitAny, Settled, InAwaitAny
  <2> QED
    BY <1>5, <2>2, <2>3
    DEF LocalInv, WantOf, GraphOf, SettledOf, PromiseOf, VainOf, Waits, WaitLocations
<1>7. QuietOf(i)' /\ RecheckOf(i)'
  BY <1>5 DEF QuietOf, RecheckOf
<1>8. lock' \in {i, NoOne} /\ cell' = cell /\ cancelled' = cancelled
  BY DEF AwaitAny
<1> QED
  BY <1>2, <1>3, <1>4, <1>5, <1>6, <1>7, <1>8, OwnStep

LEMMA ScanHitStep ==
    ASSUME IInv, NEW i \in Innies, ScanHit(i)
    PROVE  IInv'
<1>1. /\ FirstSettled(i) \in Innies
      /\ Settled(FirstSettled(i))
  BY FirstSettledIs DEF IInv, ScanHit
<1>2. TypeOK'
  BY <1>1, EmptySeq DEF IInv, TypeOK, ScanHit, Locations, InSection
<1>3. LockInv'
  BY RegistryAssumption, CellsAssumption DEF IInv, TypeOK, LockInv, ScanHit, InSection
<1>4. \A j \in Innies : j # i => Untouched(j)
  BY DEF IInv, TypeOK, ScanHit, Untouched
<1>5. pc'[i] = "returned" /\ want'[i] = <<>> /\ need'[i] = {FirstSettled(i)}
  BY DEF IInv, TypeOK, ScanHit
<1>6. LocalInv(i)'
  <2>1. LocalInv(i) /\ pc[i] = "scan"
    BY DEF IInv, ScanHit
  <2>2. graph'.and[i] = {} /\ graph'.or[i] = <<>>
    BY <2>1 DEF LocalInv, GraphOf, Waits, WaitLocations, ScanHit
  <2>3. Settled(i)' <=> i \in cancelled'
    BY <2>1 DEF LocalInv, SettledOf, Settled, ScanHit
  <2>4. AllSettled(need[i])' /\ ~InAwaitAny(i)'
    BY <1>1, <1>5 DEF AllSettled, Settled, InAwaitAny, ScanHit
  <2> QED
    BY <1>5, <2>2, <2>3, <2>4
    DEF LocalInv, WantOf, GraphOf, SettledOf, PromiseOf, VainOf, Waits, WaitLocations
<1>7. QuietOf(i)' /\ RecheckOf(i)'
  BY <1>5 DEF QuietOf, RecheckOf
<1>8. lock' \in {i, NoOne} /\ cell' = cell /\ cancelled' = cancelled
  BY DEF ScanHit
<1> QED
  BY <1>2, <1>3, <1>4, <1>5, <1>6, <1>7, <1>8, OwnStep

\* A cancelled await_any has a settled target, so it never gets here.
LEMMA ScanMissStep ==
    ASSUME IInv, NEW i \in Innies, ScanMiss(i)
    PROVE  IInv'
<1> DEFINE M == Members(want[i])
           g == PushOrGroup(graph, i, M)
<1>1. LocalInv(i) /\ pc[i] = "scan" /\ InAwaitAny(i)
  BY DEF IInv, LocalInv, WantOf, ScanMiss
<1>2. i \notin cancelled /\ ~Settled(i) /\ \A t \in M : ~Settled(t)
  BY <1>1 DEF LocalInv, PromiseOf, SettledOf, ScanMiss
<1>3. graph.and[i] = {} /\ graph.or[i] = <<>>
  BY <1>1 DEF LocalInv, GraphOf, Waits, WaitLocations
<1>4. M \in SUBSET Innies /\ graph \in Graphs
  BY MembersAre DEF IInv, TypeOK
<1>5. Append(graph.or[i], M) = <<M>>
  BY <1>3, <1>4
<1>6. /\ g \in Graphs
      /\ \A j \in Innies : g.and[j] = graph.and[j]
      /\ \A j \in Innies : j # i => g.or[j] = graph.or[j]
      /\ g.or[i] = <<M>>
  <2> HIDE DEF M
  <2>1. /\ g \in Graphs
        /\ \A j \in Innies : g.and[j] = graph.and[j]
        /\ \A j \in Innies : g.or[j] = IF j = i THEN Append(graph.or[j], M) ELSE graph.or[j]
    BY <1>4, PushOrGroupIs
  <2> QED
    BY <1>5, <2>1
<1>7. /\ graph' = g
      /\ pc' = [pc EXCEPT ![i] = "detect"]
      /\ UNCHANGED <<cell, cancelled, lock, need, want, resolved, calls>>
  BY <1>2 DEF ScanMiss
<1> HIDE DEF g
<1>8. TypeOK'
  BY <1>6, <1>7 DEF IInv, TypeOK, Locations, InSection
<1>9. LockInv'
  BY <1>1, <1>7 DEF IInv, TypeOK, LockInv, InSection
<1>10. \A j \in Innies : j # i => Untouched(j)
  BY <1>6, <1>7 DEF IInv, TypeOK, Untouched
<1>11. pc'[i] = "detect"
  BY <1>7 DEF IInv, TypeOK
<1>12. LocalInv(i)'
  <2>1. graph'.and[i] = {} /\ graph'.or[i] = <<Members(want[i])'>>
    <3>1. Members(want[i])' = M
      BY <1>7 DEF Members
    <3> HIDE DEF M
    <3> QED
      BY <1>3, <1>6, <1>7, <3>1
  <2>2. /\ i \notin cancelled' /\ ~Settled(i)' /\ InAwaitAny(i)'
    BY <1>1, <1>2, <1>7 DEF Settled, InAwaitAny
  <2>3. StillWaits(i)'
    <3>1. StillWaits(i)
      BY <1>1, <1>2 DEF StillWaits
    <3> QED
      BY <1>7, <3>1, WishKept
  <2> QED
    BY <1>11, <2>1, <2>2, <2>3
    DEF LocalInv, WantOf, GraphOf, SettledOf, PromiseOf, VainOf, Waits, WaitLocations
<1>13. QuietOf(i)' /\ RecheckOf(i)'
  BY <1>11 DEF QuietOf, RecheckOf
<1>14. lock' \in {i, NoOne}
  BY <1>1, <1>7 DEF IInv, LockInv, InSection
<1> QED
  BY <1>7, <1>8, <1>9, <1>10, <1>11, <1>12, <1>13, <1>14, OwnStep

LEMMA RecheckAllStep ==
    ASSUME IInv, NEW i \in Innies, RecheckAll(i)
    PROVE  IInv'
<1> DEFINE over == i \in cancelled \/ AllSettled(need[i])
<1>1. LocalInv(i) /\ pc[i] = "recheck" /\ ~InAwaitAny(i) /\ RecheckOf(i)
  BY DEF IInv, RecheckAll
<1>2. cell' = cell /\ cancelled' = cancelled /\ UNCHANGED <<need, want, resolved, calls>>
      /\ lock' = NoOne
  BY DEF RecheckAll
<1>3. /\ graph' \in Graphs
      /\ \A j \in Innies : graph'.and[j] = IF j = i /\ over THEN {} ELSE graph.and[j]
      /\ \A j \in Innies : graph'.or[j] = IF j = i /\ over THEN <<>> ELSE graph.or[j]
  <2>1. graph \in Graphs
    BY DEF IInv, TypeOK
  <2>2. CASE over
    <3>1. graph' = Clear(graph, {i})
      BY <2>2 DEF RecheckAll
    <3>2. /\ Clear(graph, {i}) \in Graphs
          /\ \A j \in Innies : Clear(graph, {i}).and[j] = IF j \in {i} THEN {} ELSE graph.and[j]
          /\ \A j \in Innies : Clear(graph, {i}).or[j] = IF j \in {i} THEN <<>> ELSE graph.or[j]
      BY <2>1, ClearIs
    <3> QED
      BY <2>2, <3>1, <3>2
  <2>3. CASE ~over
    BY <2>1, <2>3 DEF RecheckAll
  <2> QED
    BY <2>2, <2>3
<1>4. pc' = [pc EXCEPT ![i] = IF over THEN "returned" ELSE "asleep"]
  BY DEF RecheckAll
<1>5. TypeOK'
  BY <1>2, <1>3, <1>4 DEF IInv, TypeOK, Locations, InSection
<1>6. LockInv'
  BY <1>1, <1>2, <1>4, RegistryAssumption, CellsAssumption DEF IInv, TypeOK, LockInv, InSection
<1>7. \A j \in Innies : j # i => Untouched(j)
  BY <1>2, <1>3, <1>4 DEF IInv, TypeOK, Untouched
<1>8. /\ StillWaits(i)' <=> StillWaits(i)
      /\ ~InAwaitAny(i)'
      /\ \A t : Settled(t)' <=> Settled(t)
      /\ AllSettled(need[i])' <=> AllSettled(need[i])
  BY <1>1, <1>2, WishKept
<1>9. CASE over
  <2>1. pc'[i] = "returned" /\ graph'.and[i] = {} /\ graph'.or[i] = <<>>
    BY <1>3, <1>4, <1>9 DEF IInv, TypeOK
  <2>2. LocalInv(i)'
    BY <1>1, <1>2, <1>8, <1>9, <2>1
    DEF LocalInv, WantOf, GraphOf, SettledOf, PromiseOf, VainOf, Waits, WaitLocations
  <2>3. QuietOf(i)' /\ RecheckOf(i)'
    BY <2>1 DEF QuietOf, RecheckOf
  <2> QED
    BY <1>2, <1>5, <1>6, <1>7, <2>1, <2>2, <2>3, OwnStep
<1>10. CASE ~over
  <2>1. /\ pc'[i] = "asleep" /\ i \notin cancelled /\ StillWaits(i)
        /\ graph'.and[i] = graph.and[i] /\ graph'.or[i] = graph.or[i]
    BY <1>1, <1>3, <1>4, <1>10 DEF IInv, TypeOK, StillWaits
  <2>2. LocalInv(i)'
    BY <1>1, <1>2, <1>8, <2>1
    DEF LocalInv, WantOf, GraphOf, SettledOf, PromiseOf, VainOf, Waits, WaitLocations
  <2>3. QuietOf(i)' /\ RecheckOf(i)'
    BY <2>1 DEF QuietOf, RecheckOf
  <2>4. AwakeInv'
    BY <1>1, <1>7, <1>8, <2>1 DEF RecheckOf, AwakeInv, Untouched
  <2> QED
    BY <1>2, <1>5, <1>6, <1>7, <2>2, <2>3, <2>4, OwnStep
<1> QED
  BY <1>9, <1>10

\* An OR-waiter's stack holds one group at most, so popping leaves none.
LEMMA PopEmpties ==
    ASSUME TypeOK, NEW i \in Innies, LocalInv(i), InAwaitAny(i)
    PROVE  /\ PopOrGroup(graph, i) \in Graphs
           /\ \A j \in Innies : PopOrGroup(graph, i).and[j] = graph.and[j]
           /\ \A j \in Innies : PopOrGroup(graph, i).or[j] =
                                    IF j = i THEN <<>> ELSE graph.or[j]
           /\ graph.and[i] = {}
<1>1. graph \in Graphs
  BY DEF TypeOK
<1>2. graph.and[i] = {} /\ (graph.or[i] = <<>> \/ graph.or[i] = <<Members(want[i])>>)
  BY DEF LocalInv, GraphOf
<1>3. Len(graph.or[i]) <= 1
  <2> DEFINE M == Members(want[i])
  <2> HIDE DEF M
  <2>1. CASE graph.or[i] = <<>>
    BY <2>1
  <2>2. CASE graph.or[i] = <<M>>
    BY <2>2
  <2> QED
    BY <1>2, <2>1, <2>2 DEF M
<1> QED
  BY <1>1, <1>2, <1>3, PopOrGroupIs

LEMMA RecheckAnyStep ==
    ASSUME IInv, NEW i \in Innies, RecheckAny(i)
    PROVE  IInv'
<1>1. LocalInv(i) /\ pc[i] = "recheck" /\ InAwaitAny(i) /\ RecheckOf(i) /\ lock = i /\ TypeOK
  BY DEF IInv, RecheckAny, LockInv, InSection
<1>2. cell' = cell /\ cancelled' = cancelled /\ UNCHANGED <<need, want, resolved, calls>>
  BY DEF RecheckAny
<1>3. /\ StillWaits(i)' <=> StillWaits(i)
      /\ InAwaitAny(i)'
      /\ Members(want[i])' = Members(want[i])
      /\ \A t : Settled(t)' <=> Settled(t)
  BY <1>1, <1>2, WishKept
<1>4. CASE resolved[i]
  <2>1. graph' = PopOrGroup(graph, i) /\ pc' = [pc EXCEPT ![i] = "scan"] /\ lock' = lock
    BY <1>4 DEF RecheckAny
  <2>2. /\ graph' \in Graphs
        /\ \A j \in Innies : graph'.and[j] = graph.and[j]
        /\ \A j \in Innies : graph'.or[j] = IF j = i THEN <<>> ELSE graph.or[j]
        /\ graph.and[i] = {}
    BY <1>1, <2>1, PopEmpties
  <2>3. TypeOK'
    BY <1>1, <1>2, <2>1, <2>2 DEF TypeOK, Locations, InSection
  <2>4. LockInv'
    BY <1>1, <2>1 DEF IInv, TypeOK, LockInv, InSection
  <2>5. \A j \in Innies : j # i => Untouched(j)
    BY <1>1, <1>2, <2>1, <2>2 DEF TypeOK, Untouched
  <2>6. pc'[i] = "scan"
    BY <1>1, <2>1 DEF TypeOK
  <2>7. LocalInv(i)'
    BY <1>1, <1>2, <1>3, <2>2, <2>6
    DEF LocalInv, WantOf, GraphOf, SettledOf, PromiseOf, VainOf, Waits, WaitLocations
  <2>8. QuietOf(i)' /\ RecheckOf(i)'
    BY <2>6 DEF QuietOf, RecheckOf
  <2> QED
    BY <1>1, <1>2, <2>1, <2>3, <2>4, <2>5, <2>6, <2>7, <2>8, OwnStep
<1>5. CASE ~resolved[i]
  <2>1. graph' = graph /\ pc' = [pc EXCEPT ![i] = "asleep"] /\ lock' = NoOne
    BY <1>5 DEF RecheckAny
  <2>2. TypeOK'
    BY <1>1, <1>2, <2>1 DEF TypeOK, Locations, InSection
  <2>3. LockInv'
    BY <1>1, <2>1, RegistryAssumption, CellsAssumption DEF IInv, TypeOK, LockInv, InSection
  <2>4. \A j \in Innies : j # i => Untouched(j)
    BY <1>1, <1>2, <2>1 DEF TypeOK, Untouched
  <2>5. pc'[i] = "asleep" /\ i \notin cancelled /\ StillWaits(i)
    BY <1>1, <1>5, <2>1 DEF TypeOK, LocalInv, VainOf
  <2>6. LocalInv(i)'
    BY <1>1, <1>2, <1>3, <2>1, <2>5
    DEF LocalInv, WantOf, GraphOf, SettledOf, PromiseOf, VainOf, Waits, WaitLocations
  <2>7. QuietOf(i)' /\ RecheckOf(i)'
    BY <2>5 DEF QuietOf, RecheckOf
  <2>8. AwakeInv'
    BY <1>1, <1>3, <2>4, <2>5 DEF RecheckOf, AwakeInv, Untouched
  <2> QED
    BY <1>2, <2>1, <2>2, <2>3, <2>4, <2>6, <2>7, <2>8, OwnStep
<1> QED
  BY <1>4, <1>5

LEMMA WakeStep ==
    ASSUME IInv, NEW i \in Innies, Wake(i)
    PROVE  IInv'
<1>1. LocalInv(i) /\ pc[i] = "notified" /\ TypeOK
  BY DEF IInv, Wake
<1>2. /\ cell' = cell /\ cancelled' = cancelled /\ lock' = i
      /\ UNCHANGED <<need, want, resolved, calls>>
  BY DEF Wake
<1>3. /\ StillWaits(i)' <=> StillWaits(i)
      /\ InAwaitAny(i)' <=> InAwaitAny(i)
      /\ Members(want[i])' = Members(want[i])
      /\ \A t : Settled(t)' <=> Settled(t)
  BY <1>1, <1>2, WishKept
<1>4. CASE InAwaitAny(i)
  <2>1. graph' = PopOrGroup(graph, i) /\ pc' = [pc EXCEPT ![i] = "scan"]
    BY <1>4 DEF Wake
  <2>2. /\ graph' \in Graphs
        /\ \A j \in Innies : graph'.and[j] = graph.and[j]
        /\ \A j \in Innies : graph'.or[j] = IF j = i THEN <<>> ELSE graph.or[j]
        /\ graph.and[i] = {}
    BY <1>1, <1>4, <2>1, PopEmpties
  <2>3. TypeOK'
    BY <1>1, <1>2, <2>1, <2>2 DEF TypeOK, Locations, InSection
  <2>4. LockInv'
    BY <1>2, <2>1, RegistryAssumption, CellsAssumption DEF IInv, TypeOK, LockInv, InSection, Wake
  <2>5. \A j \in Innies : j # i => Untouched(j)
    BY <1>1, <1>2, <2>1, <2>2 DEF TypeOK, Untouched
  <2>6. pc'[i] = "scan"
    BY <1>1, <2>1 DEF TypeOK
  <2>7. LocalInv(i)'
    BY <1>1, <1>2, <1>3, <1>4, <2>2, <2>6
    DEF LocalInv, WantOf, GraphOf, SettledOf, PromiseOf, VainOf, Waits, WaitLocations
  <2>8. QuietOf(i)' /\ RecheckOf(i)'
    BY <2>6 DEF QuietOf, RecheckOf
  <2> QED
    BY <1>2, <2>3, <2>4, <2>5, <2>6, <2>7, <2>8, OwnStep
<1>5. CASE ~InAwaitAny(i)
  <2>1. graph' = graph /\ pc' = [pc EXCEPT ![i] = "detect"]
    BY <1>5 DEF Wake
  <2>2. TypeOK'
    BY <1>1, <1>2, <2>1 DEF TypeOK, Locations, InSection
  <2>3. LockInv'
    BY <1>2, <2>1, RegistryAssumption, CellsAssumption DEF IInv, TypeOK, LockInv, InSection, Wake
  <2>4. \A j \in Innies : j # i => Untouched(j)
    BY <1>1, <1>2, <2>1 DEF TypeOK, Untouched
  <2>5. pc'[i] = "detect"
    BY <1>1, <2>1 DEF TypeOK
  <2>6. LocalInv(i)'
    BY <1>1, <1>2, <1>3, <1>5, <2>1, <2>5
    DEF LocalInv, WantOf, GraphOf, SettledOf, PromiseOf, VainOf, Waits, WaitLocations
  <2>7. QuietOf(i)' /\ RecheckOf(i)'
    BY <2>5 DEF QuietOf, RecheckOf
  <2> QED
    BY <1>2, <2>2, <2>3, <2>4, <2>5, <2>6, <2>7, OwnStep
<1> QED
  BY <1>4, <1>5

LEMMA AskCancelledStep ==
    ASSUME IInv, NEW i \in Innies, AskCancelled(i)
    PROVE  IInv'
<1>1. LocalInv(i) /\ pc[i] = "returned" /\ TypeOK /\ ~InAwaitAny(i)
  BY DEF IInv, AskCancelled, LocalInv, WantOf, WaitLocations
<1>2. /\ cell' = cell /\ cancelled' = cancelled /\ lock' = NoOne
      /\ UNCHANGED <<graph, want, resolved, calls>>
  BY DEF AskCancelled
<1>3. ~InAwaitAny(i)' /\ \A t : Settled(t)' <=> Settled(t)
  BY <1>1, <1>2 DEF InAwaitAny, Settled
<1>4. /\ pc' = [pc EXCEPT ![i] = IF i \in cancelled THEN "exited" ELSE "read"]
      /\ need' = [need EXCEPT ![i] = IF i \in cancelled THEN {} ELSE need[i]]
  BY <1>1 DEF AskCancelled, TypeOK
<1>5. TypeOK'
  BY <1>1, <1>2, <1>4 DEF TypeOK, Locations, InSection
<1>6. LockInv'
  BY <1>1, <1>2, <1>4 DEF IInv, TypeOK, LockInv, InSection, AskCancelled
<1>7. \A j \in Innies : j # i => Untouched(j)
  BY <1>1, <1>2, <1>4 DEF TypeOK, Untouched
<1>8. LocalInv(i)'
  <2>1. CASE i \in cancelled
    <3>1. pc'[i] = "exited"
      BY <1>1, <1>4, <2>1 DEF TypeOK
    <3> QED
      BY <1>1, <1>2, <1>3, <2>1, <3>1
      DEF LocalInv, WantOf, GraphOf, SettledOf, PromiseOf, VainOf, Waits, WaitLocations
  <2>2. CASE i \notin cancelled
    <3>1. pc'[i] = "read" /\ need'[i] = need[i]
      BY <1>1, <1>4, <2>2 DEF TypeOK
    <3>2. AllSettled(need[i])' <=> AllSettled(need[i])
      BY <1>3, <3>1 DEF AllSettled
    <3> QED
      BY <1>1, <1>2, <1>3, <2>2, <3>1, <3>2
      DEF LocalInv, WantOf, GraphOf, SettledOf, PromiseOf, VainOf, Waits, WaitLocations
  <2> QED
    BY <2>1, <2>2
<1>9. pc'[i] \in {"exited", "read"}
  BY <1>1, <1>4 DEF TypeOK
<1>10. QuietOf(i)' /\ RecheckOf(i)'
  BY <1>9 DEF QuietOf, RecheckOf
<1> QED
  BY <1>2, <1>5, <1>6, <1>7, <1>8, <1>9, <1>10, OwnStep

LEMMA ReadStep ==
    ASSUME IInv, NEW i \in Innies, Read(i)
    PROVE  IInv'
<1>1. LocalInv(i) /\ pc[i] = "read" /\ TypeOK /\ ~InAwaitAny(i)
  BY DEF IInv, Read, LocalInv, WantOf, WaitLocations
<1>2. /\ cell' = cell /\ cancelled' = cancelled /\ lock' = NoOne
      /\ UNCHANGED <<graph, want, resolved, calls>>
      /\ pc' = [pc EXCEPT ![i] = "run"] /\ need' = [need EXCEPT ![i] = {}]
  BY DEF Read
<1>3. ~InAwaitAny(i)' /\ \A t : Settled(t)' <=> Settled(t)
  BY <1>1, <1>2 DEF InAwaitAny, Settled
<1>4. TypeOK'
  BY <1>1, <1>2 DEF TypeOK, Locations, InSection
<1>5. LockInv'
  BY <1>1, <1>2 DEF IInv, TypeOK, LockInv, InSection, Read
<1>6. \A j \in Innies : j # i => Untouched(j)
  BY <1>1, <1>2 DEF TypeOK, Untouched
<1>7. pc'[i] = "run"
  BY <1>1, <1>2 DEF TypeOK
<1>8. LocalInv(i)'
  BY <1>1, <1>2, <1>3, <1>7
  DEF LocalInv, WantOf, GraphOf, SettledOf, PromiseOf, VainOf, Waits, WaitLocations
<1>9. QuietOf(i)' /\ RecheckOf(i)'
  BY <1>7 DEF QuietOf, RecheckOf
<1> QED
  BY <1>2, <1>4, <1>5, <1>6, <1>7, <1>8, <1>9, OwnStep

\* No thread that runs is cancelled: it goes on to settle.
LEMMA FinishStep ==
    ASSUME IInv, NEW i \in Innies, Finish(i)
    PROVE  IInv'
<1>1. LocalInv(i) /\ pc[i] = "run" /\ TypeOK /\ ~InAwaitAny(i) /\ i \notin cancelled
  BY DEF IInv, Finish, LocalInv, WantOf, SettledOf, WaitLocations
<1>2. /\ cell' = cell /\ cancelled' = cancelled /\ lock' = NoOne
      /\ UNCHANGED <<graph, need, want, resolved, calls>>
      /\ pc' = [pc EXCEPT ![i] = "settle"]
  BY <1>1 DEF Finish
<1>3. ~InAwaitAny(i)' /\ \A t : Settled(t)' <=> Settled(t)
  BY <1>1, <1>2 DEF InAwaitAny, Settled
<1>4. TypeOK'
  BY <1>1, <1>2 DEF TypeOK, Locations, InSection
<1>5. LockInv'
  BY <1>1, <1>2 DEF IInv, TypeOK, LockInv, InSection, Finish
<1>6. \A j \in Innies : j # i => Untouched(j)
  BY <1>1, <1>2 DEF TypeOK, Untouched
<1>7. pc'[i] = "settle"
  BY <1>1, <1>2 DEF TypeOK
<1>8. LocalInv(i)'
  BY <1>1, <1>2, <1>3, <1>7
  DEF LocalInv, WantOf, GraphOf, SettledOf, PromiseOf, VainOf, Waits, WaitLocations
<1>9. QuietOf(i)' /\ RecheckOf(i)'
  BY <1>7 DEF QuietOf, RecheckOf
<1> QED
  BY <1>2, <1>4, <1>5, <1>6, <1>7, <1>8, <1>9, OwnStep

\* The gate.  Closed, it leaves an unsettled Innie that does not sleep: one
\* outside the graph computes, and one whose wait holds has been woken.
LEMMA DetectStep ==
    ASSUME IInv, NEW i \in Innies, Detect(i)
    PROVE  IInv'
<1>1. /\ LocalInv(i) /\ pc[i] = "detect" /\ TypeOK /\ lock = i
      /\ \A j \in Innies : LocalInv(j)
  BY DEF IInv, Detect, LockInv, InSection
<1>2. /\ cell' = cell /\ cancelled' = cancelled /\ lock' = lock
      /\ UNCHANGED <<graph, need, want, calls>>
      /\ resolved' = [resolved EXCEPT ![i] = FALSE]
      /\ pc' = [pc EXCEPT ![i] = IF Quiescent THEN "resolve" ELSE "recheck"]
  BY DEF Detect
<1>3. TypeOK'
  BY <1>1, <1>2 DEF TypeOK, Locations, InSection
<1>4. LockInv'
  BY <1>1, <1>2 DEF IInv, TypeOK, LockInv, InSection
<1>5. \A j \in Innies : j # i => Untouched(j)
  BY <1>1, <1>2 DEF TypeOK, Untouched
<1>6. /\ pc'[i] = IF Quiescent THEN "resolve" ELSE "recheck"
      /\ ~resolved'[i]
  BY <1>1, <1>2 DEF TypeOK
<1>7. \A j \in Innies : /\ StillWaits(j)' <=> StillWaits(j)
                        /\ InAwaitAny(j)' <=> InAwaitAny(j)
                        /\ Members(want[j])' = Members(want[j])
                        /\ \A t : Settled(t)' <=> Settled(t)
  BY <1>2, WishKept
<1>8. LocalInv(i)'
  BY <1>1, <1>2, <1>6, <1>7
  DEF LocalInv, WantOf, GraphOf, SettledOf, PromiseOf, VainOf, Waits, WaitLocations
<1>9. \A j \in Innies : /\ j \in Blocked(graph) <=> Waits(j)
                        /\ Waits(j) => (WaitSatisfied(j) <=> ~StillWaits(j))
  BY <1>1, BlockedIsWaiting, SatisfiedIsOver DEF LocalInv
<1>10. QuietOf(i)'
  <2>1. CASE Quiescent
    <3>1. \A j \in Innies : ~Settled(j) => j \in Blocked(graph) /\ StillWaits(j)
      BY <1>9, <2>1 DEF Quiescent
    <3>2. Blocked(graph)' = Blocked(graph)
      BY <1>2 DEF Blocked
    <3> QED
      BY <1>7, <3>1, <3>2 DEF QuietOf
  <2>2. CASE ~Quiescent
    BY <1>6, <2>2 DEF QuietOf
  <2> QED
    BY <2>1, <2>2
<1>11. RecheckOf(i)'
  <2> SUFFICES ASSUME ~Quiescent, NEW j0 \in Innies, ~Settled(j0)
               PROVE  \E j \in Innies : /\ ~Settled(j)' /\ pc'[j] # "asleep"
                                        /\ j = i => ~StillWaits(j)'
    BY <1>6, <1>7 DEF RecheckOf
  <2>1. PICK j \in Innies : ~Settled(j) /\ (~Waits(j) \/ ~StillWaits(j))
    BY <1>9 DEF Quiescent
  <2>2. CASE ~Waits(j)
    <3>1. j \notin cancelled
      BY <1>1, <2>1 DEF LocalInv, SettledOf
    <3>2. pc[j] \notin WaitLocations
      BY <2>2, <3>1 DEF Waits
    <3>3. j # i /\ pc[j] # "asleep"
      BY <1>1, <3>2 DEF WaitLocations
    <3> QED
      BY <1>5, <1>7, <2>1, <3>3 DEF Untouched
  <2>3. CASE ~StillWaits(j)
    <3>1. pc[j] # "asleep"
      BY <1>1, <2>3 DEF LocalInv, VainOf
    <3>2. pc'[j] # "asleep"
      BY <1>5, <1>6, <3>1 DEF Untouched
    <3> QED
      BY <1>7, <2>1, <2>3, <3>2
  <2> QED
    BY <2>1, <2>2, <2>3
<1>12. pc'[i] # "asleep"
  BY <1>6
<1> QED
  BY <1>1, <1>2, <1>3, <1>4, <1>5, <1>8, <1>10, <1>11, <1>12, OwnStep

\* The detecting thread found no cycle, so the Blocked ones are no knot: one of
\* them has a way forward, which ends among settled Innies, and it was woken.
LEMMA NoCycleLeftStep ==
    ASSUME IInv, NEW i \in Innies, NoCycleLeft(i)
    PROVE  IInv'
<1>1. /\ LocalInv(i) /\ pc[i] = "resolve" /\ TypeOK /\ lock = i /\ QuietOf(i)
      /\ \A j \in Innies : LocalInv(j)
  BY DEF IInv, NoCycleLeft, LockInv, InSection
<1>2. /\ cell' = cell /\ cancelled' = cancelled /\ lock' = lock
      /\ UNCHANGED <<graph, need, want, resolved, calls>>
      /\ pc' = [pc EXCEPT ![i] = "recheck"]
      /\ FindCycle(graph) = {}
  BY DEF NoCycleLeft
<1>3. TypeOK'
  BY <1>1, <1>2 DEF TypeOK, Locations, InSection
<1>4. LockInv'
  BY <1>1, <1>2 DEF IInv, TypeOK, LockInv, InSection
<1>5. \A j \in Innies : j # i => Untouched(j)
  BY <1>1, <1>2 DEF TypeOK, Untouched
<1>6. pc'[i] = "recheck"
  BY <1>1, <1>2 DEF TypeOK
<1>7. \A j \in Innies : /\ StillWaits(j)' <=> StillWaits(j)
                        /\ InAwaitAny(j)' <=> InAwaitAny(j)
                        /\ Members(want[j])' = Members(want[j])
                        /\ \A t : Settled(t)' <=> Settled(t)
  BY <1>2, WishKept
<1>8. LocalInv(i)'
  BY <1>1, <1>2, <1>6, <1>7
  DEF LocalInv, WantOf, GraphOf, SettledOf, PromiseOf, VainOf, Waits, WaitLocations
<1>9. \A t \in Innies : t \notin Blocked(graph) => Settled(t)
  BY <1>1 DEF QuietOf
<1>10. ASSUME NEW j0 \in Innies, ~Settled(j0)
       PROVE  \E n \in Innies : ~Settled(n) /\ ~StillWaits(n)
  <2>1. Blocked(graph) # {}
    BY <1>9, <1>10
  <2>2. ~IsKnot(graph, Blocked(graph))
    <3>1. StuckSet(graph) = {}
      BY <1>2, StuckHasCycle
    <3> QED
      BY <2>1, <3>1, StuckSetIsGreatestKnot
  <2>3. PICK n \in Blocked(graph) : HasWayForward(graph, n, Blocked(graph))
    BY <2>2 DEF IsKnot
  <2>4. n \in Innies /\ LocalInv(n)
    BY <1>1 DEF Blocked
  <2>5. Waits(n)
    BY <2>4, BlockedIsWaiting DEF LocalInv
  <2>6. ~Settled(n)
    BY <2>4, <2>5 DEF LocalInv, SettledOf, Waits, WaitLocations
  <2>7. CASE InAwaitAny(n)
    <3> DEFINE M == Members(want[n])
    <3>1. graph.or[n] = <<M>>
      BY <2>4, <2>5, <2>7 DEF LocalInv, GraphOf
    <3>2. M # {} /\ M \subseteq Innies
      <4>1. want[n] \in Seq(Innies) /\ want[n] # <<>>
        BY <1>1, <2>4, <2>7 DEF TypeOK, InAwaitAny
      <4>2. 1 \in DOMAIN want[n]
        BY <4>1, LenProperties, EmptySeq
      <4> QED
        BY <4>1, <4>2, MembersAre
    <3>3. ~(M \subseteq Blocked(graph))
      <4>1. OrGroups(graph, n) = {M}
        <5> HIDE DEF M
        <5> QED
          BY <3>1 DEF OrGroups
      <4> QED
        BY <2>3, <3>2, <4>1 DEF HasWayForward
    <3>4. PICK t \in M : t \notin Blocked(graph)
      BY <3>3
    <3>5. Settled(t)
      BY <1>9, <3>2, <3>4
    <3> QED
      BY <2>4, <2>6, <2>7, <3>5 DEF StillWaits
  <2>8. CASE ~InAwaitAny(n)
    <3>1. /\ graph.and[n] \subseteq need[n]
          /\ \A t \in need[n] \ graph.and[n] : Settled(t)
          /\ need[n] \subseteq Innies
      BY <1>1, <2>4, <2>5, <2>8 DEF LocalInv, GraphOf, TypeOK
    <3>2. graph.and[n] \cap Blocked(graph) = {}
      BY <2>3 DEF HasWayForward, AndEdges
    <3>3. AllSettled(need[n])
      BY <1>9, <3>1, <3>2 DEF AllSettled
    <3> QED
      BY <2>4, <2>6, <2>8, <3>3 DEF StillWaits
  <2> QED
    BY <2>7, <2>8
<1>11. RecheckOf(i)'
  <2> SUFFICES ASSUME NEW j0 \in Innies, ~Settled(j0)
               PROVE  \E j \in Innies : /\ ~Settled(j)' /\ pc'[j] # "asleep"
                                        /\ j = i => ~StillWaits(j)'
    BY <1>7 DEF RecheckOf
  <2>1. PICK n \in Innies : ~Settled(n) /\ ~StillWaits(n)
    BY <1>10
  <2>2. pc[n] # "asleep"
    BY <1>1, <2>1 DEF LocalInv, VainOf
  <2>3. pc'[n] # "asleep"
    BY <1>5, <1>6, <2>2 DEF Untouched
  <2> QED
    BY <1>7, <2>1, <2>3
<1>12. QuietOf(i)'
  BY <1>6 DEF QuietOf
<1> QED
  BY <1>1, <1>2, <1>3, <1>4, <1>5, <1>6, <1>8, <1>11, <1>12, OwnStep

-----------------------------------------------------------------------------
\* A step that settles something wakes every sleeper and leaves the rest of
\* each thread as it is.
Woken(j) ==
    /\ pc'[j] = IF pc[j] = "asleep" THEN "notified" ELSE pc[j]
    /\ want'[j] = want[j] /\ need'[j] = need[j]

LEMMA WokenKept ==
    ASSUME TypeOK, NEW j \in Innies, LocalInv(j), Woken(j),
           \A t \in Innies : Settled(t) => Settled(t)',
           Settled(j)' <=> Settled(j), j \in cancelled' <=> j \in cancelled,
           graph'.and[j] = graph.and[j], graph'.or[j] = graph.or[j],
           pc[j] \in {"detect", "resolve", "recheck"} => pc[j] # "detect" /\ resolved'[j]
    PROVE  LocalInv(j)'
<1>1. /\ InAwaitAny(j)' <=> InAwaitAny(j)
      /\ Waits(j)' <=> Waits(j)
      /\ Members(want[j])' = Members(want[j])
  BY DEF Woken, InAwaitAny, Waits, WaitLocations, Members
<1>2. need[j] \subseteq Innies /\ Members(want[j]) \subseteq Innies
  BY MembersAre DEF TypeOK
<1>3. AllSettled(need[j]) => AllSettled(need[j])'
  BY <1>2 DEF Woken, AllSettled
<1>4. WantOf(j)'
  BY <1>1 DEF LocalInv, WantOf, Woken, WaitLocations
<1>5. GraphOf(j)'
  BY <1>1, <1>2 DEF LocalInv, GraphOf, Woken
<1>6. SettledOf(j)'
  BY DEF LocalInv, SettledOf, Woken
<1>7. PromiseOf(j)'
  BY <1>1, <1>2, <1>3 DEF LocalInv, PromiseOf, Woken
<1>8. VainOf(j)'
  BY DEF VainOf, Woken
<1> QED
  BY <1>4, <1>5, <1>6, <1>7, <1>8 DEF LocalInv

LEMMA SettleStep ==
    ASSUME IInv, NEW i \in Innies, NEW r \in Results, Settle(i, r)
    PROVE  IInv'
<1>1. /\ LocalInv(i) /\ pc[i] = "settle" /\ TypeOK /\ lock = NoOne
      /\ \A j \in Innies : LocalInv(j)
      /\ \A j \in Innies : pc[j] \notin InSection
  BY RegistryAssumption, CellsAssumption DEF IInv, Settle, LockInv
<1>2. ~Settled(i) /\ i \notin cancelled /\ ~InAwaitAny(i)
  BY <1>1 DEF LocalInv, SettledOf, WantOf, WaitLocations
<1>3. /\ cell' = [cell EXCEPT ![i] = r]
      /\ pc' = [Notify(pc) EXCEPT ![i] = "exited"]
      /\ UNCHANGED <<graph, cancelled, lock, need, want, resolved, calls>>
  BY <1>2 DEF Settle
<1>4. \A j \in Innies : pc'[j] = IF j = i THEN "exited"
                                 ELSE IF pc[j] = "asleep" THEN "notified" ELSE pc[j]
  BY <1>3 DEF Notify
<1>5. TypeOK'
  <2>1. pc' \in [Innies -> Locations]
    BY <1>1, <1>3 DEF TypeOK, Notify, Locations, InSection
  <2> QED
    BY <1>1, <1>3, <2>1 DEF TypeOK
<1>6. LockInv'
  BY <1>1, <1>3, <1>4, RegistryAssumption, CellsAssumption DEF LockInv, InSection
<1>7. /\ Settled(i)'
      /\ \A t \in Innies : Settled(t) => Settled(t)'
      /\ \A t \in Innies : t # i => (Settled(t)' <=> Settled(t))
  BY <1>1, <1>2, <1>3, RegistryAssumption, CellsAssumption DEF TypeOK, Settled
<1>8. ASSUME NEW j \in Innies PROVE LocalInv(j)'
  <2>1. CASE j = i
    <3>1. graph'.and[i] = {} /\ graph'.or[i] = <<>>
      BY <1>1, <1>3 DEF LocalInv, GraphOf, Waits, WaitLocations
    <3>2. ~InAwaitAny(i)' /\ pc'[i] = "exited"
      BY <1>2, <1>3, <1>4 DEF InAwaitAny
    <3> QED
      BY <1>7, <2>1, <3>1, <3>2
      DEF LocalInv, WantOf, GraphOf, SettledOf, PromiseOf, VainOf, Waits, WaitLocations
  <2>2. CASE j # i
    BY <1>1, <1>3, <1>4, <1>7, <2>2, WokenKept DEF Woken, InSection
  <2> QED
    BY <2>1, <2>2
<1>9. ASSUME NEW j \in Innies PROVE QuietOf(j)' /\ RecheckOf(j)'
  BY <1>1, <1>4 DEF QuietOf, RecheckOf, InSection
<1>10. AwakeInv'
  BY <1>4 DEF AwakeInv
<1> QED
  BY <1>5, <1>6, <1>8, <1>9, <1>10 DEF IInv

\* The members are unsettled waiters, each of which finds a member, now
\* settled, among what it waits for.
LEMMA ResolveCycleStep ==
    ASSUME IInv, NEW i \in Innies, ResolveCycle(i)
    PROVE  IInv'
<1> DEFINE members == FindCycle(graph)
<1>1. /\ LocalInv(i) /\ pc[i] = "resolve" /\ TypeOK /\ lock = i /\ QuietOf(i)
      /\ \A j \in Innies : LocalInv(j)
      /\ \A j \in Innies : j # i => pc[j] \notin InSection
  BY DEF IInv, ResolveCycle, LockInv, InSection
<1>2. /\ cancelled' = cancelled \cup members
      /\ graph' = Clear(graph, members)
      /\ cell' = [j \in Innies |-> IF j \in members /\ ~Settled(j)
                                   THEN DeadlockResult ELSE cell[j]]
      /\ pc' = Notify(pc)
      /\ resolved' = [resolved EXCEPT ![i] = TRUE]
      /\ UNCHANGED <<lock, need, want, calls>>
  BY DEF ResolveCycle
<1>3. \A n \in members :
          /\ n \in Innies /\ n \in Blocked(graph)
          /\ \E m \in members : m \in StuckEdges(graph, StuckSet(graph), n)
  BY CycleIsStuck DEF Blocked
<1> HIDE DEF members
<1>4. /\ graph' \in Graphs
      /\ \A j \in Innies : graph'.and[j] = IF j \in members THEN {} ELSE graph.and[j]
      /\ \A j \in Innies : graph'.or[j] = IF j \in members THEN <<>> ELSE graph.or[j]
  <2>1. graph \in Graphs
    BY <1>1 DEF TypeOK
  <2> QED
    BY <1>2, <2>1, ClearIs
<1>5. \A j \in Innies : pc'[j] = IF pc[j] = "asleep" THEN "notified" ELSE pc[j]
  BY <1>2 DEF Notify
<1>6. TypeOK'
  <2>1. pc' \in [Innies -> Locations]
    BY <1>1, <1>2 DEF TypeOK, Notify, Locations, InSection
  <2>2. cell' \in [Innies -> Results \cup {Pending}]
    BY <1>1, <1>2, RegistryAssumption, CellsAssumption DEF TypeOK
  <2>3. cancelled' \in SUBSET Innies
    BY <1>1, <1>2, <1>3 DEF TypeOK
  <2> QED
    BY <1>1, <1>2, <1>4, <2>1, <2>2, <2>3 DEF TypeOK
<1>7. LockInv'
  BY <1>1, <1>2, <1>5 DEF LockInv, InSection
<1>8. \A t \in Innies : Settled(t)' <=> Settled(t) \/ t \in members
  BY <1>2, RegistryAssumption, CellsAssumption DEF Settled
<1>9. ASSUME NEW j \in Innies PROVE LocalInv(j)'
  <2>1. CASE j \in members
    <3>1. Waits(j) /\ LocalInv(j)
      BY <1>1, <1>3, <2>1, BlockedIsWaiting DEF LocalInv
    <3>2. j \in cancelled' /\ Settled(j)'
      BY <1>2, <1>8, <2>1
    <3>3. pc'[j] \in WaitLocations \ {"asleep"}
      BY <1>5, <3>1 DEF Waits, WaitLocations
    <3>4. ~Waits(j)' /\ graph'.and[j] = {} /\ graph'.or[j] = <<>>
      BY <1>4, <2>1, <3>2 DEF Waits
    <3>5. InAwaitAny(j)' => \E t \in Members(want[j])' : Settled(t)'
      <4> SUFFICES ASSUME InAwaitAny(j)
                   PROVE  \E t \in Members(want[j]) : Settled(t)'
        BY <1>2 DEF InAwaitAny, Members
      <4>1. graph.and[j] = {} /\ graph.or[j] = <<Members(want[j])>>
        BY <3>1 DEF LocalInv, GraphOf
      <4>2. PICK m \in members : m \in StuckEdges(graph, StuckSet(graph), j)
        BY <1>3, <2>1
      <4>3. OrGroups(graph, j) = {Members(want[j])}
        BY <4>1 DEF OrGroups
      <4>4. m \in Members(want[j])
        BY <4>1, <4>2, <4>3 DEF StuckEdges, AndEdges
      <4> QED
        BY <1>3, <1>8, <4>4
    <3>6. pc'[j] = "detect" => FALSE
      BY <1>1, <1>5, <3>1 DEF InSection
    <3>7. pc'[j] \in {"resolve", "recheck"} => resolved'[j]
      BY <1>1, <1>2, <1>5 DEF InSection, TypeOK
    <3>8. WantOf(j)' /\ GraphOf(j)'
      BY <3>3, <3>4 DEF WantOf, GraphOf, WaitLocations
    <3>9. SettledOf(j)' /\ PromiseOf(j)'
      BY <3>2, <3>3, <3>5 DEF SettledOf, PromiseOf, WaitLocations
    <3>10. VainOf(j)'
      BY <3>3, <3>6, <3>7 DEF VainOf
    <3> QED
      BY <3>8, <3>9, <3>10 DEF LocalInv
  <2>2. CASE j \notin members
    <3>1. Woken(j) /\ LocalInv(j)
      BY <1>1, <1>2, <1>5 DEF Woken
    <3>2. /\ \A t \in Innies : Settled(t) => Settled(t)'
          /\ Settled(j)' <=> Settled(j)
          /\ j \in cancelled' <=> j \in cancelled
          /\ graph'.and[j] = graph.and[j] /\ graph'.or[j] = graph.or[j]
      BY <1>2, <1>4, <1>8, <2>2
    <3>3. pc[j] \in {"detect", "resolve", "recheck"} => pc[j] # "detect" /\ resolved'[j]
      BY <1>1, <1>2 DEF InSection, TypeOK
    <3> QED
      BY <1>1, <3>1, <3>2, <3>3, WokenKept
  <2> QED
    BY <2>1, <2>2
<1>10. ASSUME NEW j \in Innies PROVE QuietOf(j)' /\ RecheckOf(j)'
  <2>1. pc'[j] # "recheck" /\ (pc'[j] = "resolve" => j = i)
    BY <1>1, <1>5 DEF InSection
  <2>2. resolved'[i]
    BY <1>1, <1>2 DEF TypeOK
  <2>3. \A k \in Innies : ~Settled(k)' => k \in Blocked(graph)'
    BY <1>1, <1>4, <1>8 DEF QuietOf, Blocked
  <2> QED
    BY <2>1, <2>2, <2>3 DEF QuietOf, RecheckOf
<1>11. AwakeInv'
  BY <1>5 DEF AwakeInv
<1> QED
  BY <1>6, <1>7, <1>9, <1>10, <1>11 DEF IInv

-----------------------------------------------------------------------------
LEMMA StutterStep ==
    ASSUME IInv, UNCHANGED vars
    PROVE  IInv'
<1>1. TypeOK' /\ LockInv'
  BY DEF IInv, vars, TypeOK, LockInv
<1>2. ASSUME NEW j \in Innies PROVE LocalInv(j)'
  <2>1. Untouched(j) /\ cell' = cell /\ cancelled' = cancelled /\ LocalInv(j)
    BY DEF IInv, vars, Untouched
  <2> QED
    BY <2>1, UntouchedKept
<1>3. ASSUME NEW j \in Innies PROVE QuietOf(j)' /\ RecheckOf(j)'
  <2>1. \A k \in Innies : /\ StillWaits(k)' <=> StillWaits(k)
                          /\ Settled(k)' <=> Settled(k)
    BY WishKept DEF vars
  <2>2. Blocked(graph)' = Blocked(graph)
    BY DEF vars, Blocked
  <2>3. QuietOf(j) /\ RecheckOf(j)
    BY DEF IInv
  <2> QED
    BY <2>1, <2>2, <2>3 DEF QuietOf, RecheckOf, vars
<1>4. AwakeInv'
  BY DEF IInv, AwakeInv, vars, Settled
<1> QED
  BY <1>1, <1>2, <1>3, <1>4 DEF IInv

\* Every step of every thread keeps the invariant.
THEOREM StepKeepsIInv ==
    ASSUME IInv, [Next]_vars
    PROVE  IInv'
<1>1. ASSUME NEW i \in Innies, Step(i) PROVE IInv'
  <2>1. ASSUME NEW T \in AndCalls, AwaitInnies(i, T) PROVE IInv'
    BY <2>1, AwaitInniesStep
  <2>2. ASSUME NEW S \in OrCalls, AwaitAny(i, S) PROVE IInv'
    BY <2>2, AwaitAnyStep
  <2>3. ASSUME Protocol(i) PROVE IInv'
    <3>1. CASE ScanHit(i)
      BY <3>1, ScanHitStep
    <3>2. CASE ScanMiss(i)
      BY <3>2, ScanMissStep
    <3>3. CASE Detect(i)
      BY <3>3, DetectStep
    <3>4. CASE ResolveCycle(i)
      BY <3>4, ResolveCycleStep
    <3>5. CASE NoCycleLeft(i)
      BY <3>5, NoCycleLeftStep
    <3>6. CASE RecheckAll(i)
      BY <3>6, RecheckAllStep
    <3>7. CASE RecheckAny(i)
      BY <3>7, RecheckAnyStep
    <3>8. CASE Wake(i)
      BY <3>8, WakeStep
    <3>9. CASE AskCancelled(i)
      BY <3>9, AskCancelledStep
    <3> QED
      BY <2>3, <3>1, <3>2, <3>3, <3>4, <3>5, <3>6, <3>7, <3>8, <3>9 DEF Protocol
  <2>4. CASE Read(i)
    BY <2>4, ReadStep
  <2>5. CASE Finish(i)
    BY <2>5, FinishStep
  <2>6. ASSUME NEW r \in Results, Settle(i, r) PROVE IInv'
    BY <2>6, SettleStep
  <2> QED
    BY <1>1, <2>1, <2>2, <2>3, <2>4, <2>5, <2>6 DEF Step
<1>2. CASE Over
  BY <1>2, StutterStep DEF Over
<1>3. CASE UNCHANGED vars
  BY <1>3, StutterStep
<1> QED
  BY <1>1, <1>2, <1>3 DEF Next

\* Every reachable state of the Registry satisfies the inductive invariant.
THEOREM AlwaysIInv == Spec => []IInv
<1>1. Init => IInv
  BY InitIInv
<1>2. IInv /\ [Next]_vars => IInv'
  BY StepKeepsIInv
<1> QED
  BY <1>1, <1>2, PTL DEF Spec

-----------------------------------------------------------------------------
(***************************************************************************)
(* The properties of Registry.tla.                                         *)
(***************************************************************************)

\* Every variable keeps its type: in particular the wait-for graph names
\* Innies only, and a Cell holds a Result or nothing.
THEOREM TypeCorrect == Spec => []TypeOK
<1>1. IInv => TypeOK
  BY DEF IInv
<1> QED
  BY <1>1, AlwaysIInv, PTL

\* A resolver never reads a pending Cell: the AssertionError of result_locked
\* is unreachable, however is_cancelled and the reads interleave with others.
THEOREM ReadsSettled == Spec => []ReadsAreSettled
<1>1. IInv => ReadsAreSettled
  BY DEF IInv, LocalInv, SettledOf, PromiseOf, ReadsAreSettled
<1> QED
  BY <1>1, AlwaysIInv, PTL

\* commit and fault never find their Cell settled: DoubleSettle is unreachable
\* in run_innie.
THEOREM SettledOnce == Spec => []NoDoubleSettle
<1>1. IInv => NoDoubleSettle
  BY DEF IInv, LocalInv, SettledOf, NoDoubleSettle
<1> QED
  BY <1>1, AlwaysIInv, PTL

\* Nobody is resolved while it computes, reads or publishes.
THEOREM CancelledIsBlocked == Spec => []CancelledNeverComputes
<1>1. IInv => CancelledNeverComputes
  <2> SUFFICES ASSUME IInv, NEW i \in cancelled
               PROVE  pc[i] \notin {"run", "read", "settle"}
    BY DEF CancelledNeverComputes
  <2>1. i \in Innies
    BY DEF IInv, TypeOK
  <2> QED
    BY <2>1 DEF IInv, LocalInv, SettledOf
<1> QED
  BY <1>1, AlwaysIInv, PTL

\* A resolved await_any returns a target: it never raises Cancelled.
THEOREM CancelledReturns == Spec => []CancelledFindsTarget
<1>1. IInv => CancelledFindsTarget
  <2> SUFFICES ASSUME IInv, NEW i \in cancelled, pc[i] = "scan"
               PROVE  \E t \in Members(want[i]) : Settled(t)
    BY DEF CancelledFindsTarget
  <2>1. i \in Innies
    BY DEF IInv, TypeOK
  <2> QED
    BY <2>1 DEF IInv, LocalInv, WantOf, PromiseOf
<1> QED
  BY <1>1, AlwaysIInv, PTL

\* The wait-for graph holds the Innies that wait, each with one kind of wait,
\* and no others.
THEOREM GraphIsExact == Spec => []GraphIsWaiters
<1>1. IInv => GraphIsWaiters
  <2> SUFFICES ASSUME IInv, NEW i \in Innies
               PROVE  /\ graph.and[i] # {} <=> Waits(i) /\ ~InAwaitAny(i)
                      /\ graph.or[i] # <<>> <=> Waits(i) /\ InAwaitAny(i)
                      /\ Len(graph.or[i]) <= 1
                      /\ i \in Blocked(graph) => ~Settled(i)
    BY DEF GraphIsWaiters, Waits, WaitLocations
  <2> DEFINE M == Members(want[i])
  <2>1. LocalInv(i)
    BY DEF IInv
  <2>2. graph.or[i] = IF Waits(i) /\ InAwaitAny(i) THEN <<M>> ELSE <<>>
    BY <2>1 DEF LocalInv, GraphOf
  <2>3. graph.and[i] # {} <=> Waits(i) /\ ~InAwaitAny(i)
    BY <2>1 DEF LocalInv, GraphOf
  <2>4. i \in Blocked(graph) => ~Settled(i)
    BY <2>1, BlockedIsWaiting DEF LocalInv, SettledOf, Waits, WaitLocations
  <2> HIDE DEF M
  <2>5. CASE Waits(i) /\ InAwaitAny(i)
    <3>1. graph.or[i] = <<M>>
      BY <2>2, <2>5
    <3>2. Len(graph.or[i]) = 1 /\ graph.or[i] # <<>>
      BY <3>1
    <3> QED
      BY <2>3, <2>4, <2>5, <3>2
  <2>6. CASE ~(Waits(i) /\ InAwaitAny(i))
    <3>1. graph.or[i] = <<>>
      BY <2>2, <2>6
    <3>2. Len(graph.or[i]) = 0
      BY <3>1
    <3> QED
      BY <2>3, <2>4, <2>6, <3>1, <3>2
  <2> QED
    BY <2>5, <2>6
<1> QED
  BY <1>1, AlwaysIInv, PTL

\* Nobody sleeps while what it waits for is there: no wakeup is lost.
THEOREM SleepersWaitInVain == Spec => []SleepersMustWait
<1>1. IInv => SleepersMustWait
  BY DEF IInv, LocalInv, VainOf, SleepersMustWait
<1> QED
  BY <1>1, AlwaysIInv, PTL

\* The threads never all sleep or end with a Cell still pending: every
\* deadlock is detected.
THEOREM NotAllAsleep == Spec => []SomeoneIsAwake
<1>1. IInv => SomeoneIsAwake
  BY DEF IInv, LocalInv, SettledOf, AwakeInv, SomeoneIsAwake
<1> QED
  BY <1>1, AlwaysIInv, PTL

\* A thread that is over has left a result behind.
THEOREM ExitedSettled == Spec => []ExitedHasSettled
<1>1. IInv => ExitedHasSettled
  BY DEF IInv, LocalInv, SettledOf, ExitedHasSettled
<1> QED
  BY <1>1, AlwaysIInv, PTL

\* Only a resolution and a thread's own last step write a Cell.
LEMMA WhoWrites ==
    ASSUME [Next]_vars
    PROVE  \/ cell' = cell /\ cancelled' = cancelled
           \/ \E i \in Innies : ResolveCycle(i)
           \/ \E i \in Innies : \E r \in Results : Settle(i, r)
<1>1. ASSUME NEW i \in Innies, Protocol(i), ~ResolveCycle(i)
      PROVE  cell' = cell /\ cancelled' = cancelled
  BY <1>1 DEF Protocol, ScanHit, ScanMiss, Detect, NoCycleLeft, RecheckAll,
              RecheckAny, Wake, AskCancelled
<1>2. ASSUME NEW i \in Innies, Step(i), ~ResolveCycle(i),
             ~\E r \in Results : Settle(i, r)
      PROVE  cell' = cell /\ cancelled' = cancelled
  BY <1>1, <1>2 DEF Step, AwaitInnies, AwaitAny, Read, Finish
<1>3. CASE Over \/ UNCHANGED vars
  BY <1>3 DEF Over, vars
<1> QED
  BY <1>2, <1>3 DEF Next

\* A step writes pending Cells only.
LEMMA SettledKept ==
    ASSUME IInv, [Next]_vars, NEW j \in Innies, Settled(j)
    PROVE  cell'[j] = cell[j]
<1>1. ASSUME NEW i \in Innies, ResolveCycle(i) PROVE cell'[j] = cell[j]
  BY <1>1 DEF ResolveCycle
<1>2. ASSUME NEW i \in Innies, NEW r \in Results, Settle(i, r)
      PROVE  cell'[j] = cell[j]
  BY <1>2 DEF Settle, IInv, TypeOK
<1> QED
  BY <1>1, <1>2, WhoWrites

\* The gate is sound: when a cycle is resolved, every unsettled Innie is inside
\* a blocking call, in vain unless this detection has settled something.
THEOREM ResolvedInQuiet == Spec => ResolvedOnlyWhenQuiet
<1> DEFINE Quiet ==
      cancelled' # cancelled =>
        \A i \in Innies :
            \/ Settled(i)
            \/ /\ pc[i] \in {"resolve", "asleep", "notified"}
               /\ resolved[lock] \/ StillWaits(i)
<1>1. IInv /\ [Next]_vars => [Quiet]_vars
  <2> SUFFICES ASSUME IInv, [Next]_vars, cancelled' # cancelled,
                      NEW j \in Innies, ~Settled(j)
               PROVE  /\ pc[j] \in {"resolve", "asleep", "notified"}
                      /\ resolved[lock] \/ StillWaits(j)
    OBVIOUS
  <2>1. PICK i \in Innies : ResolveCycle(i)
    BY WhoWrites DEF Settle
  <2>2. lock = i /\ pc[i] = "resolve"
    BY <2>1 DEF ResolveCycle, IInv, LockInv, InSection
  <2>3. j \in Blocked(graph) /\ (resolved[lock] \/ StillWaits(j))
    BY <2>2 DEF IInv, QuietOf
  <2>4. Waits(j)
    BY <2>3, BlockedIsWaiting DEF IInv, LocalInv
  <2>5. pc[j] \notin {"detect", "recheck"}
    BY <2>2 DEF IInv, LockInv, InSection
  <2> QED
    BY <2>3, <2>4, <2>5 DEF Waits, WaitLocations
<1> QED
  BY <1>1, AlwaysIInv, PTL DEF Spec, ResolvedOnlyWhenQuiet

-----------------------------------------------------------------------------
(***************************************************************************)
(* The Registry implements Workday: every step of a thread is a step of    *)
(* the abstract specification or leaves its state alone.  A resolution is  *)
(* an Unwork of the component find_cycle reports, the stuck set being the  *)
(* hopeless set it lies in.  And, at the end, who is resolved.             *)
(***************************************************************************)

InCall == InSection \cup {"asleep", "notified"}

Working == [for |-> "nothing", on |-> {}]

\* abstractWait, one Innie at a time.
WaitOf(i) ==
    IF Settled(i) \/ pc[i] \notin InCall THEN Working
    ELSE IF InAwaitAny(i) THEN [for |-> "any", on |-> Members(want[i])]
                          ELSE [for |-> "all", on |-> need[i]]

LEMMA AbstractWaitIs ==
    /\ abstractWait = [i \in Innies |-> WaitOf(i)]
    /\ \A i \in Innies : abstractWait[i] = WaitOf(i)
BY DEF abstractWait, WaitOf, Working, InCall

LEMMA AbstractWaitIsPrimed ==
    /\ abstractWait' = [i \in Innies |-> WaitOf(i)']
    /\ \A i \in Innies : abstractWait'[i] = WaitOf(i)'
BY DEF abstractWait, WaitOf, Working, InCall, Settled, InAwaitAny, Members

\* Who waits, in the abstract and in the Registry.
LEMMA WaitingIs ==
    ASSUME NEW i \in Innies
    PROVE  W!Waiting(i) <=> ~Settled(i) /\ pc[i] \in InCall
BY AbstractWaitIs DEF W!Waiting, W!Working, W!Settled, Settled, WaitOf, Working

\* What an Innie waits for is up to its own thread and its Cell.
Bystander(j) == pc'[j] = pc[j] /\ want'[j] = want[j] /\ need'[j] = need[j]

LEMMA BystanderWaits ==
    ASSUME NEW j \in Innies, Bystander(j), Settled(j)' <=> Settled(j)
    PROVE  WaitOf(j)' = WaitOf(j)
BY DEF Bystander, WaitOf, InAwaitAny, Members

\* A step that keeps the Cells and every wait is a stuttering step ...
LEMMA StutterIs ==
    ASSUME cell' = cell, \A j \in Innies : WaitOf(j)' = WaitOf(j)
    PROVE  UNCHANGED W!vars
BY AbstractWaitIs, AbstractWaitIsPrimed DEF W!vars

\* ... and one that changes one wait changes the abstract state at one place.
LEMMA ChangeIs ==
    ASSUME NEW i \in Innies, \A j \in Innies : j # i => WaitOf(j)' = WaitOf(j)
    PROVE  abstractWait' = [abstractWait EXCEPT ![i] = WaitOf(i)']
BY AbstractWaitIs, AbstractWaitIsPrimed

-----------------------------------------------------------------------------
\* Calls begin, end, and go on.

LEMMA AwaitInniesMaps ==
    ASSUME IInv, NEW i \in Innies, NEW T \in AndCalls, AwaitInnies(i, T)
    PROVE  [W!Next]_(W!vars)
<1>1. pc[i] = "run" /\ ~Settled(i) /\ ~InAwaitAny(i) /\ cell' = cell
  BY DEF IInv, LocalInv, WantOf, SettledOf, AwaitInnies, WaitLocations
<1>2. ~Settled(i)' /\ ~InAwaitAny(i)' /\ need'[i] = T /\ T \in SUBSET Innies
  BY <1>1, RegistryAssumption, CellsAssumption DEF Settled, InAwaitAny, AwaitInnies, IInv, TypeOK
<1>3. \A j \in Innies : j # i => WaitOf(j)' = WaitOf(j)
  <2>1. \A j \in Innies : j # i => Bystander(j)
    BY DEF AwaitInnies, Bystander, IInv, TypeOK
  <2> QED
    BY <1>1, <2>1, BystanderWaits DEF Settled
<1>4. WaitOf(i) = Working
  BY <1>1 DEF WaitOf, InCall, InSection
<1>5. CASE PendingOf(T) = {}
  <2>1. pc'[i] = "returned"
    BY <1>5 DEF AwaitInnies, IInv, TypeOK
  <2>2. WaitOf(i)' = Working
    BY <2>1 DEF WaitOf, InCall, InSection, Working
  <2> QED
    BY <1>1, <1>3, <1>4, <2>2, StutterIs
<1>6. CASE PendingOf(T) # {}
  <2> DEFINE w == [for |-> "all", on |-> T]
  <2>1. pc'[i] = "detect"
    BY <1>6 DEF AwaitInnies, IInv, TypeOK
  <2>2. WaitOf(i)' = w
    BY <1>2, <2>1 DEF WaitOf, InCall, InSection, Working
  <2>3. abstractWait' = [abstractWait EXCEPT ![i] = w]
    BY <1>3, <2>2, ChangeIs
  <2>4. w \in W!Waits
    BY <1>2 DEF W!Waits
  <2>5. abstractWait[i] = W!Working
    BY <1>4, AbstractWaitIs DEF Working, W!Working
  <2>6. W!StartWaiting(i, w)
    BY <1>1, <2>3, <2>5 DEF W!StartWaiting, W!Settled, Settled
  <2> QED
    BY <2>4, <2>6 DEF W!Next
<1> QED
  BY <1>5, <1>6

LEMMA AwaitAnyMaps ==
    ASSUME IInv, NEW i \in Innies, NEW S \in OrCalls, AwaitAny(i, S)
    PROVE  [W!Next]_(W!vars)
<1> DEFINE w == [for |-> "any", on |-> Members(S)]
<1>1. pc[i] = "run" /\ ~Settled(i) /\ cell' = cell /\ pc'[i] = "scan" /\ want'[i] = S
  BY DEF IInv, TypeOK, LocalInv, SettledOf, AwaitAny
<1>2. ~Settled(i)' /\ InAwaitAny(i)' /\ Members(S) \in SUBSET Innies
  BY <1>1, RegistryAssumption, CellsAssumption, MembersAre DEF Settled, InAwaitAny
<1>3. \A j \in Innies : j # i => WaitOf(j)' = WaitOf(j)
  <2>1. \A j \in Innies : j # i => Bystander(j)
    BY DEF AwaitAny, Bystander, IInv, TypeOK
  <2> QED
    BY <1>1, <2>1, BystanderWaits DEF Settled
<1>4. WaitOf(i) = Working /\ WaitOf(i)' = w
  <2>1. Members(want[i])' = Members(S)
    BY <1>1 DEF Members
  <2> QED
    BY <1>1, <1>2, <2>1 DEF WaitOf, InCall, InSection
<1>5. abstractWait' = [abstractWait EXCEPT ![i] = w]
  BY <1>3, <1>4, ChangeIs
<1>6. w \in W!Waits
  BY <1>2 DEF W!Waits
<1>7. abstractWait[i] = W!Working
  BY <1>4, AbstractWaitIs DEF Working, W!Working
<1>8. W!StartWaiting(i, w)
  BY <1>1, <1>5, <1>7 DEF W!StartWaiting, W!Settled, Settled
<1> QED
  BY <1>6, <1>8 DEF W!Next

\* A call that returns has got what it waited for, or its Innie was resolved
\* and waits for nothing any more.
LEMMA ReturnMaps ==
    ASSUME NEW i \in Innies, cell' = cell,
           \A j \in Innies : j # i => WaitOf(j)' = WaitOf(j),
           pc[i] \in InCall, pc'[i] = "returned",
           ~Settled(i) => ~StillWaits(i)
    PROVE  [W!Next]_(W!vars)
<1>1. WaitOf(i)' = Working
  BY DEF WaitOf, InCall, InSection, Working
<1>2. CASE Settled(i)
  <2>1. WaitOf(i) = Working
    BY <1>2 DEF WaitOf
  <2> QED
    BY <1>1, <2>1, StutterIs
<1>3. CASE ~Settled(i)
  <2>1. abstractWait' = [abstractWait EXCEPT ![i] = W!Working]
    BY <1>1, ChangeIs DEF Working, W!Working
  <2>2. W!Waiting(i)
    BY <1>3, WaitingIs
  <2>3. W!Holds(abstractWait[i])
    <3>1. CASE InAwaitAny(i)
      <4>1. abstractWait[i] = [for |-> "any", on |-> Members(want[i])]
        BY <1>3, <3>1, AbstractWaitIs DEF WaitOf
      <4>2. \E t \in Members(want[i]) : Settled(t)
        BY <1>3, <3>1 DEF StillWaits
      <4> QED
        BY <4>1, <4>2 DEF W!Holds, W!Settled, Settled
    <3>2. CASE ~InAwaitAny(i)
      <4>1. abstractWait[i] = [for |-> "all", on |-> need[i]]
        BY <1>3, <3>2, AbstractWaitIs DEF WaitOf
      <4>2. \A t \in need[i] : Settled(t)
        BY <1>3, <3>2 DEF StillWaits, AllSettled
      <4> QED
        BY <4>1, <4>2 DEF W!Holds, W!Settled, Settled
    <3> QED
      BY <3>1, <3>2
  <2>4. W!Proceed(i)
    BY <2>1, <2>2, <2>3 DEF W!Proceed
  <2> QED
    BY <2>4 DEF W!Next
<1> QED
  BY <1>2, <1>3

LEMMA ScanHitMaps ==
    ASSUME IInv, NEW i \in Innies, ScanHit(i)
    PROVE  [W!Next]_(W!vars)
<1>1. /\ pc[i] = "scan" /\ cell' = cell /\ pc'[i] = "returned"
      /\ InAwaitAny(i) /\ ~StillWaits(i)
  BY DEF IInv, TypeOK, LocalInv, WantOf, ScanHit, StillWaits
<1>2. \A j \in Innies : j # i => WaitOf(j)' = WaitOf(j)
  <2>1. \A j \in Innies : j # i => Bystander(j)
    BY DEF ScanHit, Bystander, IInv, TypeOK
  <2> QED
    BY <1>1, <2>1, BystanderWaits DEF Settled
<1> QED
  BY <1>1, <1>2, ReturnMaps DEF InCall, InSection

LEMMA RecheckAllMaps ==
    ASSUME IInv, NEW i \in Innies, RecheckAll(i)
    PROVE  [W!Next]_(W!vars)
<1>1. pc[i] = "recheck" /\ cell' = cell /\ ~InAwaitAny(i) /\ need' = need /\ want' = want
  BY DEF RecheckAll
<1>2. \A j \in Innies : j # i => WaitOf(j)' = WaitOf(j)
  <2>1. \A j \in Innies : j # i => Bystander(j)
    BY DEF RecheckAll, Bystander, IInv, TypeOK
  <2> QED
    BY <1>1, <2>1, BystanderWaits DEF Settled
<1>3. CASE i \in cancelled \/ AllSettled(need[i])
  <2>1. pc'[i] = "returned"
    BY <1>3 DEF RecheckAll, IInv, TypeOK
  <2>2. ~Settled(i) => ~StillWaits(i)
    BY <1>1, <1>3 DEF StillWaits, IInv, LocalInv, SettledOf
  <2> QED
    BY <1>1, <1>2, <2>1, <2>2, ReturnMaps DEF InCall, InSection
<1>4. CASE ~(i \in cancelled \/ AllSettled(need[i]))
  <2>1. pc'[i] = "asleep"
    BY <1>4 DEF RecheckAll, IInv, TypeOK
  <2>2. WaitOf(i)' = WaitOf(i)
    BY <1>1, <2>1 DEF WaitOf, InCall, InSection, Settled, InAwaitAny, Members
  <2> QED
    BY <1>1, <1>2, <2>2, StutterIs
<1> QED
  BY <1>3, <1>4

\* Inside a call the thread moves about without a step of its Innie.
LEMMA InCallMaps ==
    ASSUME IInv, NEW i \in Innies,
           ScanMiss(i) \/ Detect(i) \/ NoCycleLeft(i) \/ RecheckAny(i) \/ Wake(i)
    PROVE  UNCHANGED W!vars
<1>1. /\ cell' = cell /\ need' = need
      /\ pc[i] \in InCall /\ pc'[i] \in InCall /\ want' = want
      /\ \A j \in Innies : j # i => pc'[j] = pc[j]
  <2>1. CASE ScanMiss(i)
    <3>1. i \notin cancelled
      BY <2>1 DEF ScanMiss, IInv, LocalInv, WantOf, PromiseOf
    <3> QED
      BY <2>1, <3>1 DEF ScanMiss, InCall, InSection, IInv, TypeOK
  <2>2. CASE Detect(i) \/ NoCycleLeft(i)
    BY <2>2 DEF Detect, NoCycleLeft, InCall, InSection, IInv, TypeOK
  <2>3. CASE RecheckAny(i) \/ Wake(i)
    BY <2>3 DEF RecheckAny, Wake, InCall, InSection, IInv, TypeOK
  <2> QED
    BY <2>1, <2>2, <2>3
<1>2. \A j \in Innies : WaitOf(j)' = WaitOf(j)
  BY <1>1 DEF WaitOf, Settled, InAwaitAny, Members
<1> QED
  BY <1>1, <1>2, StutterIs

\* Outside of calls too, until it settles.
LEMMA OutOfCallMaps ==
    ASSUME IInv, NEW i \in Innies, AskCancelled(i) \/ Read(i) \/ Finish(i)
    PROVE  UNCHANGED W!vars
<1>1. /\ cell' = cell /\ want' = want
      /\ pc[i] \notin InCall /\ pc'[i] \notin InCall
      /\ \A j \in Innies : j # i => pc'[j] = pc[j] /\ need'[j] = need[j]
  BY DEF AskCancelled, Read, Finish, InCall, InSection, IInv, TypeOK
<1>2. \A j \in Innies : WaitOf(j)' = WaitOf(j)
  BY <1>1 DEF WaitOf, Settled, InAwaitAny, Members
<1> QED
  BY <1>1, <1>2, StutterIs

-----------------------------------------------------------------------------
\* Cells are written.

LEMMA SettleMaps ==
    ASSUME IInv, NEW i \in Innies, NEW r \in Results, Settle(i, r)
    PROVE  [W!Next]_(W!vars)
<1>1. pc[i] = "settle" /\ ~Settled(i) /\ TypeOK
  BY DEF IInv, LocalInv, SettledOf, Settle
<1>2. /\ cell' = [cell EXCEPT ![i] = r]
      /\ pc' = [Notify(pc) EXCEPT ![i] = "exited"]
      /\ want' = want /\ need' = need
  BY <1>1 DEF Settle
<1>3. ASSUME NEW j \in Innies PROVE WaitOf(j)' = WaitOf(j)
  <2>1. CASE j = i
    <3>1. pc'[i] = "exited"
      BY <1>1, <1>2 DEF Notify
    <3> QED
      BY <1>1, <2>1, <3>1 DEF WaitOf, InCall, InSection, Working
  <2>2. CASE j # i
    <3>1. /\ pc'[j] = IF pc[j] = "asleep" THEN "notified" ELSE pc[j]
          /\ cell'[j] = cell[j]
      BY <1>1, <1>2, <2>2 DEF Notify, TypeOK
    <3> QED
      BY <1>2, <3>1 DEF WaitOf, InCall, InSection, Settled, InAwaitAny, Members
  <2> QED
    BY <2>1, <2>2
<1>4. abstractWait' = abstractWait
  BY <1>3, AbstractWaitIs, AbstractWaitIsPrimed
<1>5. abstractWait[i] = W!Working
  BY <1>1, AbstractWaitIs DEF WaitOf, InCall, InSection, Working, W!Working
<1>6. W!Publish(i, r)
  BY <1>1, <1>2, <1>4, <1>5 DEF W!Publish, W!Settled, Settled
<1> QED
  BY <1>6 DEF W!Next

\* Who leads to whom along the waits inside X is reachability along pairs.
LEMMA LeadsToIsReach ==
    ASSUME NEW X \in SUBSET Innies, NEW E \in SUBSET (X \X X),
           \A k \in X : \A m \in X : <<k, m>> \in E <=> m \in abstractWait[k].on,
           NEW i \in X, NEW j
    PROVE  W!LeadsTo(X, i, j) <=> j \in Reach(E, i)
<1> DEFINE closed(Z) ==
        \A k \in X : (k = i \/ k \in Z) => abstractWait[k].on \cap X \subseteq Z
<1>1. ASSUME NEW Z \in SUBSET Innies PROVE closed(Z \cap X) <=> IsClosed(E, i, Z)
  <2>1. ASSUME closed(Z \cap X), NEW e \in E, e[1] = i \/ e[1] \in Z PROVE e[2] \in Z
    <3>1. e[1] \in X /\ e[2] \in X /\ e = <<e[1], e[2]>>
      OBVIOUS
    <3>2. e[2] \in abstractWait[e[1]].on
      BY <3>1
    <3> QED
      BY <2>1, <3>1, <3>2
  <2>2. ASSUME IsClosed(E, i, Z), NEW k \in X, k = i \/ k \in Z \cap X,
               NEW m \in abstractWait[k].on \cap X
        PROVE  m \in Z \cap X
    <3>1. <<k, m>> \in E
      OBVIOUS
    <3>2. <<k, m>>[1] = k /\ <<k, m>>[2] = m
      OBVIOUS
    <3> QED
      BY <2>2, <3>1, <3>2 DEF IsClosed
  <2> QED
    BY <2>1, <2>2 DEF IsClosed
<1>2. E \in SUBSET (Innies \X Innies)
  OBVIOUS
<1>3. /\ Reach(E, i) \in SUBSET Innies
      /\ IsClosed(E, i, Reach(E, i))
      /\ \A Y \in SUBSET Innies : IsClosed(E, i, Y) => Reach(E, i) \subseteq Y
  BY <1>2, ReachIsLeastClosed
<1>4. W!LeadsTo(X, i, j) <=> \A Z \in SUBSET X : closed(Z) => j \in Z
  BY DEF W!LeadsTo
<1> HIDE DEF closed
<1>5. ASSUME \A Z \in SUBSET X : closed(Z) => j \in Z PROVE j \in Reach(E, i)
  <2> DEFINE Z == Reach(E, i) \cap X
  <2>1. closed(Z)
    BY <1>1, <1>3
  <2>2. j \in Z
    BY <1>5, <2>1
  <2> QED
    BY <2>2
<1>6. ASSUME j \in Reach(E, i), NEW Z \in SUBSET X, closed(Z) PROVE j \in Z
  <2>1. Z \in SUBSET Innies /\ Z \cap X = Z
    OBVIOUS
  <2>2. IsClosed(E, i, Z)
    BY <1>1, <1>6, <2>1
  <2> QED
    BY <1>3, <1>6, <2>1, <2>2
<1> QED
  BY <1>4, <1>5, <1>6

\* Inside the stuck set an Innie waits, in the abstract, for what its stuck
\* edges lead to.
LEMMA StuckWaits ==
    ASSUME IInv, NEW i \in StuckSet(graph)
    PROVE  /\ i \in Innies /\ W!Waiting(i) /\ ~Settled(i)
           /\ W!Hangs(i, StuckSet(graph))
           /\ \A m \in StuckSet(graph) :
                 m \in StuckEdges(graph, StuckSet(graph), i) <=> m \in abstractWait[i].on
<1> DEFINE X == StuckSet(graph)
<1>1. /\ \A n \in X : n \in Innies /\ n \in Blocked(graph)
      /\ ~HasWayForward(graph, i, X)
  BY StuckSetIsGreatestKnot DEF IsKnot, Blocked
<1>2. \A n \in X : Waits(n) /\ ~Settled(n)
  BY <1>1, BlockedIsWaiting DEF IInv, LocalInv, SettledOf, Waits, WaitLocations
<1>3. i \in Innies /\ Waits(i) /\ ~Settled(i) /\ LocalInv(i) /\ pc[i] \in InCall
  BY <1>1, <1>2 DEF IInv, Waits, WaitLocations, InCall, InSection
<1>4. W!Waiting(i)
  BY <1>3, WaitingIs
<1>5. CASE InAwaitAny(i)
  <2> DEFINE M == Members(want[i])
  <2>1. abstractWait[i] = [for |-> "any", on |-> M]
    BY <1>3, <1>5, AbstractWaitIs DEF WaitOf
  <2>2. graph.and[i] = {} /\ graph.or[i] = <<M>>
    BY <1>3, <1>5 DEF LocalInv, GraphOf
  <2> HIDE DEF M
  <2>3. OrGroups(graph, i) = {M}
    BY <2>2 DEF OrGroups
  <2> HIDE DEF X
  <2>4. M \subseteq X
    BY <1>1, <2>2, <2>3 DEF HasWayForward, AndEdges
  <2>5. StuckEdges(graph, X, i) = M
    BY <2>2, <2>3, <2>4 DEF StuckEdges, AndEdges
  <2>6. W!Hangs(i, X)
    BY <1>4, <2>1, <2>4 DEF W!Hangs
  <2> QED
    BY <1>3, <1>4, <2>1, <2>5, <2>6 DEF X
<1>6. CASE ~InAwaitAny(i)
  <2>1. abstractWait[i] = [for |-> "all", on |-> need[i]]
    BY <1>3, <1>6, AbstractWaitIs DEF WaitOf
  <2>2. /\ graph.or[i] = <<>> /\ graph.and[i] \subseteq need[i]
        /\ \A t \in need[i] \ graph.and[i] : Settled(t)
    BY <1>3, <1>6 DEF LocalInv, GraphOf
  <2>3. OrGroups(graph, i) = {}
    BY <2>2 DEF OrGroups
  <2> HIDE DEF X
  <2>4. graph.and[i] \cap X # {}
    BY <1>1, <2>3 DEF HasWayForward, AndEdges
  <2>5. StuckEdges(graph, X, i) = graph.and[i] \cap X
    BY <2>3 DEF StuckEdges, AndEdges
  <2>6. graph.and[i] \cap X = need[i] \cap X
    BY <1>2, <2>2
  <2>7. W!Hangs(i, X)
    BY <1>4, <2>1, <2>4, <2>6 DEF W!Hangs
  <2> QED
    BY <1>3, <1>4, <2>1, <2>5, <2>6, <2>7 DEF X
<1> QED
  BY <1>5, <1>6

\* What find_cycle reports is a whole cycle of a hopeless set.
LEMMA FoundCycleIs ==
    ASSUME IInv, FindCycle(graph) # {}
    PROVE  /\ StuckSet(graph) \in SUBSET Innies
           /\ W!Hopeless(StuckSet(graph))
           /\ W!Cycle(StuckSet(graph), FindCycle(graph))
<1> DEFINE X == StuckSet(graph)
           E == StuckPairs(graph)
<1>1. /\ X \in SUBSET Innies /\ E \in SUBSET (X \X X)
      /\ E \in SUBSET (Innies \X Innies)
      /\ FindCycle(graph) = FirstComponent[E]
  BY StuckPairsType DEF FindCycle, StuckPairs
<1>2. \A k \in X : \A m \in X : <<k, m>> \in E <=> m \in abstractWait[k].on
  BY StuckPairsAre, StuckWaits
<1>3. W!Hopeless(X)
  BY StuckWaits DEF W!Hopeless
<1>4. \A n \in FindCycle(graph) : n \in X
  BY CycleIsStuck
<1> HIDE DEF X, E
<1>5. PICK node \in Innies :
          /\ node \in Reach(E, node)
          /\ FindCycle(graph) = {n \in Reach(E, node) : node \in Reach(E, n)}
  BY <1>1, FirstComponentIs
<1>6. node \in X
  BY <1>4, <1>5
<1>7. \A i, j \in X : W!LeadsTo(X, i, j) <=> j \in Reach(E, i)
  BY <1>1, <1>2, LeadsToIsReach
<1>8. FindCycle(graph) = {j \in X : W!LeadsTo(X, node, j) /\ W!LeadsTo(X, j, node)}
  <2>1. ASSUME NEW n \in FindCycle(graph)
        PROVE  n \in X /\ n \in Reach(E, node) /\ node \in Reach(E, n)
    BY <1>4, <1>5
  <2>2. ASSUME NEW n \in X, n \in Reach(E, node), node \in Reach(E, n)
        PROVE  n \in FindCycle(graph)
    BY <1>5, <2>2
  <2> QED
    BY <1>6, <1>7, <2>1, <2>2
<1>9. W!LeadsTo(X, node, node)
  BY <1>5, <1>6, <1>7
<1>10. W!Cycle(X, FindCycle(graph))
  BY <1>6, <1>8, <1>9 DEF W!Cycle
<1> QED
  BY <1>1, <1>3, <1>10 DEF X

LEMMA ResolveCycleMaps ==
    ASSUME IInv, NEW i \in Innies, ResolveCycle(i)
    PROVE  [W!Next]_(W!vars)
<1> DEFINE C == FindCycle(graph)
<1>1. /\ C # {} /\ pc[i] = "resolve"
      /\ cell' = [j \in Innies |-> IF j \in C /\ ~Settled(j)
                                   THEN DeadlockResult ELSE cell[j]]
      /\ pc' = Notify(pc) /\ want' = want /\ need' = need
  BY DEF ResolveCycle
<1>2. /\ StuckSet(graph) \in SUBSET Innies
      /\ W!Hopeless(StuckSet(graph))
      /\ W!Cycle(StuckSet(graph), C)
  BY <1>1, FoundCycleIs
<1>3. \A n \in C : n \in Innies /\ ~Settled(n)
  BY CycleIsStuck, StuckWaits
<1> HIDE DEF C
<1>4. \A j \in Innies : Settled(j) \/ W!Waiting(j)
  <2> SUFFICES ASSUME NEW j \in Innies, ~Settled(j) PROVE pc[j] \in InCall
    BY WaitingIs
  <2>1. j \in Blocked(graph)
    BY <1>1 DEF IInv, QuietOf
  <2> QED
    BY <2>1, BlockedIsWaiting
    DEF IInv, LocalInv, Waits, WaitLocations, InCall, InSection
<1>5. cell' = [j \in Innies |-> IF j \in C THEN DeadlockResult ELSE cell[j]]
  BY <1>1, <1>3
<1>6. ASSUME NEW j \in Innies
      PROVE  WaitOf(j)' = IF j \in C THEN Working ELSE WaitOf(j)
  <2>1. CASE j \in C
    <3>1. Settled(j)'
      BY <1>5, <2>1, RegistryAssumption, CellsAssumption DEF Settled
    <3> QED
      BY <2>1, <3>1 DEF WaitOf, Working
  <2>2. CASE j \notin C
    <3>1. /\ pc'[j] = IF pc[j] = "asleep" THEN "notified" ELSE pc[j]
          /\ cell'[j] = cell[j]
      BY <1>1, <1>5, <2>2 DEF Notify
    <3> QED
      BY <1>1, <2>2, <3>1 DEF WaitOf, InCall, InSection, Settled, InAwaitAny, Members
  <2> QED
    BY <2>1, <2>2
<1>7. abstractWait' = [j \in Innies |-> IF j \in C THEN W!Working ELSE abstractWait[j]]
  BY <1>6, AbstractWaitIs, AbstractWaitIsPrimed DEF Working, W!Working
<1>8. W!Unwork(C)
  BY <1>2, <1>4, <1>5, <1>7 DEF W!Unwork, W!Settled, Settled
<1>9. C \in SUBSET Innies
  BY <1>3
<1> QED
  BY <1>8, <1>9 DEF W!Next

-----------------------------------------------------------------------------
LEMMA InitMaps == Init => W!Init
<1> SUFFICES ASSUME Init PROVE W!Init
  OBVIOUS
<1>1. \A i \in Innies : WaitOf(i) = Working
  BY DEF Init, WaitOf, InCall, InSection
<1>2. abstractWait = [i \in Innies |-> W!Working]
  BY <1>1, AbstractWaitIs DEF Working, W!Working
<1> QED
  BY <1>2 DEF Init, W!Init

LEMMA StepMaps ==
    ASSUME IInv, [Next]_vars
    PROVE  [W!Next]_(W!vars)
<1>1. ASSUME NEW i \in Innies, Protocol(i) PROVE [W!Next]_(W!vars)
  <2>1. CASE ScanHit(i)
    BY <2>1, ScanHitMaps
  <2>2. CASE ScanMiss(i) \/ Detect(i) \/ NoCycleLeft(i) \/ RecheckAny(i) \/ Wake(i)
    BY <2>2, InCallMaps
  <2>3. CASE ResolveCycle(i)
    BY <2>3, ResolveCycleMaps
  <2>4. CASE RecheckAll(i)
    BY <2>4, RecheckAllMaps
  <2>5. CASE AskCancelled(i)
    BY <2>5, OutOfCallMaps
  <2> QED
    BY <1>1, <2>1, <2>2, <2>3, <2>4, <2>5 DEF Protocol
<1>2. ASSUME NEW i \in Innies, Step(i) PROVE [W!Next]_(W!vars)
  <2>1. ASSUME NEW T \in AndCalls, AwaitInnies(i, T) PROVE [W!Next]_(W!vars)
    BY <2>1, AwaitInniesMaps
  <2>2. ASSUME NEW S \in OrCalls, AwaitAny(i, S) PROVE [W!Next]_(W!vars)
    BY <2>2, AwaitAnyMaps
  <2>3. CASE Read(i) \/ Finish(i)
    BY <2>3, OutOfCallMaps
  <2>4. ASSUME NEW r \in Results, Settle(i, r) PROVE [W!Next]_(W!vars)
    BY <2>4, SettleMaps
  <2> QED
    BY <1>1, <1>2, <2>1, <2>2, <2>3, <2>4 DEF Step
<1>3. CASE Over \/ UNCHANGED vars
  <2>1. cell' = cell /\ pc' = pc /\ want' = want /\ need' = need
    BY <1>3 DEF Over, vars
  <2>2. \A j \in Innies : WaitOf(j)' = WaitOf(j)
    BY <2>1 DEF WaitOf, Settled, InAwaitAny, Members
  <2> QED
    BY <2>1, <2>2, StutterIs
<1> QED
  BY <1>2, <1>3 DEF Next

\* The Registry implements Workday, for any finite set of Innies and any
\* programs: an Innie gets past a wait only when the wait holds, and -1 goes
\* to whole cycles of Innies that could never have moved, with nobody at work.
THEOREM RegistryImplementsWorkday == Spec => ImplementsWorkday
<1>1. Init => W!Init
  BY InitMaps
<1>2. IInv /\ [Next]_vars => [W!Next]_(W!vars)
  BY StepMaps
<1> QED
  BY <1>1, <1>2, AlwaysIInv, PTL DEF Spec, ImplementsWorkday, W!Spec

-----------------------------------------------------------------------------
(***************************************************************************)
(* Who gets -1 when nobody waits for an OR-group: exactly the Innies on a  *)
(* cycle of waits.  find_cycle reports one cycle after the other, in an    *)
(* order that depends on the names of the Innies; what is resolved when    *)
(* it has reported the last does not.  (With OR-groups it does: a cycle    *)
(* that is resolved may let the members of another escape.)                *)
(***************************************************************************)

OnCycles(g) == {n \in Innies : n \in Reach(EdgePairs(g.and), n)}

\* While a thread is in the loop of _detect_if_quiescent_locked, the Innies
\* resolved so far and those on cycles are together the same, and it leaves
\* the loop only when nobody is on a cycle any more.
OnlyCyclesResolved ==
    [][\A i \in Innies :
         pc[i] = "resolve" /\ (\A j \in Innies : graph.or[j] = <<>>) =>
            /\ cancelled' \cup OnCycles(graph') = cancelled \cup OnCycles(graph)
            /\ pc'[i] # "resolve" => OnCycles(graph') = {}]_vars

-----------------------------------------------------------------------------
\* Without a component, the edges that remain lead the other nodes on cycles
\* back to themselves: none of them came by way of the component, or it would
\* be a member.
LEMMA OthersStayOnCycles ==
    ASSUME NEW E \in SUBSET (Innies \X Innies), NEW node \in Innies,
           NEW C, C = {k \in Reach(E, node) : node \in Reach(E, k)},
           NEW D \in SUBSET E, \A e \in E : e \in D <=> e[1] \notin C,
           NEW n \in Innies
    PROVE  n \in Reach(D, n) <=> n \in Reach(E, n) /\ n \notin C
<1>1. D \in SUBSET (Innies \X Innies)
  OBVIOUS
<1>2. /\ Reach(E, n) \in SUBSET Innies /\ IsClosed(E, n, Reach(E, n))
      /\ Reach(D, n) \in SUBSET Innies /\ IsClosed(D, n, Reach(D, n))
  BY <1>1, ReachIsLeastClosed
<1>3. Reach(D, n) \subseteq Reach(E, n)
  <2>1. IsClosed(D, n, Reach(E, n))
    BY <1>2 DEF IsClosed
  <2> QED
    BY <1>1, <1>2, <2>1, ReachIsLeastClosed
<1>4. n \in Reach(D, n) => n \notin C
  <2> SUFFICES ASSUME n \in Reach(D, n) PROVE n \notin C
    OBVIOUS
  <2>1. PICK m \in Innies : <<n, m>> \in D
    BY <1>1, ReachThroughSuccessor
  <2> QED
    BY <2>1
<1>5. n \in Reach(E, n) /\ n \notin C => n \in Reach(D, n)
  <2> SUFFICES ASSUME n \in Reach(E, n), n \notin C PROVE n \in Reach(D, n)
    OBVIOUS
  <2> DEFINE Z == Reach(D, n) \cup {k \in Innies : k # n /\ n \notin Reach(E, k)}
  <2>1. ASSUME NEW e \in E, e[1] = n \/ e[1] \in Z PROVE e[2] \in Z
    <3>1. e[1] \in Innies /\ e[2] \in Innies /\ e = <<e[1], e[2]>>
      OBVIOUS
    <3>2. CASE e[2] # n /\ n \notin Reach(E, e[2])
      BY <3>1, <3>2
    <3>3. CASE e[2] = n \/ n \in Reach(E, e[2])
      <4>1. n \in Reach(E, e[1])
        <5>1. e[2] \in Reach(E, e[1])
          BY <3>1, ReachIsLeastClosed DEF IsClosed
        <5> QED
          BY <3>1, <3>3, <5>1, ReachIsTransitive
      <4>2. e[1] = n \/ e[1] \in Reach(D, n)
        BY <2>1, <3>1, <4>1
      <4>3. e[1] \notin C
        <5>1. CASE e[1] = n
          BY <5>1
        <5>2. CASE e[1] \in Reach(D, n)
          <6> SUFFICES ASSUME e[1] \in Reach(E, node), node \in Reach(E, e[1]) PROVE n \in C
            OBVIOUS
          <6>1. n \in Reach(E, node)
            BY <3>1, <4>1, ReachIsTransitive
          <6>2. node \in Reach(E, n)
            BY <1>3, <3>1, <5>2, ReachIsTransitive
          <6> QED
            BY <6>1, <6>2
        <5> QED
          BY <4>2, <5>1, <5>2
      <4>4. e[2] \in Reach(D, n)
        BY <1>2, <2>1, <4>2, <4>3 DEF IsClosed
      <4> QED
        BY <4>4
    <3> QED
      BY <3>2, <3>3
  <2>2. IsClosed(E, n, Z) /\ Z \in SUBSET Innies
    BY <1>2, <2>1 DEF IsClosed
  <2>3. n \in Z
    <3> HIDE DEF Z
    <3> QED
      BY <2>2, ReachIsLeastClosed
  <2> QED
    BY <2>3
<1> QED
  BY <1>3, <1>4, <1>5

\* So taking out what find_cycle reports leaves exactly the others on cycles.
LEMMA ClearedCycles ==
    ASSUME NEW g, NoGroups(g)
    PROVE  /\ FindCycle(g) \subseteq OnCycles(g)
           /\ OnCycles(Clear(g, FindCycle(g))) = OnCycles(g) \ FindCycle(g)
           /\ FindCycle(g) = {} => OnCycles(g) = {}
<1> DEFINE C == FindCycle(g)
           h == Clear(g, C)
           E == EdgePairs(g.and)
           D == EdgePairs(h.and)
<1>1. E \in SUBSET (Innies \X Innies) /\ C = FirstComponent[E]
  BY AndEdgesAre, FindCycleReducesToScc DEF SccFindCycle
<1>2. h \in Graphs /\ \A j \in Innies : h.and[j] = (IF j \in C THEN {} ELSE g.and[j]) /\ h.or[j] = <<>>
  BY ClearIs DEF NoGroups
<1> HIDE DEF C, h
<1>3. NoGroups(h)
  BY <1>2 DEF NoGroups
<1>4. \A k, m \in Innies : <<k, m>> \in E <=> m \in g.and[k]
  BY AndEdgesAre
<1>5. /\ D \in SUBSET (Innies \X Innies)
      /\ \A k, m \in Innies : <<k, m>> \in D <=> m \in h.and[k]
  BY <1>3, AndEdgesAre
<1> HIDE DEF E, D
<1>6. D \in SUBSET E /\ \A e \in E : e \in D <=> e[1] \notin C
  <2>1. ASSUME NEW e \in Innies \X Innies PROVE e \in D <=> e \in E /\ e[1] \notin C
    <3>1. e = <<e[1], e[2]>> /\ e[1] \in Innies /\ e[2] \in Innies
      OBVIOUS
    <3>2. \A k, m \in Innies : <<k, m>> \in D <=> <<k, m>> \in E /\ k \notin C
      BY <1>2, <1>4, <1>5
    <3> QED
      BY <3>1, <3>2
  <2> QED
    BY <1>1, <1>5, <2>1
<1>7. OnCycles(g) = {n \in Innies : n \in Reach(E, n)} /\ OnCycles(h) = {n \in Innies : n \in Reach(D, n)}
  BY DEF OnCycles, E, D
<1>8. CASE C = {}
  <2>1. D = E
    BY <1>6, <1>8
  <2>2. \A n \in Innies : n \notin Reach(E, n)
    BY <1>1, <1>8, FirstComponentExists
  <2> QED
    BY <1>7, <1>8, <2>1, <2>2 DEF C, h
<1>9. CASE C # {}
  <2>1. PICK node \in Innies :
            node \in Reach(E, node) /\ C = {k \in Reach(E, node) : node \in Reach(E, k)}
    BY <1>1, <1>9, FirstComponentIs
  <2>2. \A n \in Innies : n \in Reach(D, n) <=> n \in Reach(E, n) /\ n \notin C
    BY <1>1, <1>6, <2>1, OthersStayOnCycles
  <2>3. C \subseteq {n \in Innies : n \in Reach(E, n)}
    <3> SUFFICES ASSUME NEW n \in C PROVE n \in Innies /\ n \in Reach(E, n)
      OBVIOUS
    <3>1. n \in Reach(E, node) /\ node \in Reach(E, n) /\ n \in Innies
      BY <1>1, <2>1, ReachIsLeastClosed
    <3> QED
      BY <1>1, <3>1, ReachIsTransitive
  <2> QED
    BY <1>7, <1>9, <2>2, <2>3 DEF C, h
<1> QED
  BY <1>8, <1>9

-----------------------------------------------------------------------------
\* Behind the gate the lock is held: a step of another thread touches neither
\* the graph nor who is resolved, nor the place of the detecting thread.
LEMMA OthersKeepOut ==
    ASSUME IInv, NEW i \in Innies, pc[i] = "resolve", NEW k \in Innies, k # i, Step(k)
    PROVE  FALSE
<1>1. lock = i /\ lock # NoOne
  BY RegistryAssumption, CellsAssumption DEF IInv, LockInv, InSection
<1>2. pc[k] \notin InSection
  BY <1>1 DEF IInv, LockInv
<1> QED
  BY <1>1, <1>2
  DEF Step, Protocol, AwaitInnies, AwaitAny, ScanHit, ScanMiss, Detect, ResolveCycle,
      NoCycleLeft, RecheckAll, RecheckAny, Wake, AskCancelled, Read, Finish, Settle, InSection

\* However the Innies are called, the same ones are resolved: those on cycles.
THEOREM CyclesAndNobodyElse == Spec => OnlyCyclesResolved
<1> DEFINE A == \A i \in Innies :
         pc[i] = "resolve" /\ (\A j \in Innies : graph.or[j] = <<>>) =>
            /\ cancelled' \cup OnCycles(graph') = cancelled \cup OnCycles(graph)
            /\ pc'[i] # "resolve" => OnCycles(graph') = {}
<1>1. ASSUME IInv, [Next]_vars PROVE [A]_vars
  <2> SUFFICES ASSUME Next, NEW i \in Innies, pc[i] = "resolve",
                      \A j \in Innies : graph.or[j] = <<>>
               PROVE  /\ cancelled' \cup OnCycles(graph') = cancelled \cup OnCycles(graph)
                      /\ pc'[i] # "resolve" => OnCycles(graph') = {}
    BY <1>1
  <2>1. NoGroups(graph)
    BY <1>1 DEF NoGroups, IInv, TypeOK
  <2>2. Step(i)
    <3>1. ~Over
      BY DEF Over
    <3> QED
      BY <1>1, <3>1, OthersKeepOut DEF Next
  <2>3. ResolveCycle(i) \/ NoCycleLeft(i)
    BY <2>2
    DEF Step, Protocol, AwaitInnies, AwaitAny, ScanHit, ScanMiss, Detect,
        RecheckAll, RecheckAny, Wake, AskCancelled, Read, Finish, Settle
  <2>4. CASE ResolveCycle(i)
    <3>1. cancelled' = cancelled \cup FindCycle(graph) /\ graph' = Clear(graph, FindCycle(graph))
      BY <2>4 DEF ResolveCycle
    <3>2. pc'[i] = "resolve"
      BY <2>4 DEF ResolveCycle, Notify
    <3> QED
      BY <2>1, <3>1, <3>2, ClearedCycles
  <2>5. CASE NoCycleLeft(i)
    <3>1. cancelled' = cancelled /\ graph' = graph /\ FindCycle(graph) = {}
      BY <2>5 DEF NoCycleLeft
    <3> QED
      BY <2>1, <3>1, ClearedCycles
  <2> QED
    BY <2>3, <2>4, <2>5
<1>2. IInv /\ [Next]_vars => [A]_vars
  BY <1>1
<1> HIDE DEF A
<1>3. Spec => [][A]_vars
  BY <1>2, AlwaysIInv, PTL DEF Spec
<1> QED
  BY <1>3 DEF OnlyCyclesResolved, A
=============================================================================
