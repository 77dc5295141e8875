---------------------------- MODULE DetectorProofs ----------------------------
(***************************************************************************)
(* What the detector's answer is worth, for every finite wait-for graph:   *)
(* it names blocked Innies only, each of its members waits on another one, *)
(* and it is empty only when nobody is stuck.  The last is what lets the   *)
(* Registry fall asleep after a detection that found nothing.  On a graph  *)
(* without OR-groups it is the answer of the plain SCC detector.           *)
(***************************************************************************)
EXTENDS Detector, FiniteSetTheorems, SequenceTheorems, WellFoundedInduction, TLAPS

-----------------------------------------------------------------------------
\* What each operation of the wait-for graph changes and what it leaves alone.

LEMMA EmptyGraphIs ==
    /\ EmptyGraph \in Graphs
    /\ \A j \in Innies : EmptyGraph.and[j] = {} /\ EmptyGraph.or[j] = <<>>
BY EmptySeq DEF EmptyGraph, Graphs

LEMMA WaitOnIs ==
    ASSUME NEW g \in Graphs, NEW i \in Innies, NEW T \in SUBSET Innies
    PROVE  /\ WaitOn(g, i, T) \in Graphs
           /\ \A j \in Innies : WaitOn(g, i, T).and[j] = IF j = i THEN T ELSE g.and[j]
           /\ \A j \in Innies : WaitOn(g, i, T).or[j] = g.or[j]
BY DEF WaitOn, Graphs

LEMMA PushOrGroupIs ==
    ASSUME NEW g \in Graphs, NEW i \in Innies, NEW T \in SUBSET Innies
    PROVE  /\ PushOrGroup(g, i, T) \in Graphs
           /\ \A j \in Innies : PushOrGroup(g, i, T).and[j] = g.and[j]
           /\ \A j \in Innies : PushOrGroup(g, i, T).or[j] =
                                    IF j = i THEN Append(g.or[j], T) ELSE g.or[j]
<1>1. g.or[i] \in Seq(SUBSET Innies)
  BY DEF Graphs
<1>2. Append(g.or[i], T) \in Seq(SUBSET Innies)
  BY <1>1
<1> QED
  BY <1>2 DEF PushOrGroup, Graphs

\* The only group of a stack of at most one is popped.
LEMMA PopOrGroupIs ==
    ASSUME NEW g \in Graphs, NEW i \in Innies
    PROVE  /\ PopOrGroup(g, i) \in Graphs
           /\ \A j \in Innies : PopOrGroup(g, i).and[j] = g.and[j]
           /\ \A j \in Innies : j # i => PopOrGroup(g, i).or[j] = g.or[j]
           /\ Len(g.or[i]) <= 1 => PopOrGroup(g, i).or[i] = <<>>
<1> DEFINE s == g.or[i]
           popped == IF s = <<>> THEN s ELSE SubSeq(s, 1, Len(s) - 1)
<1>1. s \in Seq(SUBSET Innies) /\ Len(s) \in Nat
  BY DEF Graphs
<1>2. popped \in Seq(SUBSET Innies)
  <2>1. \A k \in 1..(Len(s) - 1) : s[k] \in SUBSET Innies
    BY <1>1, ElementOfSeq
  <2>2. SubSeq(s, 1, Len(s) - 1) \in Seq(SUBSET Innies)
    BY <1>1, <2>1, SubSeqProperties
  <2> QED
    BY <1>1, <2>2
<1>3. Len(s) <= 1 => popped = <<>>
  <2>1. CASE Len(s) <= 1
    <3>1. SubSeq(s, 1, Len(s) - 1) = <<>>
      BY <1>1, <2>1, SubSeqEmpty
    <3> QED
      BY <3>1
  <2> QED
    BY <2>1
<1>4. PopOrGroup(g, i) = [g EXCEPT !.or[i] = popped]
  BY DEF PopOrGroup
<1> HIDE DEF popped
<1>5. /\ PopOrGroup(g, i).and = g.and
      /\ PopOrGroup(g, i).or = [g.or EXCEPT ![i] = popped]
      /\ PopOrGroup(g, i) = [and |-> g.and, or |-> [g.or EXCEPT ![i] = popped]]
  BY <1>4 DEF Graphs
<1> QED
  BY <1>2, <1>3, <1>5 DEF Graphs

LEMMA ClearIs ==
    ASSUME NEW g \in Graphs, NEW X
    PROVE  /\ Clear(g, X) \in Graphs
           /\ \A j \in Innies : Clear(g, X).and[j] = IF j \in X THEN {} ELSE g.and[j]
           /\ \A j \in Innies : Clear(g, X).or[j] = IF j \in X THEN <<>> ELSE g.or[j]
BY EmptySeq DEF Clear, Graphs

-----------------------------------------------------------------------------
\* What the detectors find.

LEMMA InniesAreFinite == IsFiniteSet(Innies)
BY InniesAssumption

\* A non-empty finite set of natural numbers has a least element.
LEMMA LeastExists ==
    ASSUME NEW S \in SUBSET Nat, IsFiniteSet(S), S # {}
    PROVE  \E n \in S : \A m \in S : n <= m
<1> DEFINE below(n) == {m \in S : m < n}
           Belows == {below(n) : n \in S}
<1>1. IsWellFoundedOn(StrictSubsetOrdering(S), SUBSET S)
  BY FS_StrictSubsetOrderingWellFounded, FS_FiniteSubsetsOfFinite
<1>2. Belows \subseteq SUBSET S /\ Belows # {}
  OBVIOUS
<1> HIDE DEF Belows
<1>3. \E x \in Belows : \A y \in Belows : <<y, x>> \notin StrictSubsetOrdering(S)
  BY <1>1, <1>2, WFMin
<1> USE DEF Belows
<1>4. PICK n \in S : \A m \in S : <<below(m), below(n)>> \notin StrictSubsetOrdering(S)
  BY <1>3
<1>5. ASSUME NEW m \in S, m < n PROVE FALSE
  <2>0. S \subseteq Nat /\ m < n
    BY <1>5
  <2>1. below(m) \subseteq below(n) /\ m \in below(n) /\ m \notin below(m)
    <3>1. \A k \in S : k < m => k < n
      BY <2>0
    <3>2. ~(m < m)
      BY <2>0
    <3> QED
      BY <2>0, <3>1, <3>2
  <2>2. below(m) \in SUBSET S /\ below(n) \in SUBSET S
    OBVIOUS
  <2> HIDE DEF below
  <2>3. <<below(m), below(n)>> \in StrictSubsetOrdering(S)
    BY <2>1, <2>2 DEF StrictSubsetOrdering
  <2> QED
    BY <2>3, <1>4
<1> QED
  BY <1>5

-----------------------------------------------------------------------------
\* The stuck set: the union of all knots is a knot, because a way forward past
\* a set is a way forward past each of its subsets.

LEMMA WayForwardIsMonotone ==
    ASSUME NEW g, NEW n, NEW X, NEW Y, X \subseteq Y, HasWayForward(g, n, Y)
    PROVE  HasWayForward(g, n, X)
BY DEF HasWayForward

LEMMA StuckSetIsGreatestKnot ==
    ASSUME NEW g
    PROVE  /\ IsKnot(g, StuckSet(g))
           /\ \A Y \in SUBSET Blocked(g) : IsKnot(g, Y) => Y \subseteq StuckSet(g)
<1> DEFINE Knots == {X \in SUBSET Blocked(g) : IsKnot(g, X)}
           U == UNION Knots
<1>1. U \in SUBSET Blocked(g)
  OBVIOUS
<1>2. ASSUME NEW n \in U PROVE ~HasWayForward(g, n, U)
  <2>1. PICK X \in Knots : n \in X
    OBVIOUS
  <2>2. ~HasWayForward(g, n, X) /\ X \subseteq U
    BY <2>1 DEF IsKnot
  <2> QED
    BY <2>2, WayForwardIsMonotone
<1>3. IsKnot(g, U)
  BY <1>1, <1>2 DEF IsKnot
<1>4. \A Y \in SUBSET Blocked(g) : IsKnot(g, Y) => Y \subseteq U
  OBVIOUS
<1> HIDE DEF U
<1> QED
  BY <1>1, <1>3, <1>4 DEF StuckSet

-----------------------------------------------------------------------------
\* Reachability: the intersection of all closed sets is closed.

LEMMA ReachIsLeastClosed ==
    ASSUME NEW E \in SUBSET (Innies \X Innies), NEW n
    PROVE  /\ Reach(E, n) \in SUBSET Innies
           /\ IsClosed(E, n, Reach(E, n))
           /\ \A Y \in SUBSET Innies : IsClosed(E, n, Y) => Reach(E, n) \subseteq Y
<1> DEFINE Z == {i \in Innies : \A Y \in SUBSET Innies : IsClosed(E, n, Y) => i \in Y}
<1>1. ASSUME NEW e \in E, e[1] = n \/ e[1] \in Z PROVE e[2] \in Z
  <2>1. e[2] \in Innies
    OBVIOUS
  <2>2. ASSUME NEW Y \in SUBSET Innies, IsClosed(E, n, Y) PROVE e[2] \in Y
    <3>1. e[1] = n \/ e[1] \in Y
      BY <1>1, <2>2
    <3> QED
      BY <2>2, <3>1 DEF IsClosed
  <2> QED
    BY <2>1, <2>2
<1>2. IsClosed(E, n, Z)
  BY <1>1 DEF IsClosed
<1>3. \A Y \in SUBSET Innies : IsClosed(E, n, Y) => Z \subseteq Y
  OBVIOUS
<1>4. Z \in SUBSET Innies
  OBVIOUS
<1> HIDE DEF Z
<1> QED
  BY <1>2, <1>3, <1>4 DEF Reach

\* What a node leads to leads no further than the node itself.
LEMMA ReachIsTransitive ==
    ASSUME NEW E \in SUBSET (Innies \X Innies), NEW n, NEW m \in Reach(E, n)
    PROVE  Reach(E, m) \subseteq Reach(E, n)
<1>1. IsClosed(E, m, Reach(E, n))
  BY ReachIsLeastClosed DEF IsClosed
<1> QED
  BY <1>1, ReachIsLeastClosed

\* What a node leads to, it leads to by way of a successor.
LEMMA ReachThroughSuccessor ==
    ASSUME NEW E \in SUBSET (Innies \X Innies), NEW n, NEW k \in Reach(E, n)
    PROVE  \E m \in Innies : <<n, m>> \in E /\ (m = k \/ k \in Reach(E, m))
<1> DEFINE Z == {i \in Innies :
                    \E m \in Innies : <<n, m>> \in E /\ (m = i \/ i \in Reach(E, m))}
<1>1. ASSUME NEW e \in E, e[1] = n \/ e[1] \in Z PROVE e[2] \in Z
  <2>1. e[1] \in Innies /\ e[2] \in Innies /\ e = <<e[1], e[2]>>
    OBVIOUS
  <2>2. CASE e[1] = n
    BY <2>1, <2>2
  <2>3. CASE e[1] \in Z
    <3>1. PICK m \in Innies : <<n, m>> \in E /\ (m = e[1] \/ e[1] \in Reach(E, m))
      BY <2>3
    <3>2. e[2] \in Reach(E, m)
      BY <3>1, ReachIsLeastClosed DEF IsClosed
    <3> QED
      BY <2>1, <3>1, <3>2
  <2> QED
    BY <1>1, <2>2, <2>3
<1>2. IsClosed(E, n, Z)
  BY <1>1 DEF IsClosed
<1>3. Reach(E, n) \subseteq Z
  BY <1>2, ReachIsLeastClosed
<1> QED
  BY <1>3

-----------------------------------------------------------------------------
\* Components.

\* A component is empty only when no node reaches itself.
LEMMA FirstComponentExists ==
    ASSUME NEW E \in SUBSET (Innies \X Innies),
           NEW k \in Innies, k \in Reach(E, k)
    PROVE  FirstComponent[E] # {}
<1> DEFINE cyclic == {n \in Innies : n \in Reach(E, n)}
           node == CHOOSE n \in cyclic : \A m \in cyclic : n <= m
<1>1. cyclic \in SUBSET Nat /\ IsFiniteSet(cyclic) /\ cyclic # {}
  BY InniesAssumption, FS_Subset
<1>2. \E n \in cyclic : \A m \in cyclic : n <= m
  <2> HIDE DEF cyclic
  <2> QED
    BY <1>1, LeastExists
<1>3. node \in cyclic
  BY <1>2
<1>4. FirstComponent[E] = {n \in Reach(E, node) : node \in Reach(E, n)}
  BY <1>1 DEF FirstComponent
<1> QED
  BY <1>3, <1>4

\* A component that is reported is that of some node that leads to itself.
LEMMA FirstComponentIs ==
    ASSUME NEW E \in SUBSET (Innies \X Innies), FirstComponent[E] # {}
    PROVE  \E node \in Innies :
              /\ node \in Reach(E, node)
              /\ FirstComponent[E] = {n \in Reach(E, node) : node \in Reach(E, n)}
<1> DEFINE cyclic == {n \in Innies : n \in Reach(E, n)}
           node == CHOOSE n \in cyclic : \A m \in cyclic : n <= m
<1>1. cyclic # {} /\ FirstComponent[E] = {n \in Reach(E, node) : node \in Reach(E, n)}
  BY DEF FirstComponent
<1>2. cyclic \in SUBSET Nat /\ IsFiniteSet(cyclic)
  BY InniesAssumption, FS_Subset
<1>3. \E n \in cyclic : \A m \in cyclic : n <= m
  <2> HIDE DEF cyclic
  <2> QED
    BY <1>1, <1>2, LeastExists
<1>4. node \in cyclic
  BY <1>3
<1> HIDE DEF node
<1> QED
  BY <1>1, <1>4

\* Every member of a component leads to a member of it.
LEMMA FirstComponentIsCyclic ==
    ASSUME NEW E \in SUBSET (Innies \X Innies), NEW n \in FirstComponent[E]
    PROVE  /\ n \in Innies
           /\ \E m \in FirstComponent[E] : <<n, m>> \in E
<1> DEFINE cyclic == {i \in Innies : i \in Reach(E, i)}
           node == CHOOSE i \in cyclic : \A j \in cyclic : i <= j
           component == {i \in Reach(E, node) : node \in Reach(E, i)}
<1>1. cyclic # {} /\ FirstComponent[E] = component
  BY DEF FirstComponent
<1>2. node \in cyclic
  <2>1. cyclic \in SUBSET Nat /\ IsFiniteSet(cyclic)
    BY InniesAssumption, FS_Subset
  <2>2. \E i \in cyclic : \A j \in cyclic : i <= j
    <3> HIDE DEF cyclic
    <3> QED
      BY <1>1, <2>1, LeastExists
  <2> QED
    BY <2>2
<1> HIDE DEF node
<1>3. node \in Innies /\ node \in Reach(E, node)
  BY <1>2
<1>4. n \in Reach(E, node) /\ node \in Reach(E, n)
  BY <1>1
<1>5. PICK m \in Innies : <<n, m>> \in E /\ (m = node \/ node \in Reach(E, m))
  BY <1>4, ReachThroughSuccessor
<1>6. m \in Reach(E, node)
  BY <1>4, <1>5, ReachIsLeastClosed DEF IsClosed
<1>7. node \in Reach(E, m)
  BY <1>3, <1>5
<1>8. n \in Innies
  BY <1>4, ReachIsLeastClosed
<1> QED
  BY <1>1, <1>5, <1>6, <1>7, <1>8

\* Where every node of a finite set has a successor in it, some node reaches
\* itself: one whose reach is minimal.
LEMMA EndlessMeansCyclic ==
    ASSUME NEW E \in SUBSET (Innies \X Innies),
           NEW X \in SUBSET Innies, X # {},
           \A e \in E : e[2] \in X,
           \A n \in X : \E m \in X : <<n, m>> \in E
    PROVE  \E n \in X : n \in Reach(E, n)
<1> DEFINE reaches == {Reach(E, n) : n \in X}
<1>1. IsWellFoundedOn(StrictSubsetOrdering(Innies), SUBSET Innies)
  BY InniesAssumption, FS_StrictSubsetOrderingWellFounded, FS_FiniteSubsetsOfFinite
<1>2. reaches \subseteq SUBSET Innies /\ reaches # {}
  BY ReachIsLeastClosed
<1>3. \E x \in reaches : \A y \in reaches : <<y, x>> \notin StrictSubsetOrdering(Innies)
  <2> HIDE DEF reaches
  <2> QED
    BY <1>1, <1>2, WFMin
<1>4. PICK n \in X :
        \A m \in X : <<Reach(E, m), Reach(E, n)>> \notin StrictSubsetOrdering(Innies)
  BY <1>3
<1>5. PICK m \in X : <<n, m>> \in E
  OBVIOUS
<1>6. m \in Reach(E, n)
  BY <1>5, ReachIsLeastClosed DEF IsClosed
<1>7. Reach(E, m) \subseteq Reach(E, n)
  BY <1>6, ReachIsTransitive
<1>8. Reach(E, m) = Reach(E, n)
  <2>1. Reach(E, m) \in SUBSET Innies /\ Reach(E, n) \in SUBSET Innies
    BY ReachIsLeastClosed
  <2> QED
    BY <1>4, <1>7, <2>1 DEF StrictSubsetOrdering
<1> QED
  BY <1>6, <1>8

-----------------------------------------------------------------------------
\* The stuck edges as a set of pairs.
StuckPairs(g) == EdgePairs([n \in StuckSet(g) |-> StuckEdges(g, StuckSet(g), n)])

LEMMA StuckPairsAre ==
    ASSUME NEW g, NEW n, NEW m
    PROVE  <<n, m>> \in StuckPairs(g)
              <=> n \in StuckSet(g) /\ m \in StuckEdges(g, StuckSet(g), n)
BY DEF StuckPairs, EdgePairs

LEMMA StuckPairsType ==
    ASSUME NEW g
    PROVE  /\ StuckSet(g) \in SUBSET Innies
           /\ StuckPairs(g) \in SUBSET (StuckSet(g) \X StuckSet(g))
           /\ StuckPairs(g) \in SUBSET (Innies \X Innies)
<1>1. StuckSet(g) \in SUBSET Innies
  BY StuckSetIsGreatestKnot DEF IsKnot, Blocked
<1>2. \A n \in StuckSet(g) : StuckEdges(g, StuckSet(g), n) \subseteq StuckSet(g)
  BY DEF StuckEdges
<1>3. StuckPairs(g) \in SUBSET (StuckSet(g) \X StuckSet(g))
  BY <1>2 DEF StuckPairs, EdgePairs
<1> QED
  BY <1>1, <1>3

\* find_cycle names members of the stuck set, and each of them waits on one:
\* it needs it, or it is in a group none of whose members can move.
THEOREM CycleIsStuck ==
    ASSUME NEW g, NEW n \in FindCycle(g)
    PROVE  /\ n \in StuckSet(g)
           /\ n \in Blocked(g)
           /\ \E m \in FindCycle(g) : m \in StuckEdges(g, StuckSet(g), n)
<1>1. StuckPairs(g) \in SUBSET (Innies \X Innies)
  BY StuckPairsType
<1>2. FindCycle(g) = FirstComponent[StuckPairs(g)]
  BY DEF FindCycle, StuckPairs
<1>3. PICK m \in FindCycle(g) : <<n, m>> \in StuckPairs(g)
  BY <1>1, <1>2, FirstComponentIsCyclic
<1>4. n \in StuckSet(g) /\ m \in StuckEdges(g, StuckSet(g), n)
  BY <1>3, StuckPairsAre
<1>5. n \in Blocked(g)
  BY <1>4, StuckSetIsGreatestKnot DEF IsKnot
<1> QED
  BY <1>4, <1>5

\* find_cycle finds a cycle whenever anybody is stuck: the rest of the stuck
\* set waits on one (andor.py:26-28).
THEOREM StuckHasCycle ==
    ASSUME NEW g, StuckSet(g) # {}
    PROVE  FindCycle(g) # {}
<1> DEFINE X == StuckSet(g)
           E == StuckPairs(g)
<1>1. E \in SUBSET (Innies \X Innies) /\ E \in SUBSET (X \X X) /\ X \in SUBSET Innies
  BY StuckPairsType
<1>2. \A e \in E : e[2] \in X
  BY <1>1
<1>3. ASSUME NEW n \in X PROVE \E m \in X : <<n, m>> \in E
  <2>1. ~HasWayForward(g, n, X)
    BY StuckSetIsGreatestKnot DEF IsKnot
  <2>2. StuckEdges(g, X, n) # {} /\ StuckEdges(g, X, n) \subseteq X
    BY <2>1 DEF HasWayForward, StuckEdges
  <2> QED
    BY <2>2, StuckPairsAre
<1> HIDE DEF X, E
<1>4. X # {}
  BY DEF X
<1>5. \E n \in X : n \in Reach(E, n)
  BY <1>1, <1>2, <1>3, <1>4, EndlessMeansCyclic
<1>6. FirstComponent[E] # {}
  BY <1>1, <1>5, FirstComponentExists
<1> QED
  BY <1>6 DEF FindCycle, E, StuckPairs
-----------------------------------------------------------------------------
\* Without OR-groups: the stuck edges are the AND-edges between stuck nodes, a
\* node with an edge to a stuck one is stuck, and so is every node on a cycle.

NoGroups(g) == g \in Graphs /\ \A i \in Innies : g.or[i] = <<>>

LEMMA AndEdgesAre ==
    ASSUME NEW g, NoGroups(g)
    PROVE  /\ EdgePairs(g.and) \in SUBSET (Innies \X Innies)
           /\ \A n \in Innies : \A m : <<n, m>> \in EdgePairs(g.and) <=> m \in g.and[n]
           /\ \A n \in Innies : OrGroups(g, n) = {}
           /\ Blocked(g) = {n \in Innies : g.and[n] # {}}
<1>1. g.and \in [Innies -> SUBSET Innies] /\ \A i \in Innies : g.or[i] = <<>>
  BY DEF NoGroups, Graphs
<1>2. EdgePairs(g.and) \in SUBSET (Innies \X Innies)
  BY <1>1 DEF EdgePairs
<1>3. \A n \in Innies : \A m : <<n, m>> \in EdgePairs(g.and) <=> m \in g.and[n]
  BY <1>1 DEF EdgePairs
<1>4. \A n \in Innies : OrGroups(g, n) = {}
  BY <1>1 DEF OrGroups
<1>5. Blocked(g) = {n \in Innies : g.and[n] # {}}
  BY <1>1 DEF Blocked
<1> QED
  BY <1>2, <1>3, <1>4, <1>5

\* A set of nodes each of which has an edge into it is stuck.
LEMMA EndlessIsStuck ==
    ASSUME NEW g, NoGroups(g), NEW X \in SUBSET Innies,
           \A n \in X : g.and[n] \cap X # {}
    PROVE  X \subseteq StuckSet(g)
<1>1. X \in SUBSET Blocked(g)
  BY AndEdgesAre
<1>2. \A n \in X : ~HasWayForward(g, n, X)
  BY DEF HasWayForward, AndEdges
<1> QED
  BY <1>1, <1>2, StuckSetIsGreatestKnot DEF IsKnot

LEMMA StuckIsClosedBackwards ==
    ASSUME NEW g, NoGroups(g), NEW n \in Innies, NEW m \in StuckSet(g), m \in g.and[n]
    PROVE  n \in StuckSet(g)
<1> DEFINE S == StuckSet(g)
<1>1. S \in SUBSET Innies
  BY StuckPairsType
<1>2. \A k \in S : g.and[k] \cap S # {}
  <2>1. \A k \in S : ~HasWayForward(g, k, S)
    BY StuckSetIsGreatestKnot DEF IsKnot
  <2> QED
    BY <1>1, <2>1, AndEdgesAre DEF HasWayForward, AndEdges
<1> DEFINE X == S \cup {n}
<1>3. X \in SUBSET Innies
  BY <1>1
<1>4. \A k \in X : g.and[k] \cap X # {}
  BY <1>2
<1> HIDE DEF X
<1>5. X \subseteq StuckSet(g)
  BY <1>3, <1>4, EndlessIsStuck
<1> QED
  BY <1>5 DEF X

LEMMA CyclicIsStuck ==
    ASSUME NEW g, NoGroups(g), NEW n \in Innies, n \in Reach(EdgePairs(g.and), n)
    PROVE  n \in StuckSet(g)
<1> DEFINE E == EdgePairs(g.and)
           C == {k \in Reach(E, n) : n \in Reach(E, k)}
<1>1. E \in SUBSET (Innies \X Innies) /\ n \in Reach(E, n)
  BY AndEdgesAre
<1>2. \A k \in Innies : \A m : <<k, m>> \in E <=> m \in g.and[k]
  BY AndEdgesAre
<1> HIDE DEF E
<1>3. C \in SUBSET Innies /\ n \in C
  BY <1>1, ReachIsLeastClosed
<1>4. ASSUME NEW k \in C PROVE g.and[k] \cap C # {}
  <2>1. k \in Innies /\ k \in Reach(E, n) /\ n \in Reach(E, k)
    BY <1>3
  <2>2. PICK m \in Innies : <<k, m>> \in E /\ (m = n \/ n \in Reach(E, m))
    BY <1>1, <2>1, ReachThroughSuccessor
  <2>3. m \in Reach(E, n)
    <3>1. IsClosed(E, n, Reach(E, n))
      BY <1>1, ReachIsLeastClosed
    <3>2. <<k, m>>[1] = k /\ <<k, m>>[2] = m
      OBVIOUS
    <3> QED
      BY <2>1, <2>2, <3>1, <3>2 DEF IsClosed
  <2>4. n \in Reach(E, m)
    BY <1>1, <2>2
  <2> QED
    BY <1>2, <2>1, <2>2, <2>3, <2>4
<1> HIDE DEF C
<1> QED
  BY <1>3, <1>4, EndlessIsStuck

\* From a stuck node the same stuck nodes are reached along either edges.
LEMMA StuckReach ==
    ASSUME NEW g, NoGroups(g), NEW n \in StuckSet(g), NEW m \in StuckSet(g)
    PROVE  m \in Reach(StuckPairs(g), n) <=> m \in Reach(EdgePairs(g.and), n)
<1> DEFINE E == EdgePairs(g.and)
           F == StuckPairs(g)
           S == StuckSet(g)
           Z == Reach(F, n) \cup (Innies \ S)
<1>1. /\ E \in SUBSET (Innies \X Innies)
      /\ \A k \in Innies : \A j : <<k, j>> \in E <=> j \in g.and[k]
  BY AndEdgesAre
<1>2. F \in SUBSET (S \X S) /\ F \in SUBSET (Innies \X Innies) /\ S \in SUBSET Innies
  BY StuckPairsType
<1>3. \A k, j : <<k, j>> \in F <=> k \in S /\ j \in S /\ <<k, j>> \in E
  <2>1. \A k \in S : StuckEdges(g, S, k) = g.and[k] \cap S
    BY <1>2, AndEdgesAre DEF StuckEdges, AndEdges
  <2> QED
    BY <1>1, <1>2, <2>1, StuckPairsAre
<1>4. \A k, j : <<k, j>> \in E /\ j \in S => k \in S
  BY <1>1, StuckIsClosedBackwards
<1> HIDE DEF E, F, S
<1>5. Reach(F, n) \subseteq Reach(E, n)
  <2>1. F \subseteq E
    BY <1>2, <1>3
  <2>2. IsClosed(E, n, Reach(E, n)) /\ Reach(E, n) \in SUBSET Innies
    BY <1>1, ReachIsLeastClosed
  <2>3. IsClosed(F, n, Reach(E, n))
    BY <2>1, <2>2 DEF IsClosed
  <2> QED
    BY <1>2, <2>2, <2>3, ReachIsLeastClosed
<1>6. Reach(E, n) \subseteq Z
  <2>1. Reach(F, n) \in SUBSET Innies /\ IsClosed(F, n, Reach(F, n))
    BY <1>2, ReachIsLeastClosed
  <2>2. ASSUME NEW e \in E, e[1] = n \/ e[1] \in Z PROVE e[2] \in Z
    <3>1. e = <<e[1], e[2]>> /\ e[1] \in Innies /\ e[2] \in Innies
      BY <1>1
    <3>2. CASE e[2] \in S
      <4>1. e[1] \in S
        BY <1>4, <3>1, <3>2
      <4>2. e \in F
        BY <1>3, <3>1, <3>2, <4>1
      <4>3. e[1] = n \/ e[1] \in Reach(F, n)
        BY <2>2, <4>1
      <4> QED
        BY <2>1, <4>2, <4>3 DEF IsClosed
    <3>3. CASE e[2] \notin S
      BY <3>1, <3>3
    <3> QED
      BY <3>2, <3>3
  <2>3. IsClosed(E, n, Z) /\ Z \in SUBSET Innies
    BY <2>1, <2>2 DEF IsClosed
  <2> HIDE DEF Z
  <2> QED
    BY <1>1, <2>3, ReachIsLeastClosed
<1>7. m \in S
  BY DEF S
<1> QED
  BY <1>5, <1>6, <1>7 DEF E, F

\* "With no OR-groups present this reduces exactly to SccDetector"
\* (andor.py:30-31).
THEOREM FindCycleReducesToScc ==
    ASSUME NEW g, NoGroups(g)
    PROVE  FindCycle(g) = SccFindCycle(g)
<1> DEFINE E == EdgePairs(g.and)
           F == StuckPairs(g)
           S == StuckSet(g)
<1>1. /\ E \in SUBSET (Innies \X Innies)
      /\ F \in SUBSET (S \X S) /\ F \in SUBSET (Innies \X Innies) /\ S \in SUBSET Innies
  BY AndEdgesAre, StuckPairsType
<1>2. FindCycle(g) = FirstComponent[F] /\ SccFindCycle(g) = FirstComponent[E]
  BY DEF FindCycle, SccFindCycle, StuckPairs
<1>3. \A n \in Innies : n \in Reach(E, n) => n \in S
  BY CyclicIsStuck
<1>4. \A n, m \in S : m \in Reach(F, n) <=> m \in Reach(E, n)
  BY StuckReach
<1> HIDE DEF E, F, S
<1>5. \A n \in Innies : n \in Reach(F, n) => n \in S
  <2> SUFFICES ASSUME NEW n \in Innies, n \in Reach(F, n) PROVE n \in S
    OBVIOUS
  <2>1. PICK m \in Innies : <<n, m>> \in F
    BY <1>1, ReachThroughSuccessor
  <2> QED
    BY <1>1, <2>1
<1>6. \A n \in Innies : n \in Reach(F, n) <=> n \in Reach(E, n)
  BY <1>3, <1>4, <1>5
<1>7. ASSUME NEW n \in Innies, n \in Reach(E, n)
      PROVE  {m \in Reach(F, n) : n \in Reach(F, m)} = {m \in Reach(E, n) : n \in Reach(E, m)}
  <2>1. n \in S
    BY <1>3, <1>7
  <2>2. Reach(E, n) \in SUBSET Innies /\ Reach(F, n) \in SUBSET Innies
    BY <1>1, ReachIsLeastClosed
  <2>3. \A m \in Reach(E, n) : n \in Reach(E, m) => m \in S
    <3> SUFFICES ASSUME NEW m \in Reach(E, n), n \in Reach(E, m) PROVE m \in S
      OBVIOUS
    <3>1. Reach(E, n) \subseteq Reach(E, m)
      BY <1>1, ReachIsTransitive
    <3> QED
      BY <1>3, <2>2, <3>1
  <2>4. \A m \in Reach(F, n) : n \in Reach(F, m) => m \in S
    <3> SUFFICES ASSUME NEW m \in Reach(F, n), n \in Reach(F, m) PROVE m \in S
      OBVIOUS
    <3>1. Reach(F, n) \subseteq Reach(F, m)
      BY <1>1, ReachIsTransitive
    <3> QED
      BY <1>5, <2>2, <3>1
  <2> QED
    BY <1>4, <2>1, <2>3, <2>4
<1>8. {n \in Innies : n \in Reach(F, n)} = {n \in Innies : n \in Reach(E, n)}
  BY <1>6
<1> DEFINE cyclic == {n \in Innies : n \in Reach(E, n)}
           first  == CHOOSE n \in cyclic : \A m \in cyclic : n <= m
<1>9. CASE cyclic = {}
  <2>1. FirstComponent[E] = {} /\ FirstComponent[F] = {}
    BY <1>1, <1>8, <1>9 DEF FirstComponent
  <2> QED
    BY <1>2, <2>1
<1>10. CASE cyclic # {}
  <2>1. cyclic \in SUBSET Nat /\ IsFiniteSet(cyclic)
    BY InniesAssumption, FS_Subset
  <2>2. \E n \in cyclic : \A m \in cyclic : n <= m
    <3> HIDE DEF cyclic
    <3> QED
      BY <1>10, <2>1, LeastExists
  <2>3. first \in cyclic
    BY <2>2
  <2>4. /\ FirstComponent[E] = {m \in Reach(E, first) : first \in Reach(E, m)}
        /\ FirstComponent[F] = {m \in Reach(F, first) : first \in Reach(F, m)}
    BY <1>1, <1>8, <1>10 DEF FirstComponent
  <2> HIDE DEF first
  <2> QED
    BY <1>2, <1>7, <2>3, <2>4
<1> QED
  BY <1>9, <1>10
=============================================================================
