------------------------- MODULE DetectorSearchProofs -------------------------
(***************************************************************************)
(* The loops of the two detectors return what Detector.tla defines, for    *)
(* every finite wait-for graph and whatever the order in which a frontier  *)
(* is popped: whatever they return, they return it right.  That they       *)
(* return is left to the runs.                                             *)
(***************************************************************************)
EXTENDS DetectorSearch, DetectorProofs

\* The nodes a search may meet, and the edges it follows as pairs.
Nodes == IF algorithm = "andor" THEN stuck ELSE Innies
Pairs ==
    IF algorithm = "scc" THEN EdgePairs(graph.and)
    ELSE EdgePairs([n \in stuck |-> StuckEdges(graph, stuck, n)])
Led(n) == Reach(Pairs, n)

\* The sweeps never discard a member of the greatest knot, and a sweep that
\* has discarded nobody has found the nodes behind it unable to move.
SweepInv ==
    /\ stuck \subseteq Blocked(graph)
    /\ algorithm = "scc" => phase # "sweep" /\ stuck = Blocked(graph)
    /\ algorithm = "andor" => StuckSet(graph) \subseteq stuck
    /\ phase = "sweep" =>
         /\ frontier = {} /\ seen = {} /\ forward = {} /\ unchecked = {}
         /\ changed \/ \A n \in stuck \ todo : ~HasWayForward(graph, n, stuck)
    /\ phase # "sweep" /\ algorithm = "andor" => stuck = StuckSet(graph)

\* The nodes passed over are on no cycle, and none before the node picked is.
PickInv ==
    /\ phase \in {"sweep", "pick", "forward"} => answer = {}
    /\ phase = "pick" => \A n \in stuck \ todo : n \notin Led(n)
    /\ phase = "forward" => \A n \in stuck \ todo : n = node \/ n \notin Led(n)
    /\ phase \in {"forward", "back"} =>
         node \in stuck /\ \A n \in stuck : n \in Led(n) => node <= n

\* What _reachable has seen or has in its frontier is led to from its start,
\* and only the frontier's successors can be missing.
Searched(start) ==
    /\ frontier \cup seen \subseteq Led(start)
    /\ Edges(start) \subseteq frontier \cup seen
    /\ \A n \in seen : Edges(n) \subseteq frontier \cup seen

\* Every member of forward that has been tried is in the answer if it leads
\* back; the first round, for node itself, searches nothing.
BackInv ==
    /\ forward = Led(node) /\ node \in forward
    /\ unchecked \subseteq forward /\ from \in forward
    /\ node \in answer
    /\ \A n \in answer : n \in forward /\ node \in Led(n)
    /\ \A n \in forward \ (unchecked \cup {from}) : node \in Led(n) => n \in answer
    /\ \/ Searched(from)
       \/ from = node /\ frontier = {} /\ seen = {}

SearchInv ==
    /\ SearchTypeOK
    /\ SweepInv
    /\ PickInv
    /\ phase = "forward" => Searched(node)
    /\ phase = "back" => BackInv
    /\ phase = "done" => answer = FirstComponent[Pairs]

-----------------------------------------------------------------------------
LEMMA LeastIs ==
    ASSUME NEW S \in SUBSET Innies, S # {}
    PROVE  Least(S) \in S /\ \A m \in S : Least(S) <= m
<1>1. S \in SUBSET Nat /\ IsFiniteSet(S)
  BY InniesAssumption, FS_Subset
<1> QED
  BY <1>1, LeastExists DEF Least

LEMMA BlockedType ==
    ASSUME NEW g PROVE Blocked(g) \in SUBSET Innies
BY DEF Blocked

\* The pairs are the edges.
LEMMA PairsAre ==
    ASSUME SearchTypeOK
    PROVE  /\ Nodes \in SUBSET Innies
           /\ Pairs \in SUBSET (Innies \X Innies)
           /\ \A n \in Nodes : /\ Edges(n) \subseteq Nodes
                              /\ \A m : <<n, m>> \in Pairs <=> m \in Edges(n)
<1>1. graph.and \in [Innies -> SUBSET Innies] /\ stuck \in SUBSET Innies
  BY DEF SearchTypeOK, Graphs
<1>2. CASE algorithm = "scc"
  <2>1. Nodes = Innies /\ Pairs = EdgePairs(graph.and)
    BY <1>2 DEF Nodes, Pairs
  <2>2. \A n \in Innies : Edges(n) = graph.and[n]
    BY <1>2 DEF Edges, AndEdges
  <2>3. \A n \in Innies : \A m : <<n, m>> \in EdgePairs(graph.and) <=> m \in graph.and[n]
    BY <1>1 DEF EdgePairs
  <2>4. EdgePairs(graph.and) \in SUBSET (Innies \X Innies)
    BY <1>1 DEF EdgePairs
  <2> QED
    BY <1>1, <2>1, <2>2, <2>3, <2>4
<1>3. CASE algorithm = "andor"
  <2> DEFINE f == [n \in stuck |-> StuckEdges(graph, stuck, n)]
  <2>1. Nodes = stuck /\ Pairs = EdgePairs(f)
    BY <1>3 DEF Nodes, Pairs
  <2>2. \A n \in stuck : Edges(n) = f[n]
    BY <1>3 DEF Edges
  <2>3. \A n \in stuck : f[n] \subseteq stuck
    BY DEF StuckEdges
  <2>4. DOMAIN f = stuck
    OBVIOUS
  <2> HIDE DEF f
  <2>5. \A n \in stuck : \A m : <<n, m>> \in EdgePairs(f) <=> m \in f[n]
    BY <2>4 DEF EdgePairs
  <2>6. EdgePairs(f) \in SUBSET (Innies \X Innies)
    BY <1>1, <2>3, <2>4 DEF EdgePairs
  <2> QED
    BY <1>1, <2>1, <2>2, <2>3, <2>5, <2>6
<1> QED
  BY <1>2, <1>3 DEF SearchTypeOK

\* Only a candidate can be on a cycle.
LEMMA CyclicIsCandidate ==
    ASSUME SearchTypeOK, SweepInv, NEW n \in Innies, n \in Led(n)
    PROVE  n \in stuck
<1>1. PICK m \in Innies : <<n, m>> \in Pairs
  BY PairsAre, ReachThroughSuccessor DEF Led
<1>2. CASE algorithm = "scc"
  <2>1. m \in graph.and[n]
    BY <1>1, <1>2 DEF Pairs, EdgePairs
  <2> QED
    BY <1>2, <2>1 DEF SweepInv, Blocked
<1>3. CASE algorithm = "andor"
  BY <1>1, <1>3 DEF Pairs, EdgePairs
<1> QED
  BY <1>2, <1>3 DEF SearchTypeOK

\* A search with an empty frontier has seen all there is to see.
LEMMA SearchedIsReach ==
    ASSUME SearchTypeOK, NEW start \in Nodes, Searched(start), frontier = {}
    PROVE  seen = Led(start)
<1>1. seen \subseteq Nodes
  BY DEF SearchTypeOK, Nodes
<1>2. IsClosed(Pairs, start, seen)
  <2>1. ASSUME NEW e \in Pairs, e[1] = start \/ e[1] \in seen PROVE e[2] \in seen
    <3>1. e = <<e[1], e[2]>> /\ e[1] \in Nodes
      BY <1>1, <2>1, PairsAre
    <3>2. e[2] \in Edges(e[1])
      BY <3>1, PairsAre
    <3> QED
      BY <2>1, <3>2 DEF Searched
  <2> QED
    BY <2>1 DEF IsClosed
<1>3. seen \in SUBSET Innies
  BY <1>1, PairsAre
<1>4. Led(start) \subseteq seen
  BY <1>2, <1>3, PairsAre, ReachIsLeastClosed DEF Led
<1> QED
  BY <1>4 DEF Searched

\* The successors of start, and of what start leads to, are led to from it.
LEMMA NextOnTheWay ==
    ASSUME SearchTypeOK, NEW start, NEW n \in Nodes, n = start \/ n \in Led(start)
    PROVE  Edges(n) \subseteq Led(start)
<1>1. IsClosed(Pairs, start, Led(start))
  BY PairsAre, ReachIsLeastClosed DEF Led
<1>2. ASSUME NEW m \in Edges(n) PROVE m \in Led(start)
  <2>1. <<n, m>> \in Pairs
    BY PairsAre
  <2>2. <<n, m>>[1] = n /\ <<n, m>>[2] = m
    OBVIOUS
  <2> QED
    BY <1>1, <2>1, <2>2 DEF IsClosed
<1> QED
  BY <1>2

-----------------------------------------------------------------------------
LEMMA InitSearchInv == SearchInit => SearchInv
<1> SUFFICES ASSUME SearchInit PROVE SearchInv
  OBVIOUS
<1>1. graph \in Graphs
  BY SearchAssumption DEF SearchInit
<1>2. stuck \in SUBSET Innies
  BY BlockedType DEF SearchInit
<1>3. SearchTypeOK
  BY <1>1, <1>2 DEF SearchInit, SearchTypeOK
<1>4. StuckSet(graph) \subseteq Blocked(graph)
  BY StuckSetIsGreatestKnot DEF IsKnot
<1>5. SweepInv
  BY <1>4 DEF SearchInit, SweepInv
<1>6. PickInv
  BY DEF SearchInit, PickInv
<1> QED
  BY <1>3, <1>5, <1>6 DEF SearchInit, SearchInv

\* A node with a way forward past the candidates is in no knot among them.
LEMMA SweepStep == SearchInv /\ Sweep => SearchInv'
<1> SUFFICES ASSUME SearchInv, Sweep PROVE SearchInv'
  OBVIOUS
<1> DEFINE n == Least(todo)
<1>0. SearchTypeOK /\ SweepInv /\ PickInv /\ phase = "sweep" /\ algorithm = "andor"
  BY DEF SearchInv, Sweep, SweepInv, SearchTypeOK
<1>1. n \in todo /\ n \in stuck
  BY <1>0, LeastIs DEF Sweep, SearchTypeOK
<1>2. SearchTypeOK'
  BY <1>0, <1>1 DEF Sweep, SearchTypeOK, SweepInv, PickInv
<1>3. PickInv'
  BY <1>0 DEF Sweep, PickInv
<1>4. SweepInv'
  <2>1. CASE HasWayForward(graph, n, stuck)
    <3>1. n \notin StuckSet(graph)
      BY <1>0, <2>1, WayForwardIsMonotone, StuckSetIsGreatestKnot DEF SweepInv, IsKnot
    <3>2. stuck' = stuck \ {n} /\ changed' = TRUE
      BY <2>1 DEF Sweep
    <3> HIDE DEF n
    <3> QED
      BY <1>0, <3>1, <3>2 DEF Sweep, SweepInv
  <2>2. CASE ~HasWayForward(graph, n, stuck)
    <3>1. stuck' = stuck /\ changed' = changed /\ todo' = todo \ {n}
      BY <2>2 DEF Sweep
    <3> HIDE DEF n
    <3> QED
      BY <1>0, <2>2, <3>1 DEF Sweep, SweepInv
  <2> QED
    BY <2>1, <2>2
<1> QED
  BY <1>0, <1>2, <1>3, <1>4 DEF SearchInv, Sweep

\* A sweep that discarded nobody leaves a knot, and so the greatest.
LEMMA SweepOverStep == SearchInv /\ SweepOver => SearchInv'
<1> SUFFICES ASSUME SearchInv, SweepOver PROVE SearchInv'
  OBVIOUS
<1>0. SearchTypeOK /\ SweepInv /\ PickInv /\ phase = "sweep" /\ algorithm = "andor"
  BY DEF SearchInv, SweepOver, SweepInv, SearchTypeOK
<1>1. SearchTypeOK'
  BY <1>0 DEF SweepOver, SearchTypeOK
<1>2. ASSUME ~changed PROVE stuck = StuckSet(graph)
  <2>1. \A n \in stuck : ~HasWayForward(graph, n, stuck)
    BY <1>0, <1>2 DEF SweepInv, SweepOver
  <2>2. IsKnot(graph, stuck) /\ stuck \in SUBSET Blocked(graph)
    BY <1>0, <2>1 DEF IsKnot, SweepInv
  <2> QED
    BY <1>0, <2>2, StuckSetIsGreatestKnot DEF SweepInv
<1>3. SweepInv'
  BY <1>0, <1>2 DEF SweepOver, SweepInv
<1>4. PickInv'
  BY <1>0 DEF SweepOver, PickInv
<1>5. phase' \in {"sweep", "pick"}
  BY DEF SweepOver
<1> QED
  BY <1>1, <1>3, <1>4, <1>5 DEF SearchInv

-----------------------------------------------------------------------------
\* From then on the graph and the candidates stay, and the edges with them.
LEMMA SameEdges ==
    ASSUME UNCHANGED <<algorithm, graph, stuck>>
    PROVE  /\ Pairs' = Pairs /\ Nodes' = Nodes
           /\ \A n : Edges(n)' = Edges(n) /\ Led(n)' = Led(n)
<1>1. Pairs' = Pairs /\ Nodes' = Nodes
  BY DEF Pairs, Nodes
<1>2. \A n : Edges(n)' = Edges(n)
  BY DEF Edges
<1>3. \A n : Led(n)' = Led(n)
  BY <1>1 DEF Led
<1> QED
  BY <1>1, <1>2, <1>3

LEMMA SameSweep ==
    ASSUME SweepInv, UNCHANGED <<algorithm, graph, stuck>>,
           phase # "sweep", phase' # "sweep"
    PROVE  SweepInv'
BY DEF SweepInv

LEMMA PickStep == SearchInv /\ Pick => SearchInv'
<1> SUFFICES ASSUME SearchInv, Pick PROVE SearchInv'
  OBVIOUS
<1>0. /\ SearchTypeOK /\ SweepInv /\ PickInv /\ phase = "pick"
      /\ UNCHANGED <<algorithm, graph, stuck>> /\ phase' # "sweep"
  BY DEF SearchInv, Pick
<1>1. SweepInv'
  BY <1>0, SameSweep
<1>2. CASE todo = {}
  <2>1. /\ phase' = "done" /\ answer' = {}
        /\ UNCHANGED <<todo, node, frontier, seen, forward, unchecked, from, changed>>
    BY <1>0, <1>2 DEF Pick, PickInv
  <2>2. SearchTypeOK' /\ PickInv'
    BY <1>0, <2>1 DEF SearchTypeOK, PickInv
  <2>3. \A n \in Innies : n \notin Led(n)
    BY <1>0, <1>2, CyclicIsCandidate DEF PickInv
  <2>4. FirstComponent[Pairs] = {}
    BY <1>0, <2>3, PairsAre, FirstComponentIs DEF Led
  <2> QED
    BY <1>0, <1>1, <2>1, <2>2, <2>4, SameEdges DEF SearchInv
<1>3. CASE todo # {}
  <2> DEFINE n == Least(todo)
  <2>1. /\ node' = n /\ todo' = todo \ {n} /\ seen' = {} /\ phase' = "forward"
        /\ UNCHANGED <<forward, unchecked, from, answer, changed>>
    BY <1>3 DEF Pick
  <2>2. n \in todo /\ n \in stuck /\ n \in Nodes /\ \A m \in todo : n <= m
    BY <1>0, <1>3, LeastIs DEF SearchTypeOK, Nodes
  <2> HIDE DEF n
  <2>3. frontier' = Edges(n) /\ Edges(n) \subseteq Nodes
    <3>1. frontier' = Edges(node')
      BY <1>3 DEF Pick
    <3> QED
      BY <1>0, <2>1, <2>2, <3>1, PairsAre
  <2>4. SearchTypeOK'
    BY <1>0, <2>1, <2>2, <2>3 DEF SearchTypeOK, Nodes
  <2>5. PickInv'
    <3>1. \A m \in stuck : m \in Led(m) => n <= m
      BY <1>0, <2>2 DEF PickInv
    <3>2. \A m \in stuck \ (todo \ {n}) : m = n \/ m \notin Led(m)
      BY <1>0 DEF PickInv
    <3> QED
      BY <1>0, <2>1, <2>2, <3>1, <3>2, SameEdges DEF PickInv
  <2>6. Searched(node)'
    <3>1. Edges(n) \subseteq Led(n)
      BY <1>0, <2>2, NextOnTheWay
    <3>2. Led(node)' = Led(n) /\ Edges(node)' = Edges(n)
      BY <1>0, <2>1 DEF Led, Pairs, Edges
    <3> QED
      BY <2>1, <2>3, <3>1, <3>2 DEF Searched
  <2> QED
    BY <1>1, <2>1, <2>4, <2>5, <2>6 DEF SearchInv
<1> QED
  BY <1>2, <1>3

\* One turn of _reachable keeps the search sound and complete.
LEMMA VisitSearches ==
    ASSUME SearchTypeOK, Visit, NEW start, Searched(start), start \in Nodes
    PROVE  /\ Searched(start)'
           /\ frontier' \cup seen' \subseteq Nodes
<1>0. UNCHANGED <<algorithm, graph, stuck>>
  BY DEF Visit
<1>1. PICK n \in frontier :
         IF n \in seen THEN frontier' = frontier \ {n} /\ seen' = seen
         ELSE frontier' = (frontier \ {n}) \cup Edges(n) /\ seen' = seen \cup {n}
  BY DEF Visit
<1>2. n \in Nodes /\ frontier \cup seen \subseteq Nodes
  BY DEF SearchTypeOK, Nodes
<1>3. n \in Led(start) /\ Edges(n) \subseteq Led(start) /\ Edges(n) \subseteq Nodes
  BY <1>2, NextOnTheWay, PairsAre DEF Searched
<1>4. frontier' \cup seen' \subseteq Led(start)
  BY <1>1, <1>3 DEF Searched
<1>5. Edges(start) \subseteq frontier' \cup seen'
  BY <1>1 DEF Searched
<1>6. \A m \in seen' : Edges(m) \subseteq frontier' \cup seen'
  BY <1>1 DEF Searched
<1>7. Led(start)' = Led(start) /\ \A m : Edges(m)' = Edges(m)
  BY <1>0, SameEdges
<1>8. Searched(start)'
  BY <1>4, <1>5, <1>6, <1>7 DEF Searched
<1> QED
  BY <1>1, <1>2, <1>3, <1>8

LEMMA VisitStep == SearchInv /\ Visit => SearchInv'
<1> SUFFICES ASSUME SearchInv, Visit PROVE SearchInv'
  OBVIOUS
<1>0. /\ SearchTypeOK /\ SweepInv /\ PickInv
      /\ phase \in {"forward", "back"}
      /\ UNCHANGED <<algorithm, graph, stuck, phase, todo, changed, node, forward,
                     unchecked, from, answer>>
  BY DEF SearchInv, Visit
<1>1. SweepInv' /\ PickInv'
  BY <1>0, SameSweep, SameEdges DEF PickInv
<1>2. node \in Nodes /\ (phase = "back" => from \in Nodes)
  <2>1. node \in Nodes
    BY <1>0 DEF PickInv, SearchTypeOK, Nodes
  <2>2. phase = "back" => from \in Nodes
    BY <1>0 DEF SearchInv, BackInv, SearchTypeOK, Nodes
  <2> QED
    BY <2>1, <2>2
<1>3. CASE phase = "forward"
  <2> PICK start : start = node
    OBVIOUS
  <2>1. Searched(start) /\ start \in Nodes
    BY <1>2, <1>3 DEF SearchInv
  <2>2. Searched(start)' /\ frontier' \cup seen' \subseteq Nodes
    BY <1>0, <2>1, VisitSearches
  <2>3. SearchTypeOK'
    BY <1>0, <2>2 DEF SearchTypeOK, Nodes
  <2>4. Searched(node)'
    BY <1>0, <2>2 DEF Searched, Led, Edges
  <2> QED
    BY <1>0, <1>1, <1>3, <2>3, <2>4 DEF SearchInv
<1>4. CASE phase = "back"
  <2> PICK start : start = from
    OBVIOUS
  <2>1. BackInv /\ frontier # {}
    BY <1>4 DEF SearchInv, Visit
  <2>2. Searched(start) /\ start \in Nodes
    BY <1>2, <1>4, <2>1 DEF BackInv
  <2>3. Searched(start)' /\ frontier' \cup seen' \subseteq Nodes
    BY <1>0, <2>2, VisitSearches
  <2>4. SearchTypeOK'
    BY <1>0, <2>3 DEF SearchTypeOK, Nodes
  <2>5. Searched(from)'
    BY <1>0, <2>3 DEF Searched, Led, Edges
  <2>6. BackInv'
    BY <1>0, <2>1, <2>5, SameEdges DEF BackInv
  <2> QED
    BY <1>0, <1>1, <1>4, <2>4, <2>6 DEF SearchInv
<1> QED
  BY <1>0, <1>3, <1>4

LEMMA ForwardOverStep == SearchInv /\ ForwardOver => SearchInv'
<1> SUFFICES ASSUME SearchInv, ForwardOver PROVE SearchInv'
  OBVIOUS
<1>0. /\ SearchTypeOK /\ SweepInv /\ PickInv /\ Searched(node)
      /\ phase = "forward" /\ frontier = {} /\ phase' \in {"pick", "back"}
      /\ UNCHANGED <<algorithm, graph, stuck, todo, changed, node, frontier>>
      /\ forward' = seen /\ seen' = {} /\ from' = node
  BY DEF SearchInv, ForwardOver
<1>1. SweepInv'
  BY <1>0, SameSweep
<1>2. seen = Led(node) /\ node \in Innies /\ node \in stuck
  <2>1. node \in Nodes /\ node \in Innies /\ node \in stuck
    BY <1>0 DEF PickInv, SearchTypeOK, Nodes
  <2> QED
    BY <1>0, <2>1, SearchedIsReach
<1>3. CASE node \in seen
  <2>1. unchecked' = seen /\ answer' = {node} /\ phase' = "back"
    BY <1>3 DEF ForwardOver
  <2>2. SearchTypeOK'
    BY <1>0, <1>2, <1>3, <2>1 DEF SearchTypeOK
  <2>3. PickInv'
    BY <1>0, <2>1, SameEdges DEF PickInv
  <2>4. BackInv'
    <3>1. Led(node)' = seen
      BY <1>0, <1>2 DEF Led, Pairs
    <3>2. \A n : Led(n)' = Led(n)
      BY <1>0, SameEdges
    <3> QED
      BY <1>0, <1>2, <1>3, <2>1, <3>1, <3>2 DEF BackInv
  <2> QED
    BY <1>1, <2>1, <2>2, <2>3, <2>4 DEF SearchInv
<1>4. CASE node \notin seen
  <2>1. phase' = "pick" /\ UNCHANGED <<unchecked, answer>>
    BY <1>4 DEF ForwardOver
  <2>2. SearchTypeOK'
    BY <1>0, <2>1 DEF SearchTypeOK
  <2>3. PickInv'
    BY <1>0, <1>2, <1>4, <2>1, SameEdges DEF PickInv
  <2> QED
    BY <1>1, <2>1, <2>2, <2>3 DEF SearchInv
<1> QED
  BY <1>3, <1>4

\* The component of the first node on a cycle is what FirstComponent chooses.
LEMMA LeastComponent ==
    ASSUME NEW E \in SUBSET (Innies \X Innies), NEW n \in Innies, n \in Reach(E, n),
           \A m \in Innies : m \in Reach(E, m) => n <= m
    PROVE  FirstComponent[E] = {m \in Reach(E, n) : n \in Reach(E, m)}
<1> DEFINE cyclic == {m \in Innies : m \in Reach(E, m)}
           first  == CHOOSE k \in cyclic : \A m \in cyclic : k <= m
<1>1. n \in cyclic /\ \A m \in cyclic : n <= m
  OBVIOUS
<1>2. first \in cyclic /\ \A m \in cyclic : first <= m
  BY <1>1
<1>3. first = n
  <2>1. first \in Nat /\ n \in Nat
    BY <1>2, InniesAssumption
  <2>2. first <= n /\ n <= first
    BY <1>1, <1>2
  <2> HIDE DEF first
  <2> QED
    BY <2>1, <2>2
<1>4. FirstComponent[E] = {m \in Reach(E, first) : first \in Reach(E, m)}
  BY <1>1 DEF FirstComponent
<1> QED
  BY <1>3, <1>4

LEMMA BackOverStep == SearchInv /\ BackOver => SearchInv'
<1> SUFFICES ASSUME SearchInv, BackOver PROVE SearchInv'
  OBVIOUS
<1>0. /\ SearchTypeOK /\ SweepInv /\ PickInv /\ BackInv
      /\ phase = "back" /\ frontier = {} /\ phase' \in {"back", "done"}
      /\ UNCHANGED <<algorithm, graph, stuck, todo, changed, node, forward>>
      /\ seen' = {}
      /\ answer' = IF node \in seen THEN answer \cup {from} ELSE answer
  BY DEF SearchInv, BackOver
<1>1. SweepInv'
  BY <1>0, SameSweep
<1>2. forward \subseteq Nodes /\ from \in Nodes /\ node \in Nodes /\ node \in Innies
  BY <1>0 DEF SearchTypeOK, Nodes, BackInv
<1>3. answer' \subseteq forward /\ node \in answer'
  BY <1>0 DEF BackInv
<1>4. /\ \A n \in answer' : node \in Led(n)
      /\ \A n \in forward \ unchecked : node \in Led(n) => n \in answer'
  <2>1. CASE Searched(from)
    <3>1. seen = Led(from)
      BY <1>0, <1>2, <2>1, SearchedIsReach
    <3> QED
      BY <1>0, <3>1 DEF BackInv
  <2>2. CASE from = node /\ seen = {}
    BY <1>0, <2>2 DEF BackInv
  <2> QED
    BY <1>0, <2>1, <2>2 DEF BackInv
<1>5. CASE unchecked = {}
  <2>1. phase' = "done" /\ UNCHANGED <<unchecked, from, frontier>>
    BY <1>5 DEF BackOver
  <2>2. SearchTypeOK' /\ PickInv'
    <3>0. Nodes' = Nodes
      BY <1>0 DEF Nodes
    <3>1. frontier' \cup seen' \cup forward' \cup unchecked' \cup answer' \subseteq Nodes'
      BY <1>0, <1>2, <1>3, <1>5, <2>1, <3>0
    <3>2. SearchTypeOK'
      BY <1>0, <2>1, <3>1 DEF SearchTypeOK, Nodes
    <3>3. PickInv'
      BY <1>0, <2>1 DEF PickInv
    <3> QED
      BY <3>2, <3>3
  <2>3. answer' = {n \in Led(node) : node \in Led(n)}
    BY <1>0, <1>3, <1>4, <1>5 DEF BackInv
  <2>4. \A m \in Innies : m \in Led(m) => node <= m
    BY <1>0, CyclicIsCandidate DEF PickInv
  <2>5. node \in Led(node)
    BY <1>0 DEF BackInv
  <2>6. FirstComponent[Pairs] = answer'
    BY <1>0, <1>2, <2>3, <2>4, <2>5, PairsAre, LeastComponent DEF Led
  <2> QED
    BY <1>0, <1>1, <2>1, <2>2, <2>6, SameEdges DEF SearchInv
<1>6. CASE unchecked # {}
  <2>1. /\ from' \in unchecked /\ unchecked' = unchecked \ {from'} /\ phase' = "back"
        /\ frontier' = Edges(from')
    BY <1>0, <1>6 DEF BackOver
  <2> PICK start : start = from'
    OBVIOUS
  <2>2. start \in unchecked /\ start \in forward /\ start \in Nodes
    BY <1>0, <1>2, <2>1 DEF BackInv
  <2>3. frontier' = Edges(start) /\ Edges(start) \subseteq Nodes /\ Edges(start) \subseteq Led(start)
    BY <1>0, <2>1, <2>2, PairsAre, NextOnTheWay
  <2>4. SearchTypeOK'
    <3>1. forward \subseteq (IF algorithm = "andor" THEN stuck ELSE Innies)
      BY <1>0 DEF SearchTypeOK
    <3>2. frontier' \subseteq (IF algorithm = "andor" THEN stuck ELSE Innies)
      BY <2>3 DEF Nodes
    <3>3. unchecked' \subseteq forward /\ from' \in Innies
      BY <1>0, <2>1, <2>2, PairsAre DEF BackInv
    <3> QED
      BY <1>0, <1>3, <2>1, <3>1, <3>2, <3>3 DEF SearchTypeOK
  <2>5. PickInv'
    BY <1>0, <2>1, SameEdges DEF PickInv
  <2>6. Searched(from)'
    <3>1. Led(start)' = Led(start) /\ Edges(start)' = Edges(start)
      BY <1>0, SameEdges
    <3>2. Searched(start)'
      BY <1>0, <2>3, <3>1 DEF Searched
    <3> QED
      BY <3>2 DEF Searched, Led, Edges
  <2>7. BackInv'
    <3>1. Led(node)' = Led(node) /\ \A n : Led(n)' = Led(n)
      BY <1>0, SameEdges DEF Led
    <3>2. forward \ (unchecked' \cup {from'}) = forward \ unchecked
      BY <2>1
    <3>3. /\ forward' = Led(node)' /\ node' \in forward'
          /\ unchecked' \subseteq forward' /\ from' \in forward' /\ node' \in answer'
      BY <1>0, <1>3, <2>1, <3>1 DEF BackInv
    <3> QED
      BY <1>0, <1>3, <1>4, <2>6, <3>1, <3>2, <3>3 DEF BackInv
  <2> QED
    BY <1>1, <2>1, <2>4, <2>5, <2>7 DEF SearchInv
<1> QED
  BY <1>5, <1>6

LEMMA SearchStutter == SearchInv /\ UNCHANGED searchVars => SearchInv'
<1> SUFFICES ASSUME SearchInv, UNCHANGED searchVars PROVE SearchInv'
  OBVIOUS
<1>1. SearchTypeOK' /\ SweepInv'
  BY DEF SearchInv, searchVars, SearchTypeOK, SweepInv
<1>2. /\ Pairs' = Pairs /\ \A n : Led(n)' = Led(n) /\ Edges(n)' = Edges(n)
  BY SameEdges DEF searchVars
<1>3. PickInv'
  BY <1>2 DEF SearchInv, searchVars, PickInv
<1>4. Searched(node)' = Searched(node) /\ Searched(from)' = Searched(from)
  BY DEF searchVars, Searched, Led, Edges, Pairs
<1>5. phase = "back" => BackInv'
  <2> SUFFICES ASSUME phase = "back" PROVE BackInv'
    OBVIOUS
  <2>1. BackInv
    BY DEF SearchInv
  <2>2. Led(node)' = Led(node)
    BY DEF searchVars, Led, Pairs
  <2> QED
    BY <1>2, <1>4, <2>1, <2>2 DEF searchVars, BackInv
<1> QED
  BY <1>1, <1>2, <1>3, <1>4, <1>5 DEF SearchInv, searchVars

-----------------------------------------------------------------------------
\* The invariant of the search, for every finite graph.
THEOREM AlwaysSearchInv == SearchSpec => []SearchInv
<1>1. SearchInv /\ [SearchNext]_searchVars => SearchInv'
  <2> SUFFICES ASSUME SearchInv, [SearchNext]_searchVars PROVE SearchInv'
    OBVIOUS
  <2>1. CASE Returned
    BY <2>1, SearchStutter DEF Returned
  <2> QED
    BY <2>1, SweepStep, SweepOverStep, PickStep, VisitStep, ForwardOverStep,
       BackOverStep, SearchStutter DEF SearchNext
<1> QED
  BY <1>1, InitSearchInv, PTL DEF SearchSpec

\* The types of the search's variables, and that it never meets a node outside
\* the candidates.
THEOREM SearchTypes == SearchSpec => []SearchTypeOK
<1>1. SearchInv => SearchTypeOK
  BY DEF SearchInv
<1> QED
  BY <1>1, AlwaysSearchInv, PTL

\* Discarding nodes from the set they are tested against loses nothing: when
\* _stuck_set returns it has the greatest set of Innies that cannot move.
THEOREM SweepsFindStuckSet == SearchSpec => []StuckIsGreatest
<1>1. SearchInv => StuckIsGreatest
  BY DEF SearchInv, SweepInv, StuckIsGreatest
<1> QED
  BY <1>1, AlwaysSearchInv, PTL

\* When a search returns.
LEMMA AnswerIs ==
    ASSUME SearchInv, phase = "done"
    PROVE  answer = IF algorithm = "scc" THEN SccFindCycle(graph) ELSE FindCycle(graph)
<1>1. answer = FirstComponent[Pairs] /\ SweepInv /\ algorithm \in {"andor", "scc"}
  BY DEF SearchInv, SearchTypeOK
<1>2. CASE algorithm = "scc"
  BY <1>1, <1>2 DEF Pairs, SccFindCycle
<1>3. CASE algorithm = "andor"
  <2>1. stuck = StuckSet(graph)
    BY <1>1, <1>3 DEF SweepInv
  <2> QED
    BY <1>1, <1>3, <2>1 DEF Pairs, FindCycle
<1> QED
  BY <1>1, <1>2, <1>3

\* Both detectors return the component Detector.tla defines, in whatever order
\* Python pops a frontier ("the result depends only on `graph`",
\* deadlock/base.py:27).
THEOREM SearchesFindComponent == SearchSpec => []AnswerIsComponent
<1>1. SearchInv => AnswerIsComponent
  BY AnswerIs DEF AnswerIsComponent
<1> QED
  BY <1>1, AlwaysSearchInv, PTL

\* find_cycle returns None only if nobody is stuck (andor.py:26-28).
THEOREM StuckIsReported == SearchSpec => []StuckMeansCycle
<1>1. SearchInv => StuckMeansCycle
  <2> SUFFICES ASSUME SearchInv, phase = "done", algorithm = "andor"
               PROVE  answer = {} <=> stuck = {}
    BY DEF StuckMeansCycle
  <2>1. answer = FindCycle(graph) /\ stuck = StuckSet(graph)
    BY AnswerIs DEF SearchInv, SweepInv
  <2>2. \A n \in FindCycle(graph) : n \in StuckSet(graph)
    BY CycleIsStuck
  <2> QED
    BY <2>1, <2>2, StuckHasCycle
<1> QED
  BY <1>1, AlwaysSearchInv, PTL

-----------------------------------------------------------------------------
\* On a graph without OR-groups the loops of the AND/OR detector end with what
\* those of the SCC detector do (andor.py:30-31).
THEOREM SearchesReduceToScc == SearchSpec => []ReducesToScc
<1>1. SearchInv => ReducesToScc
  <2> SUFFICES ASSUME SearchInv, phase = "done", \A i \in Innies : graph.or[i] = <<>>
               PROVE  answer = SccFindCycle(graph)
    BY DEF ReducesToScc
  <2>1. NoGroups(graph)
    BY DEF NoGroups, SearchInv, SearchTypeOK
  <2> QED
    BY <2>1, AnswerIs, FindCycleReducesToScc
<1> QED
  BY <1>1, AlwaysSearchInv, PTL
=============================================================================
