------------------------------- MODULE Detector -------------------------------
(***************************************************************************)
(* What the two deadlock detectors of src/lumon/deadlock/ compute, as      *)
(* definitions rather than loops: the stuck set is the greatest set whose  *)
(* members have no way forward, reachability is the least closed set, and  *)
(* the answer is the strongly connected component of the first node, in    *)
(* the order of names, that reaches itself.  The loops themselves are in   *)
(* DetectorSearch.tla, which is shown to end with these values.               *)
(***************************************************************************)
EXTENDS WaitGraph

\* AndOrDetector._has_way_forward: every AND-dependency is outside the stuck
\* candidates and every OR-group has a member outside them.
HasWayForward(g, node, stuck) ==
    /\ AndEdges(g, node) \cap stuck = {}
    /\ \A group \in OrGroups(g, node) : group # {} => ~(group \subseteq stuck)

\* A set of blocked Innies none of which can move while the others do not.
IsKnot(g, X) == X \subseteq Blocked(g) /\ \A n \in X : ~HasWayForward(g, n, X)

\* AndOrDetector._stuck_set: the greatest such set.
StuckSet(g) ==
    CHOOSE X \in SUBSET Blocked(g) :
        IsKnot(g, X) /\ \A Y \in SUBSET Blocked(g) : IsKnot(g, Y) => Y \subseteq X

\* AndOrDetector._stuck_edges: AND-edges into the stuck set, and OR-groups
\* only where the whole group is stuck.
StuckEdges(g, stuck, node) ==
    (AndEdges(g, node) \cap stuck)
        \cup UNION {group \in OrGroups(g, node) : group \subseteq stuck}

\* The pairs along which edges leads from one node to another.
EdgePairs(edges) == UNION {{<<n, m>> : m \in edges[n]} : n \in DOMAIN edges}

\* Z holds start's successors under the edges E, and those of every member.
IsClosed(E, start, Z) == \A e \in E : (e[1] = start \/ e[1] \in Z) => e[2] \in Z

\* What start leads to: the least such set.
Reach(E, start) ==
    CHOOSE Z \in SUBSET Innies :
        /\ IsClosed(E, start, Z)
        /\ \A Y \in SUBSET Innies : IsClosed(E, start, Y) => Z \subseteq Y

\* The component of the first node, in sorted order, that reaches itself;
\* {} when no node does (the code returns None).
FirstComponent[E \in SUBSET (Innies \X Innies)] ==
    LET cyclic == {n \in Innies : n \in Reach(E, n)}
        node   == CHOOSE n \in cyclic : \A m \in cyclic : n <= m
    IN  IF cyclic = {} THEN {}
        ELSE {n \in Reach(E, node) : node \in Reach(E, n)}

\* [mutant] Everybody who is stuck is reported, on a cycle or behind one.
FindEveryStuck(g) == StuckSet(g)

\* AndOrDetector.find_cycle: what the Registry runs.
FindCycle(g) ==
    FirstComponent[EdgePairs([n \in StuckSet(g) |-> StuckEdges(g, StuckSet(g), n)])]

\* SccDetector.find_cycle: AND-edges only, OR-groups are invisible.
SccFindCycle(g) == FirstComponent[EdgePairs(g.and)]
=============================================================================
