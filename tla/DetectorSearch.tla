---------------------------- MODULE DetectorSearch ----------------------------
(***************************************************************************)
(* The loops of src/lumon/deadlock/: AndOrDetector (_stuck_set's repeated  *)
(* sweeps, then the search for a node that reaches itself and for its      *)
(* component) and SccDetector (the second half alone, on the AND-edges).   *)
(* Detector.tla says what they compute; here is how, with Python's choices *)
(* left open: a frontier is built from a set, so the order in which its    *)
(* nodes are popped is not determined.  (It is a list and may hold a node  *)
(* twice; the second time is skipped by `if node in seen`, so a set of     *)
(* nodes does.)                                                            *)
(*                                                                         *)
(*   phase     "sweep"   in the for loop of _stuck_set                     *)
(*             "pick"    in the for loop of find_cycle                     *)
(*             "forward" in _reachable from the node picked                *)
(*             "back"    in _reachable from a node of its forward set      *)
(*             "done"    returned                                          *)
(***************************************************************************)
EXTENDS Detector

CONSTANT SearchGraphs   \* the wait-for graphs to search

ASSUME SearchAssumption == SearchGraphs \subseteq Graphs

VARIABLES
    algorithm,  \* "andor" or "scc"
    graph,
    phase,
    stuck,      \* the candidates for the stuck set; for "scc", the blocked nodes
    todo,       \* what is left of the for loop over a sorted copy of stuck
    changed,    \* _stuck_set's flag
    node,       \* find_cycle's node
    frontier, seen,    \* _reachable's locals
    forward,    \* what node leads to
    unchecked,  \* the members of forward not tried yet
    from,       \* the one being tried
    answer      \* the component so far; at the end what find_cycle returns

searchVars == <<algorithm, graph, phase, stuck, todo, changed, node, frontier,
                seen, forward, unchecked, from, answer>>

Least(S) == CHOOSE n \in S : \A m \in S : n <= m

\* [mutant] Edges that lead out of the stuck set are followed too.
EdgesEverywhere(n) == AndEdges(graph, n) \cup UNION OrGroups(graph, n)

\* [mutant] Phase two looks at the AND-edges alone.
EdgesWithoutGroups(n) == AndEdges(graph, n)

\* _stuck_edges, or and_edges.
Edges(n) == IF algorithm = "scc" THEN AndEdges(graph, n) ELSE StuckEdges(graph, stuck, n)

SearchInit ==
    /\ graph \in SearchGraphs
    /\ algorithm \in {"andor", "scc"}
    /\ phase = IF algorithm = "andor" THEN "sweep" ELSE "pick"
    /\ stuck = Blocked(graph)
    /\ todo = Blocked(graph)
    /\ changed = FALSE
    /\ node \in Innies
    /\ from = node
    /\ frontier = {} /\ seen = {} /\ forward = {} /\ unchecked = {} /\ answer = {}

\* One node of a sweep: discarded at once if it has a way forward.
Sweep ==
    /\ phase = "sweep" /\ todo # {}
    /\ LET n == Least(todo) IN
         /\ todo' = todo \ {n}
         /\ IF HasWayForward(graph, n, stuck)
            THEN stuck' = stuck \ {n} /\ changed' = TRUE
            ELSE UNCHANGED <<stuck, changed>>
    /\ UNCHANGED <<algorithm, graph, phase, node, frontier, seen, forward, unchecked,
                   from, answer>>

\* [mutant] One sweep is taken to be enough.
SweepOnce ==
    /\ phase = "sweep" /\ todo = {}
    /\ todo' = stuck
    /\ changed' = FALSE
    /\ phase' = "pick"
    /\ UNCHANGED <<algorithm, graph, stuck, node, frontier, seen, forward, unchecked,
                   from, answer>>

\* The sweep is over: another one, or the stuck set is found.
SweepOver ==
    /\ phase = "sweep" /\ todo = {}
    /\ todo' = stuck
    /\ changed' = FALSE
    /\ phase' = IF changed THEN "sweep" ELSE "pick"
    /\ UNCHANGED <<algorithm, graph, stuck, node, frontier, seen, forward, unchecked,
                   from, answer>>

\* The next node in sorted order; None after the last.
Pick ==
    /\ phase = "pick"
    /\ IF todo = {}
       THEN /\ phase' = "done"
            /\ UNCHANGED <<todo, node, frontier, seen>>
       ELSE /\ node' = Least(todo)
            /\ todo' = todo \ {node'}
            /\ frontier' = Edges(node')
            /\ seen' = {}
            /\ phase' = "forward"
    /\ UNCHANGED <<algorithm, graph, stuck, changed, forward, unchecked, from, answer>>

\* [mutant] _reachable without `if node in seen`.
VisitAgain ==
    /\ phase \in {"forward", "back"}
    /\ \E n \in frontier :
         /\ frontier' = (frontier \ {n}) \cup Edges(n)
         /\ seen' = seen \cup {n}
    /\ UNCHANGED <<algorithm, graph, phase, stuck, todo, changed, node, forward,
                   unchecked, from, answer>>

\* One turn of _reachable.
Visit ==
    /\ phase \in {"forward", "back"}
    /\ \E n \in frontier :
         IF n \in seen
         THEN /\ frontier' = frontier \ {n}
              /\ UNCHANGED seen
         ELSE /\ frontier' = (frontier \ {n}) \cup Edges(n)
              /\ seen' = seen \cup {n}
    /\ UNCHANGED <<algorithm, graph, phase, stuck, todo, changed, node, forward,
                   unchecked, from, answer>>

\* [mutant] The first stuck node is taken to be on a cycle.
ForwardOverAnyway ==
    /\ phase = "forward" /\ frontier = {}
    /\ forward' = seen
    /\ unchecked' = seen /\ answer' = {node} /\ phase' = "back"
    /\ seen' = {}
    /\ from' = node
    /\ UNCHANGED <<algorithm, graph, stuck, todo, changed, node, frontier>>

\* The forward search is over: a node off every cycle is passed over.
ForwardOver ==
    /\ phase = "forward" /\ frontier = {}
    /\ forward' = seen
    /\ IF node \in seen
       THEN unchecked' = seen /\ answer' = {node} /\ phase' = "back"
       ELSE phase' = "pick" /\ UNCHANGED <<unchecked, answer>>
    /\ seen' = {}
    /\ from' = node
    /\ UNCHANGED <<algorithm, graph, stuck, todo, changed, node, frontier>>

\* [mutant] Whatever node leads to is a member.
BackOverUnchecked ==
    /\ phase = "back" /\ frontier = {}
    /\ answer' = answer \cup {from}
    /\ seen' = {}
    /\ IF unchecked = {}
       THEN /\ phase' = "done"
            /\ UNCHANGED <<unchecked, from, frontier>>
       ELSE /\ from' \in unchecked
            /\ unchecked' = unchecked \ {from'}
            /\ frontier' = Edges(from')
            /\ UNCHANGED phase
    /\ UNCHANGED <<algorithm, graph, stuck, todo, changed, node, forward>>

\* The search from `from` is over: keep it if it led back; try the next member
\* of forward, or return.  The first time round it is node itself, which does.
BackOver ==
    /\ phase = "back" /\ frontier = {}
    /\ answer' = IF node \in seen THEN answer \cup {from} ELSE answer
    /\ seen' = {}
    /\ IF unchecked = {}
       THEN /\ phase' = "done"
            /\ UNCHANGED <<unchecked, from, frontier>>
       ELSE /\ from' \in unchecked
            /\ unchecked' = unchecked \ {from'}
            /\ frontier' = Edges(from')
            /\ UNCHANGED phase
    /\ UNCHANGED <<algorithm, graph, stuck, todo, changed, node, forward>>

Returned == phase = "done" /\ UNCHANGED searchVars

SearchNext ==
    Sweep \/ SweepOver \/ Pick \/ Visit \/ ForwardOver \/ BackOver \/ Returned

SearchSpec == SearchInit /\ [][SearchNext]_searchVars /\ WF_searchVars(SearchNext)

-----------------------------------------------------------------------------
SearchTypeOK ==
    /\ graph \in Graphs
    /\ algorithm \in {"andor", "scc"}
    /\ phase \in {"sweep", "pick", "forward", "back", "done"}
    /\ stuck \subseteq Innies
    /\ todo \subseteq stuck
    /\ frontier \cup seen \cup forward \cup unchecked \cup answer
            \subseteq (IF algorithm = "andor" THEN stuck ELSE Innies)
    /\ changed \in BOOLEAN
    /\ node \in Innies /\ from \in Innies

\* The sweeps end with the greatest set of Innies that cannot move, although
\* they discard nodes from the set they are testing against.
StuckIsGreatest == algorithm = "andor" /\ phase = "pick" => stuck = StuckSet(graph)

\* Whatever the order in which a frontier is popped, find_cycle returns the one
\* component Detector.tla defines ("the result depends only on `graph`",
\* deadlock/base.py:27).
AnswerIsComponent ==
    phase = "done" =>
        answer = IF algorithm = "scc" THEN SccFindCycle(graph) ELSE FindCycle(graph)

\* Whenever anybody is stuck a cycle is reported: the rest of the stuck set is
\* waiting on one (andor.py:26-28), so resolving cycles leaves nobody behind.
StuckMeansCycle ==
    phase = "done" /\ algorithm = "andor" => (answer = {} <=> stuck = {})

\* Without OR-groups the two detectors agree (andor.py:30-31).
ReducesToScc ==
    phase = "done" /\ (\A i \in Innies : graph.or[i] = <<>>) =>
        answer = SccFindCycle(graph)

\* Both loops end.
SearchEnds == <>(phase = "done")
=============================================================================
