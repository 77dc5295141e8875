------------------------------ MODULE WaitGraph ------------------------------
(***************************************************************************)
(* The wait-for graph of src/lumon/waitgraph.py: who is blocked on whom,   *)
(* right now.  A plain value; the Registry owns the lock under which every *)
(* operator here is applied.                                               *)
(*                                                                         *)
(* The two dictionaries become total functions: a missing key is the empty *)
(* value.  The Registry never stores an empty value under a present key    *)
(* (it registers only non-empty sets of targets).                          *)
(***************************************************************************)
EXTENDS Names, Sequences

\* graph.and[a] = {b, c}: a needs both.  graph.or[a] = <<{b, c}>>: a needs any.
Graphs == [and : [Innies -> SUBSET Innies],
           or  : [Innies -> Seq(SUBSET Innies)]]

EmptyGraph == [and |-> [i \in Innies |-> {}],
               or  |-> [i \in Innies |-> <<>>]]

WaitOn(g, waiter, targets) == [g EXCEPT !.and[waiter] = targets]

PushOrGroup(g, waiter, targets) == [g EXCEPT !.or[waiter] = Append(@, targets)]

PopOrGroup(g, waiter) ==
    [g EXCEPT !.or[waiter] = IF @ = <<>> THEN @ ELSE SubSeq(@, 1, Len(@) - 1)]

Clear(g, waiters) ==
    [and |-> [i \in Innies |-> IF i \in waiters THEN {} ELSE g.and[i]],
     or  |-> [i \in Innies |-> IF i \in waiters THEN <<>> ELSE g.or[i]]]

AndEdges(g, node) == g.and[node]

OrGroups(g, node) == {g.or[node][k] : k \in DOMAIN g.or[node]}

Blocked(g) == {i \in Innies : g.and[i] # {} \/ g.or[i] # <<>>}
=============================================================================
