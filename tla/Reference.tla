------------------------------- MODULE Reference -------------------------------
(***************************************************************************)
(* What a work schedule computes: a run without threads in which, round by *)
(* round, every Innie that can move does so, all of them at once, and the  *)
(* cycles are resolved whenever none can.  It is deterministic and uses    *)
(* the interpreter and the detector, but nothing of the Registry's         *)
(* protocol: no lock, no notification, no gate.  Determinism.tla compares  *)
(* it with every interleaving of the threads.                              *)
(*                                                                         *)
(* A state of this run is a record:                                        *)
(*   cell   the results so far                                             *)
(*   day    the interpreter of each Innie, stopped at its next question    *)
(*   stuck  nobody could move, and not every cycle has been resolved yet   *)
(*   graph  who waited for whom when nobody could move, less the resolved  *)
(***************************************************************************)
EXTENDS Detector, Cells, Interp

StartOf(programs) ==
    [cell  |-> [i \in Innies |-> Pending],
     day   |-> [i \in Innies |-> RunToAsk(Begin(programs[i]))],
     stuck |-> FALSE,
     graph |-> EmptyGraph]

Open(s, i) == s.cell[i] = Pending
AllIn(s, ids) == \A k \in DOMAIN ids : ~Open(s, ids[k])

\* A branch has settled that ends the fold by itself.
Absorbed(s, ask) ==
    \E k \in DOMAIN ask.ids : ~Open(s, ask.ids[k]) /\ Absorbs(ask, s.cell[ask.ids[k]])

CanMove(s, i) ==
    /\ Open(s, i)
    /\ LET ask == NextAsk(s.day[i])
       IN  CASE ask.for = "nothing" -> TRUE
             [] ask.for = "all" -> AllIn(s, ask.ids)
             [] ask.for = "fold" -> Absorbed(s, ask) \/ AllIn(s, ask.ids)

\* A quantified condition none of whose branches absorbs, once all are in: the
\* first of them that is not a value faults the reader.
FoldAll(day, ask, cell) ==
    LET faulty == {k \in DOMAIN ask.ids : cell[ask.ids[k]].kind # "value"}
        k      == CHOOSE k \in faulty : \A m \in faulty : k <= m
    IN  IF faulty = {} THEN AnswerFold(day, ask.cond.quant # "ANY")
        ELSE Raise(day, FaultOf(ask.ids[k], cell[ask.ids[k]]))

\* The workday of i after its move.
Moved(s, i) ==
    LET ask == NextAsk(s.day[i])
    IN  CASE ask.for = "nothing" -> s.day[i]
          [] ask.for = "all" -> AnswerAll(s.day[i], ask.ids, s.cell)
          [] ask.for = "fold" -> IF Absorbed(s, ask)
                                 THEN AnswerFold(s.day[i], ask.cond.quant = "ANY")
                                 ELSE FoldAll(s.day[i], ask, s.cell)

\* Everybody who can move does.
Round(s) ==
    [cell  |-> [i \in Innies |-> IF CanMove(s, i) /\ Ended(s.day[i])
                                 THEN Outcome(s.day[i]) ELSE s.cell[i]],
     day   |-> [i \in Innies |-> IF CanMove(s, i) THEN Moved(s, i) ELSE s.day[i]],
     stuck |-> FALSE,
     graph |-> s.graph]

\* Nobody can: who waits for whom?
WaitsOf(s) ==
    LET pending(ask) == {t \in Innies : Open(s, t) /\ \E k \in DOMAIN ask.ids : ask.ids[k] = t}
    IN  [and |-> [i \in Innies |-> IF Open(s, i) /\ NextAsk(s.day[i]).for = "all"
                                   THEN pending(NextAsk(s.day[i])) ELSE {}],
         or  |-> [i \in Innies |-> IF Open(s, i) /\ NextAsk(s.day[i]).for = "fold"
                                   THEN <<pending(NextAsk(s.day[i]))>> ELSE <<>>]]

Stop(s) == [cell |-> s.cell, day |-> s.day, stuck |-> TRUE, graph |-> WaitsOf(s)]

\* Every cycle there is at that point, one after the other, before anybody
\* reacts to the first.
Unwork(s) ==
    LET members == FindCycle(s.graph)
    IN  [cell  |-> [i \in Innies |-> IF i \in members THEN DeadlockResult ELSE s.cell[i]],
         day   |-> s.day,
         stuck |-> TRUE,
         graph |-> Clear(s.graph, members)]

\* None is left.
GoOn(s) == [cell |-> s.cell, day |-> s.day, stuck |-> FALSE, graph |-> EmptyGraph]

Successor(s) ==
    IF s.stuck THEN IF FindCycle(s.graph) # {} THEN Unwork(s) ELSE GoOn(s)
    ELSE IF \E i \in Innies : CanMove(s, i) THEN Round(s) ELSE Stop(s)

Complete(s) == ~s.stuck /\ \A i \in Innies : ~Open(s, i)
=============================================================================
