-------------------------- MODULE MCConcurrentRunner --------------------------
(***************************************************************************)
(* The threaded runner on the schedules of Schedules.tla, and what is      *)
(* printed of their results.                                               *)
(***************************************************************************)
EXTENDS Determinism, Report, Schedules, RunBlock

Three == 1..3
Four == 1..4
MinusOne == Value(-1)
MCResults == {Value(n) : n \in -20..200} \cup {Void}
                \cup {Fault("ArithmeticFault", 0)}
                \cup {Fault(w, i) : w \in {"DependencyFaulted", "NoWorkProduct"}, i \in Innies}

\* Whatever a program can ask for.
AllSets == SUBSET Innies
AllLists == UNION {[1..n -> Innies] : n \in 1..4}
=============================================================================
