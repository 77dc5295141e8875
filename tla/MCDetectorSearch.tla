--------------------------- MODULE MCDetectorSearch ---------------------------
(* Wait-for graphs for TLC. *)
EXTENDS DetectorSearch

MCInnies == 1..3

\* One node's waits, as the Registry registers them: none, all of a set, or any
\* of a set; and, since the graph's methods allow it, both at once, or a stack
\* of two groups.
NoWait == [and |-> {}, or |-> <<>>]
Sets == SUBSET Innies \ {{}}
AndWaits == {[and |-> S, or |-> <<>>] : S \in Sets}
OrWaits == {[and |-> {}, or |-> <<S>>] : S \in Sets}
OddWaits == {[and |-> {2}, or |-> <<{1, 3}>>],
             [and |-> {1}, or |-> <<{2, 3}>>],
             [and |-> {}, or |-> <<{1, 2}, {3}>>]}

GraphOf(waits) ==
    [and |-> [i \in Innies |-> waits[i].and], or |-> [i \in Innies |-> waits[i].or]]

\* Every graph of three nodes.
MCGraphs == {GraphOf(w) : w \in [Innies -> {NoWait} \cup AndWaits \cup OrWaits \cup OddWaits]}
=============================================================================
