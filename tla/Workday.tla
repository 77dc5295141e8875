------------------------------- MODULE Workday -------------------------------
(***************************************************************************)
(* What the Registry promises, without locks, threads or a detector: every *)
(* Innie owns one write-once Cell and may wait for others, for all of a    *)
(* set or for any of it.  An Innie leaves a wait when the wait holds, and  *)
(* not otherwise, except that a cycle of Innies none of which can ever     *)
(* move is "unworked": each of its members is settled to -1 and nobody     *)
(* else is, and that happens only when no unsettled Innie is at work.      *)
(* (The brief, and src/lumon/deadlock/base.py:24-31.)                      *)
(***************************************************************************)
EXTENDS Naturals, FiniteSets

CONSTANTS Innies, Results, DeadlockResult, Pending

VARIABLES
    cell,   \* what each Innie has published
    wait    \* what each Innie waits for: [for, on]

vars == <<cell, wait>>

Working == [for |-> "nothing", on |-> {}]
Waits == {Working} \cup [for : {"all", "any"}, on : SUBSET Innies]

TypeOK ==
    /\ cell \in [Innies -> Results \cup {Pending}]
    /\ wait \in [Innies -> Waits]

Settled(i) == cell[i] # Pending

\* An Innie in the middle of a wait that its own work has not ended.
Waiting(i) == wait[i] # Working /\ ~Settled(i)

Holds(w) ==
    CASE w.for = "all" -> \A t \in w.on : Settled(t)
      [] w.for = "any" -> \E t \in w.on : Settled(t)
      [] OTHER -> TRUE

\* What i waits for can only come from inside X.
Hangs(i, X) ==
    /\ Waiting(i)
    /\ CASE wait[i].for = "all" -> wait[i].on \cap X # {}
         [] wait[i].for = "any" -> wait[i].on \subseteq X

\* No member of X moves unless another member of X does first.
Hopeless(X) == \A i \in X : Hangs(i, X)

\* j is reached from i along the waits inside X: every set that holds what i
\* waits for, and what its members wait for, holds j.
LeadsTo(X, i, j) ==
    \A Z \in SUBSET X :
        (\A k \in X : (k = i \/ k \in Z) => wait[k].on \cap X \subseteq Z) => j \in Z

\* C is one whole cycle of waits inside the hopeless X: its members lead to
\* themselves and to each other, and nobody else both leads to them and is led
\* to by them.
Cycle(X, C) ==
    \E i \in X : /\ LeadsTo(X, i, i)
                 /\ C = {j \in X : LeadsTo(X, i, j) /\ LeadsTo(X, j, i)}

-----------------------------------------------------------------------------
Init ==
    /\ cell = [i \in Innies |-> Pending]
    /\ wait = [i \in Innies |-> Working]

Publish(i, r) ==
    /\ ~Settled(i) /\ wait[i] = Working
    /\ cell' = [cell EXCEPT ![i] = r]
    /\ UNCHANGED wait

StartWaiting(i, w) ==
    /\ ~Settled(i) /\ wait[i] = Working
    /\ wait' = [wait EXCEPT ![i] = w]
    /\ UNCHANGED cell

Proceed(i) ==
    /\ Waiting(i) /\ Holds(wait[i])
    /\ wait' = [wait EXCEPT ![i] = Working]
    /\ UNCHANGED cell

\* All at once: the cycle, settled to -1, while every other Innie is settled,
\* waits in vain, or waited for what an earlier resolution settled to -1.
Unwork(C) ==
    /\ \E X \in SUBSET Innies : Hopeless(X) /\ Cycle(X, C)
    /\ \A i \in Innies : Settled(i) \/ Waiting(i)
    /\ cell' = [i \in Innies |-> IF i \in C THEN DeadlockResult ELSE cell[i]]
    /\ wait' = [i \in Innies |-> IF i \in C THEN Working ELSE wait[i]]

Next ==
    \/ \E i \in Innies :
        \/ \E r \in Results : Publish(i, r)
        \/ \E w \in Waits : StartWaiting(i, w)
        \/ Proceed(i)
    \/ \E C \in SUBSET Innies : Unwork(C)

Spec == Init /\ [][Next]_vars
=============================================================================
