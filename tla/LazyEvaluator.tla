---------------------------- MODULE LazyEvaluator ----------------------------
(***************************************************************************)
(* LazyEvaluator of src/lumon/runners/serial.py: the memo table, the stack *)
(* of Innies under evaluation and the barriers of the probes in flight.    *)
(* What a program asks for next, whether it asks inside a probe, and what  *)
(* it ends with are left open; SerialRunner.tla fills them in.             *)
(*                                                                         *)
(* onStack and barriers are the fields _on_stack and _barriers.  `probes`  *)
(* is Python's own stack: whether the call of result_for that an Innie     *)
(* waits for was made by probe.  An exception unwinds Python's stack, and  *)
(* the fields only by the `finally` clauses it passes.                     *)
(*                                                                         *)
(* Python's stack has a limit, and how many of its frames an Innie takes   *)
(* depends on the program: with Room Innies under evaluation any call may  *)
(* raise RecursionError.                                                   *)
(***************************************************************************)
EXTENDS Names, Sequences, Cells

CONSTANT Room   \* how many evaluations Python's stack holds for certain

ASSUME EvaluatorAssumption == Room \in Nat \ {0}

VARIABLES cell, onStack, barriers, probes

evalVars == <<cell, onStack, barriers, probes>>

Depth == Len(onStack)
Settled(i) == cell[i] # Pending
OnStack(i) == \E h \in 1..Depth : onStack[h] = i
HeightOf(i) == CHOOSE h \in 1..Depth : onStack[h] = i

FrontOf(seq) == SubSeq(seq, 1, Len(seq) - 1)
LastOf(seq) == seq[Len(seq)]

\* The barriers once a call in a probe, or not, has been made from the top.
BarriersWith(probe) == IF probe THEN Append(barriers, Depth) ELSE barriers

\* The innermost probe on Python's stack, the one being made included.
InProbe(h, probe) == probes[h] \/ (h = Depth /\ probe)
Innermost(probe) ==
    CHOOSE h \in 1..Depth : /\ InProbe(h, probe)
                            /\ \A k \in 1..Depth : InProbe(k, probe) => k <= h

EvalInit ==
    /\ cell = [i \in Innies |-> Pending]
    /\ onStack = <<>> /\ barriers = <<>> /\ probes = <<>>

\* run asks for the result of an Innie that has none.
Enter(i) ==
    /\ onStack = <<>> /\ ~Settled(i)
    /\ onStack' = <<i>> /\ probes' = <<FALSE>>
    /\ UNCHANGED <<cell, barriers>>

-----------------------------------------------------------------------------
\* [mutant] result_for without the look at _on_stack.
PushAgain(id, probe) ==
    /\ onStack # <<>> /\ ~Settled(id)
    /\ onStack' = Append(onStack, id)
    /\ probes' = Append([probes EXCEPT ![Depth] = probe], FALSE)
    /\ barriers' = BarriersWith(probe)
    /\ UNCHANGED cell

\* result_for of an Innie with no result and not under evaluation: execute it.
Push(id, probe) ==
    /\ onStack # <<>> /\ ~Settled(id) /\ ~OnStack(id)
    /\ onStack' = Append(onStack, id)
    /\ probes' = Append([probes EXCEPT ![Depth] = probe], FALSE)
    /\ barriers' = BarriersWith(probe)
    /\ UNCHANGED cell

\* _cycle: does the loop pass below the innermost probe?
Deferrable(id, probe) ==
    BarriersWith(probe) # <<>> /\ HeightOf(id) <= LastOf(BarriersWith(probe))

\* [mutant] probe pops its barrier only when result_for returns.
ReenterKeepingBarrier(id, probe) ==
    /\ onStack # <<>> /\ ~Settled(id) /\ OnStack(id)
    /\ Deferrable(id, probe)
    /\ onStack' = SubSeq(onStack, 1, Innermost(probe))
    /\ probes' = [SubSeq(probes, 1, Innermost(probe)) EXCEPT ![Innermost(probe)] = FALSE]
    /\ barriers' = BarriersWith(probe)
    /\ UNCHANGED cell

\* If so _Reentry unwinds the stack to that probe, which defers its branch.
Reenter(id, probe) ==
    /\ onStack # <<>> /\ ~Settled(id) /\ OnStack(id)
    /\ Deferrable(id, probe)
    /\ onStack' = SubSeq(onStack, 1, Innermost(probe))
    /\ probes' = [SubSeq(probes, 1, Innermost(probe)) EXCEPT ![Innermost(probe)] = FALSE]
    /\ barriers' = FrontOf(BarriersWith(probe))
    /\ UNCHANGED cell

\* The Cells when the Innies from one height of the stack to another, those
\* that have no result, get -1.
CellsWith(first, last) ==
    [i \in Innies |-> IF ~Settled(i) /\ \E h \in first..last : onStack[h] = i
                      THEN DeadlockResult ELSE cell[i]]

\* [mutant] The loop is taken to be the whole stack.
SettleStack(id, probe) ==
    /\ onStack # <<>> /\ ~Settled(id) /\ OnStack(id)
    /\ ~Deferrable(id, probe)
    /\ cell' = CellsWith(1, Depth)
    /\ UNCHANGED <<onStack, barriers, probes>>

\* If not, no probe can help, so everything from there up settles to -1.
SettleCycle(id, probe) ==
    /\ onStack # <<>> /\ ~Settled(id) /\ OnStack(id)
    /\ ~Deferrable(id, probe)
    /\ cell' = CellsWith(HeightOf(id), Depth)
    /\ UNCHANGED <<onStack, barriers, probes>>

\* The same, with RecursionError on the way.
SettlePart(id, probe) ==
    /\ onStack # <<>> /\ Depth >= Room /\ ~Settled(id) /\ OnStack(id)
    /\ ~Deferrable(id, probe)
    /\ \E last \in HeightOf(id)..Depth : cell' = CellsWith(HeightOf(id), last)
    /\ UNCHANGED <<onStack, barriers, probes>>

-----------------------------------------------------------------------------
\* result_for is left, by a return or by an exception that its caller catches.
Leave ==
    /\ onStack # <<>>
    /\ onStack' = FrontOf(onStack)
    /\ probes' = IF Depth = 1 THEN <<>> ELSE [FrontOf(probes) EXCEPT ![Depth - 1] = FALSE]
    /\ barriers' = IF Depth > 1 /\ probes[Depth - 1] THEN FrontOf(barriers) ELSE barriers

\* The program ended or raised: publish, unless a cycle already settled it.
Return(result) ==
    /\ Leave
    /\ cell' = IF Settled(LastOf(onStack)) THEN cell
               ELSE [cell EXCEPT ![LastOf(onStack)] = result]

\* RecursionError in the publishing itself, which no handler of this result_for
\* guards.  Below Room there is none.
Abandon == Depth > Room /\ Leave /\ UNCHANGED cell

EvalNext ==
    \/ \E i \in Innies : Enter(i)
    \/ \E id \in Innies, probe \in BOOLEAN :
           Push(id, probe) \/ Reenter(id, probe) \/ SettleCycle(id, probe) \/ SettlePart(id, probe)
    \/ \E result \in Results : Return(result)
    \/ Abandon

EvalSpec == EvalInit /\ [][EvalNext]_evalVars

-----------------------------------------------------------------------------
\* No Innie is evaluated twice at once: a loop is always noticed.
NoReentry == \A g, h \in 1..Depth : onStack[g] = onStack[h] => g = h

\* The barriers are the heights of the probes in flight, innermost last, however
\* many frames an exception has unwound: so the probe whose barrier makes _cycle
\* raise _Reentry is there to catch it, and is the first that can.
BarriersAreProbes ==
    /\ Len(probes) = Depth
    /\ \A j, k \in DOMAIN barriers : j < k => barriers[j] < barriers[k]
    /\ {barriers[k] : k \in DOMAIN barriers} = {h \in 1..Depth : probes[h]}
=============================================================================
