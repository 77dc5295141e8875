------------------------------ MODULE Determinism ------------------------------
(***************************************************************************)
(* The threaded runner beside the run that defines what its schedule       *)
(* computes.  That run goes first; the threads start when it is complete,  *)
(* and it does not change any more.                                        *)
(***************************************************************************)
EXTENDS ConcurrentRunner, Reference

VARIABLE ref     \* the state of the run of Reference

bothVars == <<runVars, ref>>

BothInit == RunInit /\ ref = StartOf(schedule)

Compute == ~Complete(ref) /\ ref' = Successor(ref) /\ UNCHANGED runVars
RunThreads == Complete(ref) /\ RunNext /\ UNCHANGED ref

BothNext == Compute \/ RunThreads

BothSpec == BothInit /\ [][BothNext]_bothVars

\* While some thread can take a step, some thread takes one.
FairBothSpec == BothSpec /\ WF_bothVars(BothNext)

-----------------------------------------------------------------------------
\* Whatever the interleaving, every Cell gets the result the schedule defines:
\* "the results depend only on `innies`" (src/lumon/runners/base.py:34).
Deterministic == \A i \in Innies : Settled(i) => cell[i] = ref.cell[i]

\* The fault a fold surfaces is "the earliest one in the caller's order, which
\* is what a strictly left-to-right resolver would have raised"
\* (src/lumon/resolvers/concurrent.py:92-94).
EarliestFault ==
    \A i \in Innies : Settled(i) /\ cell[i].kind = "fault" => cell[i] = ref.cell[i]
=============================================================================
