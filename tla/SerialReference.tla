---------------------------- MODULE SerialReference ----------------------------
(***************************************************************************)
(* The serial oracle beside the run that defines what its schedule         *)
(* computes, which goes first, as in Determinism.tla.                      *)
(***************************************************************************)
EXTENDS SerialRunner, Reference

VARIABLES
    ref,          \* the state of the run of Reference
    deadlocked,   \* that run came upon a cycle
    strayed       \* the oracle settled a loop, or Python's stack overflowed

oracleVars == <<serialVars, ref, deadlocked, strayed>>

OracleInit ==
    /\ SerialInit
    /\ ref = StartOf(schedule)
    /\ deadlocked = FALSE /\ strayed = FALSE

Compute ==
    /\ ~Complete(ref)
    /\ ref' = Successor(ref)
    /\ deadlocked' = (deadlocked \/ ref'.stuck)
    /\ UNCHANGED <<serialVars, strayed>>

RunOracle ==
    /\ Complete(ref)
    /\ \/ Walk /\ UNCHANGED strayed
       \/ Stray /\ strayed' = TRUE
    /\ UNCHANGED <<ref, deadlocked>>

OracleNext == Compute \/ RunOracle

OracleSpec == OracleInit /\ [][OracleNext]_oracleVars

-----------------------------------------------------------------------------
\* Whatever order the schedule lists the Innies in, the oracle gives each the
\* result the schedule defines, faults and the choice of fault included: "two
\* runners may wait very differently and must still agree on every value"
\* (src/lumon/runners/base.py:34-35).
Agrees == \A i \in Innies : Settled(i) => cell[i] = ref.cell[i]

\* It does so for as long as it has not settled a loop to -1, whatever branches
\* it deferred on the way.
AgreesUntilStrayed == ~strayed => Agrees

\* The same, claimed of every schedule that does not deadlock: "deferral must
\* not depend on the order run() happens to walk the Innies in"
\* (src/tests/test_serial.py:229-230).
AgreesUnlessDeadlocked == ~deadlocked => Agrees
=============================================================================
