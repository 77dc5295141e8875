--------------------------------- MODULE Cells ---------------------------------
(***************************************************************************)
(* What a Cell of src/lumon/cell.py can hold.                              *)
(***************************************************************************)

CONSTANTS
    Results,         \* what a Cell may hold: a value, VOID or a fault
    DeadlockResult,  \* the Result with value DEADLOCK_VALUE (-1) and no error
    Pending          \* the Cell's None

ASSUME CellsAssumption ==
    /\ DeadlockResult \in Results
    /\ Pending \notin Results
=============================================================================
