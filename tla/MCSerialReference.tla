--------------------------- MODULE MCSerialReference ---------------------------
(***************************************************************************)
(* The serial oracle beside the run of Reference, on the same schedules.   *)
(***************************************************************************)
EXTENDS SerialReference, MCSerialRunner
=============================================================================
