---------------------------- MODULE MCSerialRerun ----------------------------
(***************************************************************************)
(* The serial oracle with its second workdays, on the same schedules.      *)
(***************************************************************************)
EXTENDS SerialRerun, MCSerialRunner
=============================================================================
