------------------------------- MODULE RunBlock -------------------------------
(***************************************************************************)
(* run_block of src/lumon/interp/engine.py, for the models: the parameter  *)
(* RunToAsk of Interp is this function.                                    *)
(***************************************************************************)
EXTENDS Interp

\* Execute instructions up to the next question, an exception or the end.
RECURSIVE RunBlock(_)
RunBlock(day) ==
    IF Stopped(day) THEN day ELSE RunBlock(Execute(day))
=============================================================================
