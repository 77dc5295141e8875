------------------------------ MODULE MCWatchdog ------------------------------
(***************************************************************************)
(* Instances of Watchdog for TLC.                                          *)
(***************************************************************************)
EXTENDS Watchdog

\* Three Innies that the schedule does not list in alphabetical order.
MCInnies == 1..3
MCListed == <<2, 3, 1>>

\* A cycle of two or of all three, a self-reference, chains into them, and an
\* OR-wait that may escape them.
MCAndCalls == {{2}, {1, 3}}
MCOrCalls == {<<3, 1>>}

\* The smallest instance in which the report is taken late.
TwoInnies == 1..2
TwoListed == <<2, 1>>
PairCalls == {{1}, {2}}
NoCalls == {}
=============================================================================
