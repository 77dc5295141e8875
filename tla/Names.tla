--------------------------------- MODULE Names ---------------------------------
(***************************************************************************)
(* The Innies of a work schedule.  An Innie is a natural number standing   *)
(* for the rank of its id in the alphabetical order, so that Python's      *)
(* sorted() is the order of Nat.                                           *)
(***************************************************************************)
EXTENDS Naturals, FiniteSets

CONSTANT Innies

ASSUME InniesAssumption == Innies \subseteq Nat /\ IsFiniteSet(Innies)
=============================================================================
