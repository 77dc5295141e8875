------------------------------- MODULE LoadedWork -------------------------------
(***************************************************************************)
(* A work schedule that Loader.tla accepted, and the workday of any one of *)
(* its Innies.  What the workday reads in the Cells of the others is       *)
(* anything, so it takes every branch its program has.                     *)
(***************************************************************************)
EXTENDS Loader

CONSTANT Outcomes   \* the results a Cell may hold: some

VARIABLES
    at,    \* the place of the Innie in the schedule, 0 before
    day    \* its workday

workVars == <<loadVars, at, day>>

Accepted == phase = "over" /\ answer = NoError

WorkInit == LoadInit /\ at = 0 /\ day = Begin(<<>>)

LoadOn == at = 0 /\ LoadNext /\ UNCHANGED <<at, day>>

StartWork ==
    /\ Accepted /\ at = 0
    /\ \E k \in DOMAIN innies : at' = k /\ day' = RunToAsk(Begin(innies[k].program))
    /\ UNCHANGED loadVars

ReadAll ==
    /\ at # 0 /\ NextAsk(day).for = "all"
    /\ \E cell \in [Known -> Outcomes] : day' = AnswerAll(day, NextAsk(day).ids, cell)
    /\ UNCHANGED <<loadVars, at>>

\* A fold is true or false, or raises what the first result that is no value
\* deserves.
FoldSome ==
    /\ at # 0 /\ NextAsk(day).for = "fold"
    /\ \/ \E truth \in BOOLEAN : day' = AnswerFold(day, truth)
       \/ \E k \in DOMAIN NextAsk(day).ids, result \in Outcomes :
            /\ result.kind # "value"
            /\ day' = Raise(day, FaultOf(NextAsk(day).ids[k], result))
    /\ UNCHANGED <<loadVars, at>>

WorkDone == at # 0 /\ Ended(day) /\ UNCHANGED workVars

WorkNext == LoadOn \/ StartWork \/ ReadAll \/ FoldSome \/ WorkDone

WorkSpec == WorkInit /\ [][WorkNext]_workVars

-----------------------------------------------------------------------------
\* No Innie of a schedule that was accepted comes to wait for one that is not
\* there, whichever branches it takes and however deep in a SHIFT: nobody
\* would ever settle its Cell (loader.py:60-71 is the check, once, before).
AsksOnlyKnown ==
    NextAsk(day).for # "nothing" =>
        \A k \in DOMAIN NextAsk(day).ids : NextAsk(day).ids[k] \in Known
=============================================================================
