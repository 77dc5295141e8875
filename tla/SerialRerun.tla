----------------------------- MODULE SerialRerun -----------------------------
(***************************************************************************)
(* The serial oracle, and then every program once more.  When all Cells    *)
(* are settled, each Innie's workday is done again by a resolver that      *)
(* finds every result there: it has nobody to evaluate, no branch to defer *)
(* and no loop to settle.  It reads the results of the run, and leaves     *)
(* them alone; a second workday that ends otherwise than the result its    *)
(* Innie has shows that the walk gave the Innie a result that its program  *)
(* does not have.                                                          *)
(***************************************************************************)
EXTENDS SerialRunner

VARIABLE redo   \* the second workday of each Innie

rerunVars == <<serialVars, redo>>

RerunInit ==
    /\ SerialInit
    /\ redo = [i \in Innies |-> RunToAsk(Begin(schedule[i]))]

\* A workday after its question, when everybody it asks for has a result: all
\* the values, or the fold over all the branches.
Reread(day, results) ==
    LET ask    == NextAsk(day)
        faulty == {k \in DOMAIN ask.ids : results[ask.ids[k]].kind # "value"}
        blamed == ask.ids[Sets!Min(faulty)]
    IN  IF ask.for = "all" THEN AnswerAll(day, ask.ids, results)
        ELSE IF \E k \in DOMAIN ask.ids : Absorbs(ask, results[ask.ids[k]])
        THEN AnswerFold(day, ask.cond.quant = "ANY")
        ELSE IF faulty = {} THEN AnswerFold(day, ask.cond.quant # "ANY")
        ELSE Raise(day, FaultOf(blamed, results[blamed]))

\* Everybody whose second workday is not over goes on to his next question.
Rerun ==
    /\ AllSettled
    /\ \E i \in Innies : ~Ended(redo[i])
    /\ redo' = [i \in Innies |-> IF Ended(redo[i]) THEN redo[i] ELSE Reread(redo[i], cell)]
    /\ UNCHANGED serialVars

RerunNext ==
    \/ SerialNext /\ UNCHANGED redo
    \/ Rerun

RerunSpec == RerunInit /\ [][RerunNext]_rerunVars

\* One thread: it runs as long as it can.
FairRerunSpec == RerunSpec /\ WF_rerunVars(RerunNext)

-----------------------------------------------------------------------------
\* Each result is the one its program has beside the other results: "a settled
\* Cell is a cached result, so each Innie runs once" (serial.py:88-89), and
\* backing out of a probe costs "only the work done" (serial.py:97-98).  So
\* whatever branches were deferred, evaluations dropped half-way and begun again
\* and loops settled under evaluations that then went on, nobody has read
\* anything but a result that stands, and a fold blames the branch it should.
\* Spared are the -1 of a loop, which OnlyLoopsSettle is about, and the fault of
\* an Innie on which Python's stack gave out.
ResultsStand ==
    \A i \in Innies :
        Settled(i) /\ Ended(redo[i]) =>
            cell[i] \in {Outcome(redo[i]), DeadlockResult, Fault("RecursionError", 0)}
=============================================================================
