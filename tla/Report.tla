--------------------------------- MODULE Report ---------------------------------
(***************************************************************************)
(* What is printed once the threaded runner has finished: the entries of   *)
(* Cli.tla for the Cells of ConcurrentRunner.tla.                          *)
(***************************************************************************)
EXTENDS ConcurrentRunner, Cli

\* The Innies whose own instruction went wrong.
Culprits ==
    {i \in Innies : /\ IsFault(cell[i])
                    /\ \/ cell[i].why = "ArithmeticFault"
                       \/ cell[i].why = "NoWorkProduct" /\ cell[cell[i].innie] = Void}

\* The report of a finished run blames the right Innies: an error line goes
\* from one Innie that faulted to another and ends at one that divided by zero
\* or read an Innie that is VOID, so it never comes back to itself (what
\* _describe guards against, cli.py:48-50); and the program exits with 1 only
\* if there is such an Innie, not for a deadlock.
ReportBlamesCulprits ==
    (\A i \in Innies : Settled(i)) =>
        LET report == FormatResults(cell)
        IN  /\ \A i \in Innies :
                 LET chain == report[i].error
                 IN  chain # <<>> => /\ \A j \in DOMAIN chain : IsFault(cell[chain[j]])
                                     /\ chain[Len(chain)] \in Culprits
            /\ ExitCode(FALSE, report) = (IF Culprits = {} THEN 0 ELSE 1)
=============================================================================
