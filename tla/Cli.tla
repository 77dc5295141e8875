---------------------------------- MODULE Cli ----------------------------------
(***************************************************************************)
(* What src/lumon/cli.py prints of a settled Registry and how it exits.    *)
(* An entry of the report has the Innie's value, or null (here none) and   *)
(* the exceptions its `error` line strings together with "because".        *)
(* The exception a Cell holds is the one its Innie raised, so it is named  *)
(* by the Innie, and its __cause__ is the exception of the Cell that       *)
(* unwrap read.                                                            *)
(***************************************************************************)
EXTENDS Names, Interp

IsFault(result) == result.kind = "fault"

\* The Innie whose exception is the __cause__ of i's: only DependencyFaulted
\* is raised with one.
CausedBy(cell, i) == IF cell[i].why = "DependencyFaulted" THEN <<cell[i].innie>> ELSE <<>>

\* The lists of different Innies each of which is the cause of the one before.
Causes(cell, i) ==
    {chain \in UNION {[1..n -> DOMAIN cell] : n \in 1..Cardinality(DOMAIN cell)} :
        /\ chain[1] = i
        /\ \A j, k \in DOMAIN chain : chain[j] = chain[k] => j = k
        /\ \A k \in 1..(Len(chain) - 1) : CausedBy(cell, chain[k]) = <<chain[k + 1]>>}

\* _describe: the one that goes on until it ends or comes back.
Describe(cell, i) ==
    CHOOSE chain \in Causes(cell, i) :
        \/ CausedBy(cell, chain[Len(chain)]) = <<>>
        \/ \E k \in DOMAIN chain : CausedBy(cell, chain[Len(chain)]) = <<chain[k]>>

\* One entry of format_results: result and error, as lists of none or one.
Entry(cell, i) ==
    [result |-> IF cell[i].kind = "value" THEN <<cell[i].n>> ELSE <<>>,
     error |-> IF IsFault(cell[i]) THEN Describe(cell, i) ELSE <<>>]

FormatResults(cell) == [i \in DOMAIN cell |-> Entry(cell, i)]

\* [mutant] A result that is missing counts as a fault.
ExitOnNull(refused, report) ==
    IF refused THEN 2 ELSE IF \E i \in DOMAIN report : report[i].result = <<>> THEN 1 ELSE 0

\* main: 2 for a schedule that load refuses, 1 if somebody faulted.
ExitCode(refused, report) ==
    IF refused THEN 2 ELSE IF \E i \in DOMAIN report : report[i].error # <<>> THEN 1 ELSE 0
=============================================================================
