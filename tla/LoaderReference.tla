----------------------------- MODULE LoaderReference -----------------------------
(***************************************************************************)
(* What load must answer, from Grammar.tla's view of the texts as a whole, *)
(* and what the programs it returns must be.                               *)
(***************************************************************************)
EXTENDS Loader, Grammar
LOCAL INSTANCE SequencesExt

\* The first Innie whose id or text is refused.
RefusedSpecs ==
    {k \in DOMAIN work : (\E j \in 1..(k - 1) : work[j].id = work[k].id) \/ Defect(work[k].text) # 0}

\* Where a line names Innies: its names, but for the IF that ends the list of
\* a CONDITIONAL_ADD, in the order they are read.
NamesIn(line) ==
    IF line.op \in {"", "SHIFT", "END_SHIFT"} THEN {}
    ELSE {w \in DOMAIN line.rest : /\ IsId(line.rest[w])
                                  /\ ~(line.op = "CONDITIONAL_ADD" /\ w \in IfCuts(line.rest))}

UnknownNames(k) ==
    UNION {{<<l, w>> : w \in {v \in NamesIn(work[k].text[l]) :
                                \A j \in DOMAIN work : work[j].id # work[k].text[l].rest[v].n}}
           : l \in DOMAIN work[k].text}

RightAnswer ==
    IF work = <<>> \/ \E k \in DOMAIN work : work[k].id = 0 THEN Answers("ScheduleError", 0, 0, 0)
    ELSE IF RefusedSpecs # {}
    THEN LET k == CHOOSE k \in RefusedSpecs : \A j \in RefusedSpecs : k <= j
         IN  IF \E j \in 1..(k - 1) : work[j].id = work[k].id
             THEN Answers("ScheduleError", 0, work[k].id, 0)
             ELSE Answers("ParseError", 0, 0, Defect(work[k].text))
    ELSE IF \A k \in DOMAIN work : UnknownNames(k) = {} THEN NoError
    ELSE LET k == CHOOSE k \in DOMAIN work : /\ UnknownNames(k) # {}
                                            /\ \A j \in 1..(k - 1) : UnknownNames(j) = {}
             p == CHOOSE p \in UnknownNames(k) :
                    \A q \in UnknownNames(k) : p[1] < q[1] \/ (p[1] = q[1] /\ p[2] <= q[2])
         IN  Answers("UnknownInnieError", work[k].id, work[k].text[p[1]].rest[p[2]].n, p[1])

\* What load says of a schedule is what the schedule, looked at as a whole,
\* calls for: its shape first; then the first Innie listed whose id was there
\* before or whose text has a defect, at the line of the defect; and, only if
\* there is none, the first name in the order of the texts that is no Innie's,
\* at its own line even inside a SHIFT.  Load accepts nothing else, and
\* refuses nothing else (loader.py:60-95, parser.py:217-254).
AnswersFirstDefect == phase = "over" => answer = RightAnswer

\* _walk: every instruction, a SHIFT before its body.
RECURSIVE Walk(_)
Walk(program) ==
    FlattenSeq([k \in DOMAIN program |->
        IF program[k].op = "SHIFT" THEN <<program[k]>> \o Walk(program[k].body)
        ELSE <<program[k]>>])

\* A program is its text: one instruction for each line that is not blank and
\* not an END_SHIFT, in the order of the lines and with their numbers, each
\* what its line means, and in the body of a SHIFT exactly the lines up to
\* the END_SHIFT that closes it.
KeepsText ==
    \A k \in DOMAIN innies :
        LET text == work[k].text
            walk == Walk(innies[k].program)
            told == Instructions(text, 1, Len(text))
        IN  /\ [j \in DOMAIN walk |-> walk[j].line] = told
            /\ \A j \in DOMAIN walk :
                 LET line == text[told[j]]
                 IN  IF line.op = "SHIFT"
                     THEN /\ walk[j].op = "SHIFT" /\ walk[j].times = line.rest[1].n
                          /\ [i \in DOMAIN Walk(walk[j].body) |-> Walk(walk[j].body)[i].line]
                                = Instructions(text, told[j] + 1, Closing(text, told[j]) - 1)
                     ELSE {AtLine(m, told[j]) : m \in Meanings(line.op, line.rest)} = {walk[j]}
=============================================================================
