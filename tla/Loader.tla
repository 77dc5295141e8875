-------------------------------- MODULE Loader --------------------------------
(***************************************************************************)
(* src/lumon/loader.py: a work schedule, a list of ids with their texts,   *)
(* to Innies with their programs, or the first complaint about it.  The    *)
(* shape comes first, then one Innie after the other its id and its text,  *)
(* and only when all are known the references they make.  Of the shapes    *)
(* that pydantic refuses two stand for all: no Innies, and an empty id     *)
(* (here 0).                                                               *)
(***************************************************************************)
EXTENDS Parser

\* The schedules to load: lists of ids, each with the lines of its text.
CONSTANT Works

Words == [is : STRING, n : Int]
Texts == Seq([op : STRING, rest : Seq(Words)])

ASSUME WorksAssumption == Works \subseteq Seq([id : Nat, text : Texts])

VARIABLES
    work,     \* the one that is loaded
    phase,    \* what load is at: "shape", "specs", "text", "refs", "walk", "over"
    innies,   \* the Innies read so far
    checked,  \* how many of them name known Innies only
    todo,     \* what _walk has not yielded of the program that is checked
    answer    \* the exception load raised: which, and what it says

loadVars == <<work, phase, innies, checked, todo, answer, parserVars>>

Answers(error, by, id, line) == [error |-> error, by |-> by, id |-> id, line |-> line]
NoError == Answers("none", 0, 0, 0)

LoadInit ==
    /\ work \in Works
    /\ phase = "shape" /\ innies = <<>> /\ checked = 0 /\ todo = <<>> /\ answer = NoError
    /\ ParserIdle

Known == {innies[k].id : k \in DOMAIN innies}
ThisSpec == work[Len(innies) + 1]

Raises(error) ==
    /\ answer' = error
    /\ phase' = "over"
    /\ UNCHANGED <<work, innies, checked, todo, parserVars>>

\* InnieSpec and WorkSchedule: min_length is 1 for both.
WellShaped == work # <<>> /\ \A k \in DOMAIN work : work[k].id # 0

Validate ==
    /\ phase = "shape" /\ WellShaped
    /\ phase' = "specs"
    /\ UNCHANGED <<work, innies, checked, todo, answer, parserVars>>

RefuseShape ==
    /\ phase = "shape" /\ ~WellShaped
    /\ Raises(Answers("ScheduleError", 0, 0, 0))

RefuseDuplicate ==
    /\ phase = "specs" /\ Len(innies) < Len(work)
    /\ ThisSpec.id \in Known
    /\ Raises(Answers("ScheduleError", 0, ThisSpec.id, 0))

ReadSpec ==
    /\ phase = "specs" /\ Len(innies) < Len(work)
    /\ ThisSpec.id \notin Known
    /\ phase' = "text"
    /\ BeginParse(ThisSpec.text)
    /\ UNCHANGED <<work, innies, checked, todo, answer>>

ReadText ==
    /\ phase = "text"
    /\ ParseStep
    /\ UNCHANGED <<work, phase, innies, checked, todo, answer>>

RaiseParseError ==
    /\ phase = "text" /\ failed # 0
    /\ Raises(Answers("ParseError", 0, 0, failed))

TakeProgram ==
    /\ phase = "text" /\ Parsed
    /\ innies' = Append(innies, [id |-> ThisSpec.id, program |-> Program])
    /\ phase' = "specs"
    /\ UNCHANGED <<work, checked, todo, answer, parserVars>>

AllRead ==
    /\ phase = "specs" /\ Len(innies) = Len(work)
    /\ phase' = "refs"
    /\ UNCHANGED <<work, innies, checked, todo, answer, parserVars>>

-----------------------------------------------------------------------------
CondRefs(c) == c.lhs.ids \o c.rhs.ids

\* [mutant] The condition's are not looked at.
RefsOfTargets(instr) ==
    CASE instr.op \in {"LOAD", "ADD", "MULTIPLY", "MODULO", "CONDITIONAL_ADD"} -> instr.arg.ids
      [] instr.op = "WELLNESS_CHECK_IF" -> CondRefs(instr.cond)
      [] OTHER -> <<>>

\* refs, of an instruction that is not a SHIFT.
RefsOf(instr) ==
    CASE instr.op \in {"LOAD", "ADD", "MULTIPLY", "MODULO"} -> instr.arg.ids
      [] instr.op = "WELLNESS_CHECK_IF" -> CondRefs(instr.cond)
      [] instr.op = "CONDITIONAL_ADD" -> instr.arg.ids \o CondRefs(instr.cond)
      [] OTHER -> <<>>

\* The places of the references to nobody.
UnknownRefs(instr) == {k \in DOMAIN RefsOf(instr) : RefsOf(instr)[k] \notin Known}

BeginRefs ==
    /\ phase = "refs" /\ checked < Len(innies)
    /\ phase' = "walk"
    /\ todo' = innies[checked + 1].program
    /\ UNCHANGED <<work, innies, checked, answer, parserVars>>

Walking == phase = "walk" /\ todo # <<>>

\* [mutant] The body comes after what follows the SHIFT.
PostponeShift ==
    /\ Walking /\ Head(todo).op = "SHIFT"
    /\ todo' = Tail(todo) \o Head(todo).body
    /\ UNCHANGED <<work, phase, innies, checked, answer, parserVars>>

\* _walk goes into the body first; the SHIFT itself is not looked at.
EnterShift ==
    /\ Walking /\ Head(todo).op = "SHIFT"
    /\ todo' = Head(todo).body \o Tail(todo)
    /\ UNCHANGED <<work, phase, innies, checked, answer, parserVars>>

PassRefs ==
    /\ Walking /\ Head(todo).op # "SHIFT"
    /\ UnknownRefs(Head(todo)) = {}
    /\ todo' = Tail(todo)
    /\ UNCHANGED <<work, phase, innies, checked, answer, parserVars>>

RefuseRefs ==
    /\ Walking /\ Head(todo).op # "SHIFT"
    /\ UnknownRefs(Head(todo)) # {}
    /\ LET instr == Head(todo)
           first == CHOOSE k \in UnknownRefs(instr) : \A j \in UnknownRefs(instr) : k <= j
       IN  Raises(Answers("UnknownInnieError", innies[checked + 1].id, RefsOf(instr)[first], instr.line))

EndRefs ==
    /\ phase = "walk" /\ todo = <<>>
    /\ phase' = "refs"
    /\ checked' = checked + 1
    /\ UNCHANGED <<work, innies, todo, answer, parserVars>>

ReturnInnies ==
    /\ phase = "refs" /\ checked = Len(innies)
    /\ phase' = "over"
    /\ UNCHANGED <<work, innies, checked, todo, answer, parserVars>>

Over == phase = "over" /\ UNCHANGED loadVars

LoadNext ==
    \/ Validate \/ RefuseShape \/ RefuseDuplicate \/ ReadSpec \/ ReadText
    \/ RaiseParseError \/ TakeProgram \/ AllRead
    \/ BeginRefs \/ EnterShift \/ PassRefs \/ RefuseRefs \/ EndRefs \/ ReturnInnies \/ Over

LoadSpec == LoadInit /\ [][LoadNext]_loadVars

-----------------------------------------------------------------------------
\* Types, with the constraints of the instruction classes: a line is at least
\* 1 and a SHIFT's count at least 0 (isa.py:105, 159), in the blocks still
\* being read and wherever _walk comes.
LoadTypeOK ==
    /\ phase \in {"shape", "specs", "text", "refs", "walk", "over"}
    /\ checked \in 0..Len(innies) /\ Len(innies) <= Len(work)
    /\ \A k \in DOMAIN innies : innies[k].id = work[k].id
    /\ pos \in 1..(Len(lines) + 1) /\ failed \in Nat
    /\ \A b \in DOMAIN blocks : blocks[b].times >= 0 /\ (blocks[b].line = 0 <=> b = 1)
    /\ \A k \in DOMAIN todo : todo[k].line >= 1 /\ (todo[k].op = "SHIFT" => todo[k].times >= 0)
=============================================================================
