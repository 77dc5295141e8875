------------------------------- MODULE Programs -------------------------------
(***************************************************************************)
(* The programs the theorems are about, and what they suppose of the       *)
(* parameter RunToAsk.  A program may be nested to any depth, and a SHIFT  *)
(* is executed by putting its turns in front of what is left of the        *)
(* program.  So the theorems speak of a set of instructions that has, with *)
(* each SHIFT, the instructions of its body and the SHIFT of one turn less *)
(* (like Closure of Schedules.tla): every workday keeps to such a set.     *)
(***************************************************************************)
EXTENDS Interp

WithOperand == {"LOAD", "ADD", "MULTIPLY", "MODULO"}
WithCondition == {"WELLNESS_CHECK_IF", "CONDITIONAL_ADD"}
Opcodes == WithOperand \cup WithCondition \cup {"WAFFLE", "WELLNESS_CHECK", "SHIFT"}

\* The lists of Innies an instruction may ask for.
ListsOf(instr) ==
    CASE instr.op \in WithOperand -> {instr.arg.ids}
      [] instr.op = "WELLNESS_CHECK_IF" -> {instr.cond.lhs.ids, instr.cond.rhs.ids}
      [] instr.op = "CONDITIONAL_ADD" ->
            {instr.arg.ids, instr.cond.lhs.ids, instr.cond.rhs.ids}
      [] OTHER -> {}

Closed(I) ==
    \A instr \in I :
        /\ instr.op \in Opcodes
        /\ instr.op = "SHIFT" =>
              /\ instr.times \in Nat /\ instr.body \in Seq(I)
              /\ instr.times # 0 => Shift(instr.times - 1, instr.body) \in I

\* Every list of I is one of members of K.
RefersTo(I, K) == \A instr \in I : ListsOf(instr) \subseteq Seq(K)

ListsOnce(ids) == \A j, k \in DOMAIN ids : ids[j] = ids[k] => j = k

\* No fold lists an Innie twice.
FoldsOnce(I) ==
    \A instr \in I :
        instr.op \in WithCondition =>
            instr.cond.quant = "NONE" \/ ListsOnce(instr.cond.rhs.ids)

-----------------------------------------------------------------------------
\* A workday under way with instructions of I.
InProgress(I, day) ==
    /\ day = [code |-> day.code, acc |-> day.acc, staged |-> day.staged,
              got |-> day.got, raised |-> day.raised]
    /\ day.code \in Seq(I)

\* run_block goes from d to e: it executes instructions until it has to stop.
RunsTo(d, e) ==
    \E n \in Nat : \E at :
        /\ at[0] = d /\ at[n] = e
        /\ \A k \in 0..(n - 1) : ~Stopped(at[k]) /\ at[k + 1] = Execute(at[k])
        /\ Stopped(e)

\* RunToAsk does that with whatever workday it is given.
RunsBlocks(I) == \A day : InProgress(I, day) => RunsTo(day, RunToAsk(day))
=============================================================================
