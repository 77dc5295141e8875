-------------------------------- MODULE Interp --------------------------------
(***************************************************************************)
(* One Innie's workday: the instruction set of src/lumon/isa.py and its    *)
(* execution in src/lumon/interp/, as a pure function that stops wherever  *)
(* the program asks its Resolver for other Innies' work products.  Both    *)
(* runners drive it: the state of a workday is run forward to its next     *)
(* question (RunToAsk), the runner finds the answer in its own way, and    *)
(* the workday resumes with it (Answer).                                   *)
(*                                                                         *)
(* RunToAsk is a parameter: RunBlock.tla has its definition, by recursion, *)
(* and every model is run with that one.  Where a proof supposes something *)
(* of it, Programs.tla says what.                                          *)
(*                                                                         *)
(* Integers are Python's, so they have no width; % is Python's too.        *)
(***************************************************************************)
EXTENDS Integers, Sequences
LOCAL INSTANCE SequencesExt

CONSTANT RunToAsk(_)   \* run_block, from a workday to its next question

\* Result: a value, VOID or a fault, with the reason the fault was raised.
Value(n) == [kind |-> "value", n |-> n]
Void == [kind |-> "void"]
Fault(why, innie) == [kind |-> "fault", why |-> why, innie |-> innie]

\* The exception a reader of the Innie's result deserves (unwrap).
FaultOf(innie, result) ==
    Fault(IF result.kind = "fault" THEN "DependencyFaulted" ELSE "NoWorkProduct", innie)

-----------------------------------------------------------------------------
\* Operands: a constant, or references (a single Ref is a list of one).
Const(n) == [const |-> TRUE, n |-> n, ids |-> <<>>]
Refs(ids) == [const |-> FALSE, n |-> 0, ids |-> ids]

\* Conditions: lhs cmp rhs, where quant is "NONE", "ANY" or "ALL".
Cond(lhs, cmp, quant, rhs) == [lhs |-> lhs, cmp |-> cmp, quant |-> quant, rhs |-> rhs]

Load(x)     == [op |-> "LOAD", arg |-> x]
Add(x)      == [op |-> "ADD", arg |-> x]
Multiply(x) == [op |-> "MULTIPLY", arg |-> x]
Modulo(x)   == [op |-> "MODULO", arg |-> x]
Waffle      == [op |-> "WAFFLE"]
Wellness    == [op |-> "WELLNESS_CHECK"]
WellnessIf(c)          == [op |-> "WELLNESS_CHECK_IF", cond |-> c]
ConditionalAdd(ids, c) == [op |-> "CONDITIONAL_ADD", arg |-> Refs(ids), cond |-> c]
Shift(times, body)     == [op |-> "SHIFT", times |-> times, body |-> body]

Compare(cmp, left, right) ==
    CASE cmp = ">"  -> left > right
      [] cmp = "<"  -> left < right
      [] cmp = ">=" -> left >= right
      [] cmp = "<=" -> left <= right
      [] cmp = "==" -> left = right
      [] cmp = "!=" -> left # right

\* Python's a % b: the sign follows the divisor.
PyMod(a, b) == IF b > 0 THEN a % b ELSE -((-a) % (-b))

Sum(seq) == FoldLeft(LAMBDA m, n : m + n, 0, seq)
Product(seq) == FoldLeft(LAMBDA m, n : m * n, 1, seq)

-----------------------------------------------------------------------------
(* A workday under way: the instructions still to run, the accumulator, the *)
(* staging slot, the answers the current instruction has had so far (each a *)
(* list of values, a quantified condition's being <<0>> or <<1>>), and the  *)
(* exception that ended it, if one did.                                     *)
Begin(program) ==
    [code |-> program, acc |-> 0, staged |-> Void, got |-> <<>>, raised |-> <<>>]

Raise(day, fault) == [day EXCEPT !.code = <<>>, !.got = <<>>, !.raised = <<fault>>]

\* Nothing to ask, wait for all of ids, or fold a quantified condition.
NoAsk == [for |-> "nothing"]
AskAll(ids) == [for |-> "all", ids |-> ids]
AskFold(c, left) == [for |-> "fold", ids |-> c.rhs.ids, cond |-> c, left |-> left]

\* How many answers a condition takes, and its two sides once it has them.
LeftAsks(c) == IF c.lhs.const THEN 0 ELSE 1
CondAsks(c) == LeftAsks(c) + (IF c.quant = "NONE" /\ c.rhs.const THEN 0 ELSE 1)

Left(c, got) == IF c.lhs.const THEN c.lhs.n ELSE got[1][1]

\* evaluate: what the condition asks for next.  The left side always resolves
\* first, and short-circuiting is the resolver's affair.
CondAsk(c, got) ==
    CASE Len(got) < LeftAsks(c) -> AskAll(c.lhs.ids)
      [] c.quant = "NONE" -> AskAll(c.rhs.ids)
      [] OTHER -> AskFold(c, Left(c, got))

Holds(c, got) ==
    CASE c.quant # "NONE" -> got[CondAsks(c)] = <<1>>
      [] c.rhs.const -> Compare(c.cmp, Left(c, got), c.rhs.n)
      [] OTHER -> Compare(c.cmp, Left(c, got), got[CondAsks(c)][1])

\* What the head instruction needs before it can be executed.
Ask(instr, got) ==
    CASE instr.op \in {"LOAD", "ADD", "MULTIPLY", "MODULO"} ->
            IF instr.arg.const \/ got # <<>> THEN NoAsk ELSE AskAll(instr.arg.ids)
      [] instr.op = "WELLNESS_CHECK_IF" ->
            IF Len(got) < CondAsks(instr.cond) THEN CondAsk(instr.cond, got) ELSE NoAsk
      [] instr.op = "CONDITIONAL_ADD" ->
            IF Len(got) < CondAsks(instr.cond) THEN CondAsk(instr.cond, got)
            ELSE IF Len(got) = CondAsks(instr.cond) /\ Holds(instr.cond, got)
                 THEN AskAll(instr.arg.ids) ELSE NoAsk
      [] OTHER -> NoAsk

\* MODULO by each divisor in turn; <<>> when one of them is zero.
ModuloAll(acc, divisors) ==
    FoldLeft(LAMBDA a, d : IF a = <<>> \/ d = 0 THEN <<>> ELSE <<PyMod(a[1], d)>>,
             <<acc>>, divisors)

\* The handler of the head instruction, once it has what it asked for.
Execute(day) ==
    LET instr  == Head(day.code)
        values == IF instr.arg.const THEN <<instr.arg.n>> ELSE day.got[Len(day.got)]
        next   == [day EXCEPT !.code = Tail(@), !.got = <<>>]
    IN  CASE instr.op = "LOAD" -> [next EXCEPT !.acc = Sum(values)]
          [] instr.op = "ADD" -> [next EXCEPT !.acc = @ + Sum(values)]
          [] instr.op = "MULTIPLY" -> [next EXCEPT !.acc = @ * Product(values)]
          [] instr.op = "MODULO" ->
                LET left == ModuloAll(day.acc, values)
                IN  IF left = <<>> THEN Raise(day, Fault("ArithmeticFault", 0))
                    ELSE [next EXCEPT !.acc = left[1]]
          [] instr.op = "WAFFLE" -> [next EXCEPT !.staged = Value(day.acc)]
          [] instr.op = "WELLNESS_CHECK" -> [next EXCEPT !.acc = 0]
          [] instr.op = "WELLNESS_CHECK_IF" ->
                IF Holds(instr.cond, day.got) THEN [next EXCEPT !.acc = 0] ELSE next
          [] instr.op = "CONDITIONAL_ADD" ->
                IF Len(day.got) > CondAsks(instr.cond)
                THEN [next EXCEPT !.acc = @ + Sum(values)] ELSE next
          [] instr.op = "SHIFT" ->
                IF instr.times = 0 THEN next
                ELSE [next EXCEPT !.code =
                        instr.body \o <<Shift(instr.times - 1, instr.body)>> \o @]

\* The workday's next question; NoAsk when it is over.
NextAsk(day) == IF day.code = <<>> THEN NoAsk ELSE Ask(Head(day.code), day.got)

Ended(day) == day.code = <<>>

\* run_block goes no further by itself.
Stopped(day) == Ended(day) \/ NextAsk(day) # NoAsk

\* The resolver returned the values of an AND-wait's targets ...
Answer(day, values) == RunToAsk([day EXCEPT !.got = Append(@, values)])

\* ... after reading all their results: unwrap raises for the first, in the
\* caller's order, that is not a value.
AnswerAll(day, ids, cell) ==
    LET bad == {k \in DOMAIN ids : cell[ids[k]].kind # "value"}
        k   == CHOOSE k \in bad : \A m \in bad : k <= m
    IN  IF bad = {} THEN Answer(day, [j \in DOMAIN ids |-> cell[ids[j]].n])
        ELSE Raise(day, FaultOf(ids[k], cell[ids[k]]))

\* ... or the truth of a quantified condition.
AnswerFold(day, truth) == Answer(day, <<IF truth THEN 1 ELSE 0>>)

\* A branch that ends a quantified fold: its value makes an ANY OF true or an
\* ALL OF false.  A fault or VOID never does.
Absorbs(ask, result) ==
    /\ result.kind = "value"
    /\ Compare(ask.cond.cmp, ask.left, result.n) = (ask.cond.quant = "ANY")

\* execute's Outcome, or the exception it raised, as run_innie publishes it.
Outcome(day) == IF day.raised # <<>> THEN day.raised[1] ELSE day.staged
=============================================================================
