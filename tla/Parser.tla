-------------------------------- MODULE Parser --------------------------------
(***************************************************************************)
(* src/lumon/parser.py: the text of a schedule to a program of Interp.tla. *)
(*                                                                         *)
(* A line is its opcode, upper-cased, and the words that follow it.  A     *)
(* word is a name, a number, a bracket, a comma, one character of a        *)
(* comparison operator, or a keyword; `n` is the number, or the Innie the  *)
(* name stands for.  Blanks are not words: two words have one between them *)
(* except after `[`, before `]` and `,` and inside an operator.            *)
(* IF and TIMES are keywords in one place and legal names everywhere else. *)
(* A blank line, or one that holds only a comment, has the opcode "".      *)
(*                                                                         *)
(* _parse_block calls itself for a SHIFT; its calls are the sequence       *)
(* `blocks`, the innermost last.  Whatever raises ParseError leaves its    *)
(* line in `failed`: a message says more, but nothing depends on it.       *)
(***************************************************************************)
EXTENDS Interp, FiniteSets
Places == INSTANCE FiniteSetsExt

VARIABLES
    lines,   \* the lines that are not blank, each with its number
    pos,     \* the next of them
    blocks,  \* calls of _parse_block: the instructions, and the SHIFT's line and count
    failed   \* the line of the ParseError, or 0

parserVars == <<lines, pos, blocks, failed>>

Word(is, n) == [is |-> is, n |-> n]
Sym(is) == Word(is, 0)

\* _ID_RE and _INT_RE.
IsName(w) == w.is \in {"id", "IF", "TIMES"}
IsInt(w) == w.is = "int"

IsBracketed(text) == text # <<>> /\ text[1].is = "["

\* The n-th of some positions.
Nth(K, n) == CHOOSE k \in K : Cardinality({j \in K : j <= k}) = n

\* str.split(","): what stands between a comma and the next.
SplitAtCommas(text) ==
    LET ends == {0, Len(text) + 1} \cup {k \in DOMAIN text : text[k].is = ","}
    IN  [n \in 1..(Cardinality(ends) - 1) |->
            SubSeq(text, Nth(ends, n) + 1, Nth(ends, n + 1) - 1)]

\* parse_operand: <<operand>>, or <<>> for a ParseError.
ParseOperand(text) ==
    CASE text = <<>> -> <<>>
      [] IsBracketed(text) ->
            LET parts == SplitAtCommas(SubSeq(text, 2, Len(text) - 1))
            IN  IF /\ text[Len(text)].is = "]"
                   /\ \A k \in DOMAIN parts : Len(parts[k]) = 1 /\ IsName(parts[k][1])
                THEN <<Refs([k \in DOMAIN parts |-> parts[k][1].n])>> ELSE <<>>
      [] Len(text) = 1 /\ IsInt(text[1]) -> <<Const(text[1].n)>>
      [] Len(text) = 1 /\ IsName(text[1]) -> <<Refs(<<text[1].n>>)>>
      [] OTHER -> <<>>

Comparand(text) == IF IsBracketed(text) THEN <<>> ELSE ParseOperand(text)

-----------------------------------------------------------------------------
\* The order in which the operators are tried.
Symbols == << <<"<", "=">>, <<">", "=">>, <<"=", "=">>, <<"!", "=">>, <<"<">>, <<">">> >>
Compares == << "<=", ">=", "==", "!=", "<", ">" >>

\* Where a symbol occurs in a text (str.find is the least).
Occurrences(symbol, text) ==
    {k \in DOMAIN text : /\ k + Len(symbol) - 1 <= Len(text)
                         /\ \A j \in DOMAIN symbol : text[k + j - 1].is = symbol[j]}

\* The first operator of the list that occurs, wherever it does; 0 for none.
Chosen(text) ==
    LET there == {s \in DOMAIN Symbols : Occurrences(Symbols[s], text) # {}}
    IN  IF there = {} THEN 0 ELSE Places!Min(there)

Quantifier(text) ==
    IF text = <<>> THEN "NONE"
    ELSE CASE text[1].is = "ANY OF" -> "ANY" [] text[1].is = "ALL OF" -> "ALL" [] OTHER -> "NONE"

\* parse_condition: <<condition>> or <<>>.
ParseCondition(text) ==
    IF Chosen(text) = 0 THEN <<>>
    ELSE LET symbol == Symbols[Chosen(text)]
             at     == Places!Min(Occurrences(symbol, text))
             left   == Comparand(SubSeq(text, 1, at - 1))
             after  == SubSeq(text, at + Len(symbol), Len(text))
             quant  == Quantifier(after)
             right  == IF quant = "NONE" THEN Comparand(after)
                       ELSE IF IsBracketed(Tail(after)) THEN ParseOperand(Tail(after)) ELSE <<>>
         IN  IF left = <<>> \/ right = <<>> THEN <<>>
             ELSE <<Cond(left[1], Compares[Chosen(text)], quant, right[1])>>

\* Where " IF " occurs: with a blank on both sides.
Separators(text) ==
    {k \in 2..(Len(text) - 1) : /\ text[k].is = "IF"
                                /\ text[k - 1].is # "["
                                /\ text[k + 1].is \notin {"]", ","}}

\* _parse_conditional_add splits at the last of them.
ParseConditionalAdd(rest) ==
    IF Separators(rest) = {} THEN <<>>
    ELSE LET at      == Places!Max(Separators(rest))
             head    == SubSeq(rest, 1, at - 1)
             targets == IF IsBracketed(head) THEN ParseOperand(head) ELSE <<>>
             cond    == ParseCondition(SubSeq(rest, at + 1, Len(rest)))
         IN  IF targets = <<>> \/ cond = <<>> THEN <<>>
             ELSE <<ConditionalAdd(targets[1].ids, cond[1])>>

\* parse_simple and the table OPCODES: <<instruction>>, or <<>>.
ParseSimple(op, rest) ==
    LET arg  == ParseOperand(rest)
        cond == ParseCondition(rest)
    IN  CASE op = "WAFFLE" -> IF rest = <<>> THEN <<Waffle>> ELSE <<>>
          [] op \in {"LOAD", "ADD", "MULTIPLY", "MODULO"} ->
                IF arg = <<>> THEN <<>> ELSE <<[op |-> op, arg |-> arg[1]]>>
          [] op = "WELLNESS_CHECK" /\ rest = <<>> -> <<Wellness>>
          [] op = "WELLNESS_CHECK" /\ rest # <<>> ->
                IF cond = <<>> THEN <<>> ELSE <<WellnessIf(cond[1])>>
          [] op = "CONDITIONAL_ADD" -> ParseConditionalAdd(rest)
          [] OTHER -> <<>>

-----------------------------------------------------------------------------
\* Every instruction knows its line.
AtLine(instr, no) ==
    [f \in DOMAIN instr \cup {"line"} |-> IF f = "line" THEN no ELSE instr[f]]

Block(no, times) == [out |-> <<>>, line |-> no, times |-> times]

\* strip_line and the enumeration of parse: blank lines go, numbers stay.
Stripped(text) ==
    LET full == {k \in DOMAIN text : text[k].op # ""}
    IN  [n \in 1..Cardinality(full) |->
            LET k == Nth(full, n) IN [no |-> k, op |-> text[k].op, rest |-> text[k].rest]]

ParserIdle == lines = <<>> /\ pos = 1 /\ blocks = <<>> /\ failed = 0

BeginParse(text) ==
    /\ lines' = Stripped(text)
    /\ pos' = 1
    /\ blocks' = <<Block(0, 0)>>
    /\ failed' = 0

Line == lines[pos]
Inner == blocks[Len(blocks)]
Outer == SubSeq(blocks, 1, Len(blocks) - 1)
Reading == failed = 0 /\ pos <= Len(lines)

\* The stack with an instruction added to its last block.
Adding(stack, instr) == [stack EXCEPT ![Len(stack)].out = Append(@, instr)]

\* [mutant] A negative count is let through.
ShiftFitsAny(rest) == Len(rest) = 2 /\ IsInt(rest[1]) /\ rest[2].is = "TIMES"

ShiftFits(rest) == /\ Len(rest) = 2 /\ IsInt(rest[1]) /\ rest[2].is = "TIMES"
                   /\ rest[1].n >= 0

\* What _parse_block asks of a line before it goes on.
Fits(line) ==
    CASE line.op = "END_SHIFT" -> line.rest = <<>> /\ Len(blocks) > 1
      [] line.op = "SHIFT" -> ShiftFits(line.rest)
      [] OTHER -> ParseSimple(line.op, line.rest) # <<>>

RefuseLine ==
    /\ Reading /\ ~Fits(Line)
    /\ failed' = Line.no
    /\ UNCHANGED <<lines, pos, blocks>>

AddInstruction ==
    /\ Reading /\ Fits(Line) /\ Line.op \notin {"SHIFT", "END_SHIFT"}
    /\ blocks' = Adding(blocks, AtLine(ParseSimple(Line.op, Line.rest)[1], Line.no))
    /\ pos' = pos + 1
    /\ UNCHANGED <<lines, failed>>

\* _parse_block calls itself ...
OpenShift ==
    /\ Reading /\ Line.op = "SHIFT" /\ Fits(Line)
    /\ blocks' = Append(blocks, Block(Line.no, Line.rest[1].n))
    /\ pos' = pos + 1
    /\ UNCHANGED <<lines, failed>>

\* [mutant] The body goes where the SHIFT stands, and the SHIFT after it.
SpillShift ==
    /\ Reading /\ Line.op = "END_SHIFT" /\ Fits(Line)
    /\ LET shift == AtLine(Shift(Inner.times, <<>>), Inner.line)
       IN  blocks' = [Outer EXCEPT ![Len(Outer)].out = @ \o <<shift>> \o Inner.out]
    /\ pos' = pos + 1
    /\ UNCHANGED <<lines, failed>>

\* ... and returns to its caller, which appends the SHIFT.
CloseShift ==
    /\ Reading /\ Line.op = "END_SHIFT" /\ Fits(Line)
    /\ blocks' = Adding(Outer, AtLine(Shift(Inner.times, Inner.out), Inner.line))
    /\ pos' = pos + 1
    /\ UNCHANGED <<lines, failed>>

\* The end of the text inside a SHIFT.
RefuseOpen ==
    /\ failed = 0 /\ pos > Len(lines) /\ Len(blocks) > 1
    /\ failed' = Inner.line
    /\ UNCHANGED <<lines, pos, blocks>>

ParseStep == RefuseLine \/ AddInstruction \/ OpenShift \/ CloseShift \/ RefuseOpen

\* parse returns.
Parsed == failed = 0 /\ pos > Len(lines) /\ Len(blocks) = 1
Program == Inner.out
=============================================================================
