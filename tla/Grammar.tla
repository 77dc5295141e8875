-------------------------------- MODULE Grammar --------------------------------
(***************************************************************************)
(* What a schedule's text may say and what it means, without reading it    *)
(* from left to right: a line is well formed if it can be cut into the     *)
(* parts its form names, and a block if every END_SHIFT has its SHIFT.     *)
(* The reference that the reading of Parser.tla is compared with; the      *)
(* forms are those of the docstrings and error messages of parser.py and   *)
(* of the brief.                                                           *)
(***************************************************************************)
EXTENDS Interp
LOCAL INSTANCE FiniteSetsExt
LOCAL INSTANCE SequencesExt

From(text, k) == SubSeq(text, k, Len(text))
UpTo(text, k) == SubSeq(text, 1, k)

IsId(word) == word.is \in {"id", "IF", "TIMES"}
IsAtom(text) == Len(text) = 1 /\ (IsId(text[1]) \/ text[1].is = "int")

\* Names and commas by turns, in brackets.
IsList(text) ==
    /\ Len(text) >= 3 /\ Len(text) % 2 = 1
    /\ text[1].is = "[" /\ text[Len(text)].is = "]"
    /\ \A k \in 2..(Len(text) - 1) : IF k % 2 = 0 THEN IsId(text[k]) ELSE text[k].is = ","

AtomOf(text) == IF text[1].is = "int" THEN Const(text[1].n) ELSE Refs(<<text[1].n>>)
ListOf(text) == Refs([k \in 1..(Len(text) \div 2) |-> text[2 * k].n])
OperandOf(text) == IF IsAtom(text) THEN AtomOf(text) ELSE ListOf(text)

\* The operator of a comparison whose characters are those of text.
Comparisons == {"<=", ">=", "==", "!=", "<", ">"}
Spelled(cmp) ==
    CASE cmp = "<=" -> <<"<", "=">> [] cmp = ">=" -> <<">", "=">> [] cmp = "==" -> <<"=", "=">>
      [] cmp = "!=" -> <<"!", "=">> [] cmp = "<" -> <<"<">> [] cmp = ">" -> <<">">>
Says(text, cmp) == [k \in DOMAIN text |-> text[k].is] = Spelled(cmp)

\* The ways to read text as  atom cmp atom  or  atom cmp ANY|ALL OF list.
Readings(text) ==
    {Cond(AtomOf(UpTo(text, cut[1] - 1)), cut[3],
          IF IsAtom(From(text, cut[2])) THEN "NONE"
          ELSE IF text[cut[2]].is = "ANY OF" THEN "ANY" ELSE "ALL",
          IF IsAtom(From(text, cut[2])) THEN AtomOf(From(text, cut[2]))
          ELSE ListOf(From(text, cut[2] + 1)))
     : cut \in {c \in (1..Len(text)) \X (1..Len(text)) \X Comparisons :
                  /\ c[1] < c[2]
                  /\ IsAtom(UpTo(text, c[1] - 1))
                  /\ Says(SubSeq(text, c[1], c[2] - 1), c[3])
                  /\ \/ IsAtom(From(text, c[2]))
                     \/ /\ text[c[2]].is \in {"ANY OF", "ALL OF"}
                        /\ IsList(From(text, c[2] + 1))}}

\* Where  list IF condition  may be cut.  A condition does not begin with an
\* Innie called IF: its name would be taken for the separator.
IfCuts(text) ==
    {k \in 2..(Len(text) - 1) : /\ text[k].is = "IF" /\ text[k + 1].is # "IF"
                                /\ IsList(UpTo(text, k - 1))
                                /\ Readings(From(text, k + 1)) # {}}

\* All a line that is not SHIFT or END_SHIFT can mean: one instruction or none.
Meanings(op, text) ==
    CASE op = "WAFFLE" /\ text = <<>> -> {Waffle}
      [] op = "WELLNESS_CHECK" /\ text = <<>> -> {Wellness}
      [] op = "WELLNESS_CHECK" /\ text # <<>> -> {WellnessIf(c) : c \in Readings(text)}
      [] op \in {"LOAD", "ADD", "MULTIPLY", "MODULO"} ->
            IF IsAtom(text) \/ IsList(text) THEN {[op |-> op, arg |-> OperandOf(text)]} ELSE {}
      [] op = "CONDITIONAL_ADD" ->
            UNION {{ConditionalAdd(ListOf(UpTo(text, k - 1)).ids, c)
                       : c \in Readings(From(text, k + 1))} : k \in IfCuts(text)}
      [] OTHER -> {}

IsRepeat(text) == Len(text) = 2 /\ text[1].is = "int" /\ text[1].n >= 0 /\ text[2].is = "TIMES"

-----------------------------------------------------------------------------
\* The lines with an opcode, and how deep the text is after one.
Of(text, op) == {k \in DOMAIN text : text[k].op = op}
Depth(text, k) ==
    Cardinality({j \in Of(text, "SHIFT") : j <= k}) - Cardinality({j \in Of(text, "END_SHIFT") : j <= k})

\* What can be said against a line on its own.
IsBad(line) ==
    CASE line.op = "" -> FALSE
      [] line.op = "SHIFT" -> ~IsRepeat(line.rest)
      [] line.op = "END_SHIFT" -> line.rest # <<>>
      [] OTHER -> Meanings(line.op, line.rest) = {}

\* The lines that are wrong as they are read, and the SHIFTs never closed.
Wrong(text) == {k \in DOMAIN text : IsBad(text[k]) \/ Depth(text, k) < 0}
Unclosed(text) ==
    {k \in Of(text, "SHIFT") : \A j \in DOMAIN text : j >= k => Depth(text, j) >= Depth(text, k)}

\* The line a ParseError names, 0 if there is none: the first that is wrong,
\* or else the SHIFT the text ends in.
Defect(text) ==
    IF Wrong(text) # {} THEN Min(Wrong(text))
    ELSE IF Unclosed(text) # {} THEN Max(Unclosed(text)) ELSE 0

\* The END_SHIFT of a SHIFT, in a text without a defect.
Closing(text, k) == Min({j \in DOMAIN text : j > k /\ Depth(text, j) < Depth(text, k)})

\* The lines that are instructions, between two lines.
Instructions(text, first, last) ==
    SetToSortSeq({k \in first..last : text[k].op \notin {"", "END_SHIFT"}}, LAMBDA j, k : j < k)
=============================================================================
