------------------------------- MODULE MCLoader -------------------------------
(* Work schedules for TLC. *)
EXTENDS LoadedWork, LoaderReference, RunBlock

\* Innies 1 and 2 are listed; 7 is the name of one that is not, and 3 is
\* called IF.
A == Word("id", 1)
B == Word("id", 2)
Z == Word("id", 7)
If == Word("IF", 3)
Times == Word("TIMES", 8)
Five == Word("int", 5)
Lb == Sym("[")
Rb == Sym("]")
Comma == Sym(",")
AnyOf == Sym("ANY OF")
AllOf == Sym("ALL OF")

Upto(S, n) == UNION {[1..k -> S] : k \in 0..n}
Line1(op, rest) == [op |-> op, rest |-> rest]
Spec1(id, text) == [id |-> id, text |-> text]

\* One Innie, one line: every short operand ...
Operands == Upto({A, Five, Lb, Rb, Comma}, 4) \cup {<<Lb>> \o x : x \in Upto({B, Five, Rb, Comma}, 4)}

\* ... every short condition, and longer ones with a list ...
Marks == {Sym("<"), Sym(">"), Sym("="), Sym("!")}
Lists == {<<Lb, A, Rb>>, <<Lb, A, Comma, B, Rb>>, <<Lb, A, B, Rb>>, <<Lb, Rb>>, <<Lb, A>>,
          <<A>>, <<Lb, If, Rb>>, <<Lb, A, Comma, If, Comma, B, Rb>>, <<Lb, B, Comma, If, Rb>>}
Conditions ==
    Upto({Sym("<"), Sym("="), Sym("!"), A, Five, Rb}, 4)
    \cup {<<A, mark>> \o x : mark \in Marks, x \in Upto({Sym(">"), Sym("="), Five, Lb, AnyOf}, 2)}
    \cup {left \o op \o <<quant>> \o list : left \in {<<A>>, <<Five>>, <<>>, <<Lb, A, Rb>>},
            op \in {<<Sym(">")>>, <<Sym("<"), Sym("=")>>, <<Sym(">"), Sym("!"), Sym("=")>>},
            quant \in {AnyOf, AllOf}, list \in Lists}

\* ... every short CONDITIONAL_ADD, and longer ones.
Adds ==
    {head \o <<If>> \o cond : head \in Upto({A, If, Lb, Rb}, 3), cond \in {<<A, Sym(">"), Five>>, <<>>}}
    \cup {<<Lb, B, Rb, If>> \o cond : cond \in Upto({A, If, Sym(">"), Five}, 4)}
    \cup {list \o <<If>> \o cond : list \in Lists,
            cond \in {<<A, Sym(">"), AnyOf>> \o tail : tail \in Lists} \cup {<<A, Sym(">"), If>>}}

OneLine ==
    {<<Line1("LOAD", x)>> : x \in Operands}
    \cup {<<Line1("WELLNESS_CHECK", x)>> : x \in Conditions}
    \cup {<<Line1("CONDITIONAL_ADD", x)>> : x \in Adds}
    \cup {<<Line1(op, x)>> : op \in {"WAFFLE", "MODULO", "COFFEE"}, x \in Upto({A, Five}, 2)}
    \cup {<<Line1("SHIFT", x), Line1("WAFFLE", <<>>), Line1("END_SHIFT", <<>>)>> :
            x \in Upto({Five, Word("int", -1), Word("int", 0), Times, A}, 3)}

\* Texts of several lines.
Good == Line1("LOAD", <<A>>)
Open(n) == Line1("SHIFT", <<Word("int", n), Times>>)
Close == Line1("END_SHIFT", <<>>)
Bad == {Line1("SHIFT", <<A>>), Line1("END_SHIFT", <<A>>), Line1("COFFEE", <<>>)}
Blocks ==
    Upto({Good, Line1("", <<>>), Line1("MULTIPLY", <<Z>>), Open(2), Close} \cup Bad, 4)
    \cup Upto({Good, Open(1), Close}, 6)

\* Several Innies.
AddIf(list, left, right) ==
    Line1("CONDITIONAL_ADD", <<Lb, list, Rb, If, left, Sym(">"), right>>)
Several ==
    {<<>>, <<Good>>, <<Line1("LOAD", <<B>>)>>, <<Line1("LOAD", <<Z>>)>>, <<Close>>,
     <<Open(2), Line1("LOAD", <<A>>), AddIf(B, Five, Five), Close>>,
     <<Good, Open(2), AddIf(A, Z, Five), Close>>, <<AddIf(Z, B, Z)>>, <<AddIf(A, B, If)>>,
     <<Line1("WELLNESS_CHECK", <<A, Sym(">"), AnyOf, Lb, A, Comma, Z, Rb>>)>>}
Specs == [id : 0..2, text : Several]

MCWorks ==
    {<<Spec1(1, text)>> : text \in OneLine \cup Blocks}
    \cup {<<Spec1(1, text), Spec1(2, <<>>)>> : text \in OneLine}
    \cup Upto(Specs, 2)
    \cup {<<Spec1(i, <<>>), Spec1(j, <<Good>>), s>> : i \in 1..3, j \in 1..3, s \in Specs}

\* What a workday may read.
MCOutcomes == {Value(-1), Value(3), Void}
=============================================================================
