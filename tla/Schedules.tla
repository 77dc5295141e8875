------------------------------- MODULE Schedules -------------------------------
(***************************************************************************)
(* Work schedules for the models of the two runners.  Innies 1..4 stand    *)
(* for four ids in alphabetical order.                                     *)
(***************************************************************************)
EXTENDS Programs

AddRef(ids) == Add(Refs(ids))
Idle == <<Load(Const(7)), Waffle>>
ModZero == <<Modulo(Const(0)), Waffle>>
AnyOf(left, cmp, ids) == Cond(Const(left), cmp, "ANY", Refs(ids))
AllOf(left, cmp, ids) == Cond(Const(left), cmp, "ALL", Refs(ids))

\* A diamond: no waits but AND-waits, no cycle.
Diamond == <<
    <<Load(Const(2)), Waffle>>,
    <<AddRef(<<1>>), Multiply(Const(3)), Waffle>>,
    <<AddRef(<<1, 2>>), Waffle, Add(Const(1))>>,
    <<Load(Refs(<<3, 2>>)), Modulo(Refs(<<1>>)), Waffle>> >>

\* A cycle of two, an Innie that waits on it and one that does not.
PairAndDependent == <<
    <<AddRef(<<2>>), Waffle>>,
    <<AddRef(<<1, 4>>), Waffle>>,
    <<AddRef(<<1>>), Add(Const(10)), Waffle>>,
    Idle >>

\* Two disjoint cycles, one of them a self-reference, reach quiescence together.
TwoCycles == <<
    <<AddRef(<<1>>), Waffle>>,
    <<AddRef(<<3>>), Waffle>>,
    <<AddRef(<<2>>), Waffle>>,
    <<AddRef(<<1, 2, 3>>), Waffle>> >>

\* The overlapping cycles of runners/serial.py:35-38 (I3, I7, I9 are 1, 2, 3).
Overlapping == <<
    <<AddRef(<<3>>), Waffle>>,
    <<Load(Const(23)), AddRef(<<1>>), Waffle>>,
    <<AddRef(<<1, 2, 4>>), Waffle>>,
    Idle >>

\* ANY OF escapes a cycle through its third branch.
Escape == <<
    <<WellnessIf(AnyOf(5, "<", <<2, 3, 4>>)), Add(Const(1)), Waffle>>,
    <<AddRef(<<1>>), Waffle>>,
    <<AddRef(<<2>>), Waffle>>,
    Idle >>

\* The same with a condition the live branch does not decide: the fold waits on
\* for branches that lead back to it.
NoEscape == <<
    <<WellnessIf(AnyOf(50, "<", <<2, 3, 4>>)), Add(Const(1)), Waffle>>,
    <<AddRef(<<1>>), Waffle>>,
    <<AddRef(<<2>>), Waffle>>,
    Idle >>

\* A cycle read through a fold: 1 waits for any of {2, 3}, 2 for 1, 3 and 4 for
\* each other.  Which cycle is found first decides whether 1 and 2 are members.
FoldOverCycle == <<
    <<WellnessIf(AnyOf(0, ">", <<2, 3>>)), Add(Const(5)), Waffle>>,
    <<AddRef(<<1>>), Waffle>>,
    <<AddRef(<<4>>), Waffle>>,
    <<AddRef(<<3>>), Waffle>> >>

\* The edge that closes the cycle exists only if the condition holds.
Dynamic == <<
    <<ConditionalAdd(<<2>>, Cond(Refs(<<4>>), ">", "NONE", Const(3))), Waffle>>,
    <<ConditionalAdd(<<1>>, Cond(Refs(<<4>>), "<", "NONE", Const(3))), Waffle>>,
    <<ConditionalAdd(<<3>>, Cond(Const(1), "==", "NONE", Refs(<<1>>))), Waffle>>,
    Idle >>

\* An edge that comes late: 2 and 3 wait for each other, and 2 for 1, which joins
\* them once 4 has let it go on.
LateEdge == <<
    <<AddRef(<<4>>), AddRef(<<2>>), Waffle>>,
    <<AddRef(<<1, 3>>), Waffle>>,
    <<AddRef(<<2>>), Waffle>>,
    Idle >>

\* Faults and VOID in a fold: nothing absorbs, the earliest in the list wins.
Faulty == <<
    ModZero,
    <<Load(Const(4))>>,
    <<WellnessIf(AllOf(3, "<", <<4, 2, 1>>)), Waffle>>,
    Idle >>

\* An absorbing branch outranks a fault that settles before it; a list with a
\* fault in it faults its reader, and so does the reader's reader.
Outranked == <<
    ModZero,
    <<AddRef(<<4, 1>>), Waffle>>,
    <<WellnessIf(AnyOf(3, "<", <<1, 4>>)), Add(Const(2)), Waffle>>,
    <<AddRef(<<3>>), Add(Const(5)), Waffle>> >>

\* A cyclic schedule where a fold both defers a fault and leads to a cycle.
FaultAndCycle == <<
    <<AddRef(<<2>>), Waffle>>,
    <<WellnessIf(AllOf(0, ">=", <<3, 1, 4>>)), Add(Const(6)), Waffle>>,
    ModZero,
    <<AddRef(<<2, 3>>), Waffle>> >>

\* The same Innie asked again on every turn of a loop.
Shifted == <<
    <<Load(Const(1)), Shift(2, <<AddRef(<<2>>), Shift(1, <<AddRef(<<4>>)>>)>>), Waffle>>,
    Idle,
    <<Shift(0, <<AddRef(<<3>>)>>), AddRef(<<1>>), Waffle>>,
    <<Shift(2, <<Add(Const(2)), Waffle>>)>> >>

FourInnies == {Diamond, PairAndDependent, TwoCycles, Overlapping, Escape, NoEscape,
                 FoldOverCycle, Dynamic, LateEdge, Faulty, Outranked, FaultAndCycle, Shifted}

\* Every schedule of three Innies with programs from this list: a value, VOID, a
\* fault, waits for one and for two, folds that 0, -1 or nothing absorbs, and a
\* condition that reads before it decides whether to wait.
Menu == {
    <<Load(Const(1)), Waffle>>,
    <<Add(Const(1))>>,
    ModZero,
    <<AddRef(<<1>>), Waffle>>,
    <<AddRef(<<2>>), Add(Const(1)), Waffle>>,
    <<Waffle, AddRef(<<1, 3>>), Waffle>>,
    <<AddRef(<<3, 2>>), AddRef(<<1>>), Waffle>>,
    <<WellnessIf(AnyOf(0, ">", <<3, 2>>)), Add(Const(2)), Waffle>>,
    <<Add(Const(2)), WellnessIf(AllOf(0, ">", <<1, 3>>)), Waffle>>,
    <<Add(Const(3)), WellnessIf(AnyOf(1, "==", <<1, 2, 3>>)), Waffle>>,
    <<ConditionalAdd(<<2>>, Cond(Refs(<<3>>), "<", "NONE", Refs(<<1>>))), Waffle>> }

\* With the order of names as it is, a program of the menu at each place.
ThreeInnies == {<<p, q, r>> : p \in Menu, q \in Menu, r \in Menu}

\* Every schedule of four Innies in which each refers only to lower numbers,
\* with programs from these lists: all kinds of results and of waits, lists
\* and folds in several orders, one of them with a repetition.
DagPrograms == <<
    {Idle, <<Add(Const(1))>>, ModZero},
    {<<AddRef(<<1>>), Waffle>>,
     <<Load(Const(3)), Waffle, WellnessIf(AllOf(5, ">", <<1>>)), Waffle>>,
     <<Load(Const(2))>>},
    {<<Load(Refs(<<2, 1>>)), Waffle>>,
     <<Load(Const(4)), WellnessIf(AnyOf(5, "<", <<2, 1>>)), Waffle>>,
     <<ConditionalAdd(<<2>>, Cond(Refs(<<1>>), "!=", "NONE", Const(0))), Waffle>>},
    {<<AddRef(<<3, 1, 2>>), Waffle>>,
     <<Load(Const(9)), WellnessIf(AllOf(4, "<=", <<3, 2, 1>>)), Waffle>>,
     <<Load(Const(8)), WellnessIf(AnyOf(4, ">=", <<1, 2, 3>>)), Waffle>>,
     <<Load(Const(1)), Shift(2, <<AddRef(<<3>>), Waffle>>), Modulo(Refs(<<2, 1>>)), Waffle>>,
     <<ConditionalAdd(<<2>>, Cond(Refs(<<1>>), "<", "ANY", Refs(<<3, 2>>))), Waffle>>} >>

Dags == {<<p, q, r, s>> : p \in DagPrograms[1], q \in DagPrograms[2],
                          r \in DagPrograms[3], s \in DagPrograms[4]}

DagsAndFour == Dags \cup FourInnies

\* A fold that lists one Innie twice, around another one; both fault.
Repeated == {<<ModZero,
               <<Add(Const(1))>>,
               <<WellnessIf(AnyOf(3, "<", <<1, 2, 1>>)), Waffle>>>>}

\* 1 waits for itself and for 3, either of which may end its fold; 3 waits for
\* any of all three and is ended by 2.
Deferred == {<<<<Add(Const(2)), WellnessIf(AllOf(0, ">", <<1, 3>>)), Waffle>>,
               <<Load(Const(1)), Waffle>>,
               <<Add(Const(3)), WellnessIf(AnyOf(1, "==", <<1, 2, 3>>)), Waffle>>>>}

-----------------------------------------------------------------------------
\* All that the execution of a program may come to.
RECURSIVE Closure(_)
Closure(code) ==
    UNION {{code[k]} \cup
             (IF code[k].op # "SHIFT" THEN {}
              ELSE {Shift(n, code[k].body) : n \in 0..code[k].times} \cup Closure(code[k].body))
           : k \in DOMAIN code}

InstructionsOf(schedules) == UNION {UNION {Closure(s[i]) : i \in DOMAIN s} : s \in schedules}

Suits(schedules, K) ==
    LET I == InstructionsOf(schedules)
    IN  /\ Closed(I) /\ RefersTo(I, K)
        /\ \A s \in schedules : s \in [K -> Seq(I)]

\* What the theorems about programs suppose of the schedules is so of these; and
\* that no fold lists an Innie twice is so of all but Repeated.
ASSUME SchedulesSuit ==
    /\ Suits(DagsAndFour, 1..4)
    /\ \A S \in {ThreeInnies, Deferred, Repeated} : Suits(S, 1..3)
    /\ \A S \in {DagsAndFour, ThreeInnies, Deferred} : FoldsOnce(InstructionsOf(S))
    /\ ~FoldsOnce(InstructionsOf(Repeated))
=============================================================================
