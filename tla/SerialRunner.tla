----------------------------- MODULE SerialRunner -----------------------------
(***************************************************************************)
(* The serial oracle on real programs: LazyEvaluator with the resolver of  *)
(* src/lumon/resolvers/serial.py and the interpreter of Interp.tla, which  *)
(* decide what is asked for next and what is published.  Every step is a   *)
(* step of LazyEvaluator with its open arguments filled in, or leaves its  *)
(* variables alone, so whatever holds of LazyEvaluator holds here.         *)
(*                                                                         *)
(* For each Innie on the stack `frames` has the interpreter stopped at a   *)
(* question, and how far the resolver has got with it:                     *)
(*   at      the next of the ids (values), or of the branches (first pass  *)
(*           of _quantified), or of the deferred ones (second pass)        *)
(*   second  _quantified is in its second pass                             *)
(*   later   the positions of the branches it deferred                     *)
(*   faults  the positions of the branches that faulted                    *)
(***************************************************************************)
EXTENDS LazyEvaluator, Interp

Sets == INSTANCE FiniteSetsExt

CONSTANTS
    Schedules,     \* work schedules: functions from Innies to programs
    Orders         \* the orders in which a schedule may list its Innies

ASSUME SerialAssumption ==
    /\ \A s \in Schedules : DOMAIN s = Innies
    /\ \A o \in Orders : o \in Seq(Innies) /\ {o[k] : k \in DOMAIN o} = Innies

VARIABLES
    schedule, order,
    frames     \* the evaluation of each Innie of onStack

serialVars == <<evalVars, schedule, order, frames>>

Frame(d) == [day |-> d, at |-> 1, second |-> FALSE, later |-> <<>>, faults |-> {}]

NewFrame(i) == Frame(RunToAsk(Begin(schedule[i])))

Top == frames[Depth]
Question == NextAsk(Top.day)

WithTop(frame) == [frames EXCEPT ![Depth] = frame]
Raised(frame, fault) == Frame(Raise(frame.day, fault))

\* The branches of the pass _quantified is in, or all the ids of values; and
\* which of them it has got to.
Asked(frame) ==
    LET ids == NextAsk(frame.day).ids
    IN  IF frame.second THEN [k \in DOMAIN frame.later |-> ids[frame.later[k]]] ELSE ids

Asking(frame) == Asked(frame)[frame.at]

\* Where an Innie is in the list its reader gave.
PositionAsked == IF Top.second THEN Top.later[Top.at] ELSE Top.at

\* The first pass over the branches of a fold asks inside probe.
Probing == Question.for = "fold" /\ ~Top.second

-----------------------------------------------------------------------------
SerialInit ==
    /\ EvalInit
    /\ schedule \in Schedules
    /\ order \in Orders
    /\ frames = <<>>

\* run: the next Innie of the list that has no result yet.
Start ==
    /\ \E i \in Innies : ~Settled(i)
    /\ LET next == order[Sets!Min({k \in DOMAIN order : ~Settled(order[k])})]
       IN  Enter(next) /\ frames' = <<NewFrame(next)>>
    /\ UNCHANGED <<schedule, order>>

AtWork == onStack # <<>> /\ ~Ended(Top.day)

\* The question is not answered yet and its next Innie is id.
Needs(id) ==
    /\ AtWork
    /\ Top.at <= Len(Asked(Top))
    /\ id = Asking(Top)

\* All that was asked for has come.
HasAll == AtWork /\ Top.at > Len(Asked(Top))

\* result_for of an Innie that has to be executed.
Descend(id) ==
    /\ Needs(id)
    /\ Push(id, Probing)
    /\ frames' = Append(frames, NewFrame(id))
    /\ UNCHANGED <<schedule, order>>

\* [mutant] A fold raises a branch's fault where it finds it.
TakeAndRaise(id) ==
    /\ Needs(id)
    /\ Settled(id)
    /\ LET next == [Top EXCEPT !.at = @ + 1]
       IN  frames' = WithTop(
             IF Question.for = "all" THEN next
             ELSE IF Absorbs(Question, cell[id])
             THEN Frame(AnswerFold(Top.day, Question.cond.quant = "ANY"))
             ELSE IF cell[id].kind = "value" THEN next
             ELSE Raised(Top, FaultOf(id, cell[id])))
    /\ UNCHANGED <<evalVars, schedule, order>>

\* result_for of an Innie that has a result, memoized or just computed.
Take(id) ==
    /\ Needs(id)
    /\ Settled(id)
    /\ LET next == [Top EXCEPT !.at = @ + 1]
       IN  frames' = WithTop(
             IF Question.for = "all" THEN next
             ELSE IF Absorbs(Question, cell[id])
             THEN Frame(AnswerFold(Top.day, Question.cond.quant = "ANY"))
             ELSE IF cell[id].kind = "value" THEN next
             ELSE [next EXCEPT !.faults = @ \cup {PositionAsked}])
    /\ UNCHANGED <<evalVars, schedule, order>>

\* The frames when the fold that made the innermost probe goes on from f.
Unwound(f) == Append(SubSeq(frames, 1, Innermost(Probing) - 1), f)

\* [mutant] The probe that was unwound to tries the same branch again.
DeferForever(id) ==
    /\ Needs(id)
    /\ Reenter(id, Probing)
    /\ frames' = Unwound(frames[Innermost(Probing)])
    /\ UNCHANGED <<schedule, order>>

\* probe returns None: the fold defers the branch.
Defer(id) ==
    /\ Needs(id)
    /\ Reenter(id, Probing)
    /\ frames' = Unwound([frames[Innermost(Probing)] EXCEPT !.later = Append(@, frames[Innermost(Probing)].at),
                                                          !.at = @ + 1])
    /\ UNCHANGED <<schedule, order>>

\* The loop is settled; the top goes on with the -1 of id.
Deadlock(id) ==
    /\ Needs(id)
    /\ SettleCycle(id, Probing)
    /\ UNCHANGED <<schedule, order, frames>>

\* values has every result: it unwraps them in order and goes on.
Unwrap ==
    /\ HasAll
    /\ Question.for = "all"
    /\ frames' = WithTop(Frame(AnswerAll(Top.day, Question.ids, cell)))
    /\ UNCHANGED <<evalVars, schedule, order>>

\* _quantified went through its first pass: on to what it deferred.
SecondPass ==
    /\ HasAll
    /\ Question.for = "fold" /\ ~Top.second
    /\ frames' = WithTop([Top EXCEPT !.second = TRUE, !.at = 1])
    /\ UNCHANGED <<evalVars, schedule, order>>

\* Nothing absorbed: the earliest fault is raised, or the fold has its other
\* answer.
FoldOver ==
    /\ HasAll
    /\ Question.for = "fold" /\ Top.second
    /\ LET blamed == Question.ids[Sets!Min(Top.faults)]
       IN  frames' = WithTop(
             IF Top.faults = {} THEN Frame(AnswerFold(Top.day, Question.cond.quant # "ANY"))
             ELSE Raised(Top, FaultOf(blamed, cell[blamed])))
    /\ UNCHANGED <<evalVars, schedule, order>>

\* [mutant] result_for without the second look at the Cell: the commit for a
\* program that ended raises DoubleSettle, outside the `try`, and the reader
\* catches it as its own.  (A program that raised is published inside it.)
PublishTwice ==
    /\ onStack # <<>> /\ Ended(Top.day)
    /\ Outcome(Top.day) \in Results
    /\ Return(Outcome(Top.day))
    /\ frames' = IF Depth > 1 /\ Settled(LastOf(onStack)) /\ Top.day.raised = <<>>
                 THEN [FrontOf(frames) EXCEPT ![Depth - 1] = Raised(@, Fault("DoubleSettle", 0))]
                 ELSE FrontOf(frames)
    /\ UNCHANGED <<schedule, order>>

\* The program ended or raised.
Publish ==
    /\ onStack # <<>> /\ Ended(Top.day)
    /\ Outcome(Top.day) \in Results
    /\ Return(Outcome(Top.day))
    /\ frames' = FrontOf(frames)
    /\ UNCHANGED <<schedule, order>>

-----------------------------------------------------------------------------
RanOut(frame) == Raised(frame, Fault("RecursionError", 0))

\* RecursionError in the program or the resolver of the top, before its next
\* answer or after the last one: like any exception.  (A workday that has ended
\* here still may: it was run on to its end in the step before.)
Overflow ==
    /\ onStack # <<>> /\ Depth >= Room
    /\ frames' = WithTop(RanOut(Top))
    /\ UNCHANGED <<evalVars, schedule, order>>

\* In _cycle, with only the outermost members of the cycle settled.
OverflowInCycle(id) ==
    /\ Needs(id)
    /\ SettlePart(id, Probing)
    /\ frames' = WithTop(RanOut(Top))
    /\ UNCHANGED <<schedule, order>>

\* In the publishing itself, before or after the result is in the Cell: the
\* reader catches it as its own.
OverflowInReturn ==
    /\ Depth > Room /\ Ended(Top.day)
    /\ Outcome(Top.day) \in Results
    /\ Abandon \/ Return(Outcome(Top.day))
    /\ frames' = [FrontOf(frames) EXCEPT ![Depth - 1] = RanOut(@)]
    /\ UNCHANGED <<schedule, order>>

AllSettled == onStack = <<>> /\ \A i \in Innies : Settled(i)

Done == AllSettled /\ UNCHANGED serialVars

\* The walk as it goes while it comes upon no loop that it has to settle ...
Walk ==
    \/ Start
    \/ \E id \in Innies : Descend(id) \/ Take(id) \/ Defer(id)
    \/ Unwrap \/ SecondPass \/ FoldOver
    \/ Publish
    \/ Done

\* ... and what gives an Innie a result that its program does not have.
Stray ==
    \/ \E id \in Innies : Deadlock(id) \/ OverflowInCycle(id)
    \/ Overflow \/ OverflowInReturn

SerialNext == Walk \/ Stray

SerialSpec == SerialInit /\ [][SerialNext]_serialVars

-----------------------------------------------------------------------------
\* "only cycle members publish -1" (serial.py:156): an Innie whose Cell is
\* settled while it is still under evaluation is on a loop of questions.  From
\* it up to the top of the stack each frame is asking for the next one, also
\* after branches were deferred and frames unwound, and the top is asking for
\* somebody at or below it.
OnlyLoopsSettle ==
    [][\A h \in 1..Depth :
         ~Settled(onStack[h]) /\ cell'[onStack[h]] # Pending /\ Depth <= Len(onStack') =>
            /\ \A g \in h..(Depth - 1) : Asking(frames[g]) = onStack[g + 1]
            /\ \E g \in 1..h : Asking(Top) = onStack[g]]_serialVars

\* The evaluation ends, with every Cell settled.
SerialCompletes == <>AllSettled
=============================================================================
