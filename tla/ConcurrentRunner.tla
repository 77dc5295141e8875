--------------------------- MODULE ConcurrentRunner ---------------------------
(***************************************************************************)
(* The threaded runner on real programs: src/lumon/runners/concurrent.py   *)
(* and src/lumon/resolvers/concurrent.py on top of the Registry, with the  *)
(* interpreter of Interp.tla deciding what each Outie asks for and what it *)
(* publishes.  Every step is a step of Registry with its open arguments    *)
(* filled in, so whatever holds of Registry holds here.                    *)
(***************************************************************************)
EXTENDS Registry, Interp

Seqs == INSTANCE SequencesExt
Sets == INSTANCE FiniteSetsExt

CONSTANT Schedules     \* work schedules: functions from Innies to programs

ASSUME SchedulesAssumption == \A s \in Schedules : DOMAIN s = Innies

VARIABLES
    schedule,  \* which of Schedules this run executes
    day,       \* the interpreter of each Outie, stopped at its next question
    branches   \* _quantified's locals: the list `remaining`, and the positions
               \* in the caller's order of the branches in `deferred`

runVars == <<vars, schedule, day, branches>>

\* The locals of _quantified when a workday has just stopped at a question.
StartFold(d) ==
    [remaining |-> IF NextAsk(d).for = "fold" THEN NextAsk(d).ids ELSE <<>>,
     deferred  |-> {}]

RunInit ==
    /\ Init
    /\ schedule \in Schedules
    /\ day = [i \in Innies |-> RunToAsk(Begin(schedule[i]))]
    /\ branches = [i \in Innies |-> StartFold(day[i])]

\* The workday of i went on to d.
Resume(i, d) ==
    /\ day' = [day EXCEPT ![i] = d]
    /\ branches' = [branches EXCEPT ![i] = StartFold(d)]

\* The dict comprehension of _quantified keeps the last index of an id that is
\* listed twice.
Position(ids, t) == Sets!Max({k \in DOMAIN ids : ids[k] = t})

-----------------------------------------------------------------------------
\* ConcurrentResolver.values waits for all the targets ...
AskValues(i) ==
    /\ NextAsk(day[i]).for = "all"
    /\ Members(NextAsk(day[i]).ids) \in AndCalls
    /\ AwaitInnies(i, Members(NextAsk(day[i]).ids))
    /\ UNCHANGED <<day, branches>>

\* ... reads them under the lock and unwraps them in the caller's order.
ReadValues(i) ==
    /\ NextAsk(day[i]).for = "all"
    /\ Read(i)
    /\ Resume(i, AnswerAll(day[i], NextAsk(day[i]).ids, cell))

\* _quantified waits for any remaining branch ...
AskBranches(i) ==
    /\ NextAsk(day[i]).for = "fold"
    /\ branches[i].remaining \in OrCalls
    /\ AwaitAny(i, branches[i].remaining)
    /\ UNCHANGED <<day, branches>>

\* [mutant] A faulted branch faults its reader the moment it arrives.
ReadBranchEagerly(i) ==
    /\ NextAsk(day[i]).for = "fold"
    /\ Read(i)
    /\ LET ask       == NextAsk(day[i])
           branch    == CHOOSE t \in need[i] : TRUE
           result    == cell[branch]
           remaining == Seqs!RemoveFirst(branches[i].remaining, branch)
       IN  IF Absorbs(ask, result)
           THEN Resume(i, AnswerFold(day[i], ask.cond.quant = "ANY"))
           ELSE IF result.kind # "value"
           THEN Resume(i, Raise(day[i], FaultOf(branch, result)))
           ELSE IF remaining # <<>>
           THEN /\ branches' = [branches EXCEPT ![i].remaining = remaining]
                /\ UNCHANGED day
           ELSE Resume(i, AnswerFold(day[i], ask.cond.quant # "ANY"))

\* ... and takes the one that settled: an absorbing value answers at once, a
\* fault is deferred, and after the last branch the earliest fault is raised or
\* the fold has its other answer.
ReadBranch(i) ==
    /\ NextAsk(day[i]).for = "fold"
    /\ Read(i)
    /\ LET ask       == NextAsk(day[i])
           branch    == CHOOSE t \in need[i] : TRUE
           result    == cell[branch]
           remaining == Seqs!RemoveFirst(branches[i].remaining, branch)
           deferred  == branches[i].deferred \cup
                            (IF result.kind = "value" THEN {} ELSE {Position(ask.ids, branch)})
           blamed    == ask.ids[Sets!Min(deferred)]
       IN  IF Absorbs(ask, result)
           THEN Resume(i, AnswerFold(day[i], ask.cond.quant = "ANY"))
           ELSE IF remaining # <<>>
           THEN /\ branches' = [branches EXCEPT ![i] =
                                    [remaining |-> remaining, deferred |-> deferred]]
                /\ UNCHANGED day
           ELSE IF deferred # {}
           THEN Resume(i, Raise(day[i], FaultOf(blamed, cell[blamed])))
           ELSE Resume(i, AnswerFold(day[i], ask.cond.quant # "ANY"))

\* run_innie: the program ended or raised; publish what it left.
FinishDay(i) == Ended(day[i]) /\ Finish(i) /\ UNCHANGED <<day, branches>>
SettleDay(i) ==
    /\ Outcome(day[i]) \in Results
    /\ Settle(i, Outcome(day[i]))
    /\ UNCHANGED <<day, branches>>

RunStep(i) ==
    /\ \/ AskValues(i) \/ ReadValues(i)
       \/ AskBranches(i) \/ ReadBranch(i)
       \/ Protocol(i) /\ UNCHANGED <<day, branches>>
       \/ FinishDay(i) \/ SettleDay(i)
    /\ UNCHANGED schedule

RunNext ==
    \/ \E i \in Innies : RunStep(i)
    \/ Over /\ UNCHANGED <<schedule, day, branches>>

RunSpec == RunInit /\ [][RunNext]_runVars
=============================================================================
