------------------------------- MODULE Watchdog -------------------------------
(***************************************************************************)
(* ConcurrentRunner.run of src/lumon/runners/concurrent.py: the main       *)
(* thread that starts one Outie per Innie, joins them all against a single *)
(* deadline, and returns the Registry or raises WatchdogTimeout.  The      *)
(* Outies are the threads of Registry.tla; each of their steps is a step   *)
(* of Registry, and the main thread only reads what they write.            *)
(*                                                                         *)
(* Time is one bit: the deadline has passed or not.  It may pass at any    *)
(* moment of the join loop, because nothing bounds how long an Outie       *)
(* computes or how long the scheduler leaves it alone.                     *)
(*                                                                         *)
(*   main         the main thread is                                       *)
(*   "start"      starting threads[at]                                     *)
(*   "join"       joining threads[at]                                      *)
(*   "look"       asking threads[at] whether it is alive                   *)
(*   "ask"        about to take the snapshot                               *)
(*   "returned"   out of run with the Registry                             *)
(*   "raised"     out of run with WatchdogTimeout                          *)
(*   "failed"     out of run with the RuntimeError of Thread.start         *)
(***************************************************************************)
EXTENDS Registry

CONSTANT Listed    \* the Innies in the order of the work schedule

ASSUME ListedAssumption ==
    /\ Listed \in Seq(Innies)
    /\ Members(Listed) = Innies
    /\ \A j, k \in DOMAIN Listed : Listed[j] = Listed[k] => j = k

VARIABLES
    main,
    at,          \* the position of its loop over the threads
    late,        \* time.monotonic() has reached the deadline
    alive,       \* is_alive(): started and not over
    stragglers,  \* whose thread was alive when the main thread looked
    pending      \* whose Cell the report calls pending

mainVars == <<main, at, late, alive, stragglers, pending>>
watchVars == <<vars, mainVars>>

Ways == {"returned", "raised", "failed"}

WatchTypeOK ==
    /\ TypeOK
    /\ main \in {"start", "join", "look", "ask"} \cup Ways
    /\ at \in 1..(Len(Listed) + 1)
    /\ late \in BOOLEAN
    /\ alive \in SUBSET Innies
    /\ stragglers \in SUBSET Innies
    /\ pending \in SUBSET Innies

WatchInit ==
    /\ Init
    /\ main = "start" /\ at = 1
    /\ late = FALSE
    /\ alive = {}
    /\ stragglers = {} /\ pending = {}

More == at <= Len(Listed)
This == Listed[at]

-----------------------------------------------------------------------------
\* start() returns once the thread runs.
StartThread ==
    /\ main = "start" /\ More
    /\ alive' = alive \cup {This}
    /\ at' = at + 1
    /\ UNCHANGED <<vars, main, late, stragglers, pending>>

\* The system has no more threads to give: the exception leaves run, and the
\* threads that were started run on.
StartFails ==
    /\ main = "start" /\ More
    /\ main' = "failed"
    /\ UNCHANGED <<vars, at, late, alive, stragglers, pending>>

\* All started: the deadline is set.
SetDeadline ==
    /\ main = "start" /\ ~More
    /\ main' = "join" /\ at' = 1
    /\ UNCHANGED <<vars, late, alive, stragglers, pending>>

DeadlinePasses ==
    /\ main = "join" /\ ~late
    /\ late' = TRUE
    /\ UNCHANGED <<vars, main, at, alive, stragglers, pending>>

\* [mutant] join without a timeout.
JoinForever ==
    /\ main = "join" /\ More
    /\ This \notin alive
    /\ at' = at + 1
    /\ UNCHANGED <<vars, main, late, alive, stragglers, pending>>

\* [mutant] Every join gets a timeout of zero.
JoinWithoutWaiting ==
    /\ main = "join" /\ More
    /\ at' = at + 1
    /\ UNCHANGED <<vars, main, late, alive, stragglers, pending>>

\* join(timeout) returns when the thread is over or no time is left.
Join ==
    /\ main = "join" /\ More
    /\ This \notin alive \/ late
    /\ at' = at + 1
    /\ UNCHANGED <<vars, main, late, alive, stragglers, pending>>

JoinedAll ==
    /\ main = "join" /\ ~More
    /\ main' = "look" /\ at' = 1
    /\ UNCHANGED <<vars, late, alive, stragglers, pending>>

\* [mutant] Only a thread whose Cell is still pending counts.
LookAtCell ==
    /\ main = "look" /\ More
    /\ stragglers' = IF Settled(This) THEN stragglers ELSE stragglers \cup {This}
    /\ at' = at + 1
    /\ UNCHANGED <<vars, main, late, alive, pending>>

\* The list of stragglers is built one is_alive() at a time.
Look ==
    /\ main = "look" /\ More
    /\ stragglers' = IF This \in alive THEN stragglers \cup {This} ELSE stragglers
    /\ at' = at + 1
    /\ UNCHANGED <<vars, main, late, alive, pending>>

\* [mutant] One straggler is enough.
LookedAtSome ==
    /\ main = "look" /\ (~More \/ stragglers # {})
    /\ main' = IF stragglers = {} THEN "returned" ELSE "ask"
    /\ UNCHANGED <<vars, at, late, alive, stragglers, pending>>

LookedAtAll ==
    /\ main = "look" /\ ~More
    /\ main' = IF stragglers = {} THEN "returned" ELSE "ask"
    /\ UNCHANGED <<vars, at, late, alive, stragglers, pending>>

\* snapshot() under the lock, and the raise.
Report ==
    /\ main = "ask"
    /\ lock = NoOne
    /\ pending' = PendingOf(Innies)
    /\ main' = "raised"
    /\ UNCHANGED <<vars, at, late, alive, stragglers>>

MainStep ==
    \/ StartThread \/ StartFails \/ SetDeadline
    \/ Join \/ JoinedAll \/ Look \/ LookedAtAll \/ Report

\* An Outie runs once its thread is started, whatever becomes of run.
OutieStep(i) == i \in alive /\ Step(i) /\ UNCHANGED mainVars

\* run_innie is over; the thread ends some time after it.
ThreadEnds(i) ==
    /\ i \in alive /\ pc[i] = "exited"
    /\ alive' = alive \ {i}
    /\ UNCHANGED <<vars, main, at, late, stragglers, pending>>

\* run is over.  The threads that are left are daemons: they may go on, or end
\* with the process.
OutOfRun == main \in Ways /\ UNCHANGED watchVars

WatchNext ==
    \/ MainStep
    \/ DeadlinePasses
    \/ \E i \in Innies : OutieStep(i) \/ ThreadEnds(i)
    \/ OutOfRun

WatchSpec == WatchInit /\ [][WatchNext]_watchVars

\* Nothing is asked of the Outies but that whoever holds the lock goes on to
\* release it: they may compute for ever.  The main thread is scheduled, and
\* the clock moves.
FairWatchSpec ==
    /\ WatchSpec
    /\ WF_watchVars(MainStep)
    /\ WF_watchVars(DeadlinePasses)
    /\ WF_watchVars(\E i \in Innies : lock = i /\ OutieStep(i))

-----------------------------------------------------------------------------
NotStarted ==
    IF main \in {"start", "failed"} THEN {Listed[k] : k \in at..Len(Listed)} ELSE {}

\* "every Cell is settled on return -- none left pending, whatever happened"
\* (src/lumon/runners/base.py:32), and nobody is left to write one.
ReturnsSettled ==
    main = "returned" => AllSettled(Innies) /\ alive = {}

\* The two halves of the report are read at different times, the Cells after
\* the threads.  Whatever happened in between, each Cell it calls pending has
\* its thread among those it calls running.
PendingHaveThreads == main = "raised" => pending \subseteq stragglers

\* No false alarm: a report means that the deadline passed in the join loop,
\* and that a thread was then still alive.
AlarmIsLate == main \in {"ask", "raised"} => late /\ stragglers # {}

\* WatchdogTimeout: "The run made no progress and cells are still pending"
\* (src/lumon/errors.py:69).
AlarmHasPending == main = "raised" => pending # {}

\* Nobody is resolved as a deadlock member before the last thread is started:
\* the Innies of the first threads may wait for each other in a knot, but until
\* an Innie has run it may still be the one that frees them.  After a start that
\* failed nobody is resolved at all.
NoEarlyResolution == [][cancelled' # cancelled => NotStarted = {}]_watchVars

\* run ends, even when Outies compute for ever or wait for Innies that were
\* never started: "the watchdog turns that into a diagnostic"
\* (src/lumon/runners/concurrent.py:26).
RunEnds == <>(main \in Ways)

\* If the Outies are scheduled as long as one of them can move, then once all
\* are started every Cell is settled and every thread ends, report or not.
OutiesGoOn ==
    WF_watchVars(\E i \in Innies : OutieStep(i) \/ ThreadEnds(i)) =>
        (main = "join" ~> AllSettled(Innies) /\ alive = {})
=============================================================================
