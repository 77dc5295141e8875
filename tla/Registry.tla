------------------------------- MODULE Registry -------------------------------
(***************************************************************************)
(* The Registry of src/lumon/cell.py with the threads that block in it:    *)
(* one Cell per Innie, one Condition shared by all of them, the wait-for   *)
(* graph, and one Outie (thread) per Innie running run_innie of            *)
(* src/lumon/runners/concurrent.py.                                        *)
(*                                                                         *)
(* The Condition is modelled as CPython implements it: a lock (`lock`) and *)
(* a set of waiters (the Innies whose pc is "asleep").  wait() releases    *)
(* the lock and falls asleep in one step; notify_all() moves every sleeper *)
(* to "notified", where it competes for the lock again; nothing else wakes *)
(* a sleeper.  A block under `with self.cond` that cannot wait is one      *)
(* step, taken while the lock is free.  The two blocking calls are split   *)
(* at the points where the code branches, with the lock held throughout.   *)
(*                                                                         *)
(* What a program asks for is left open: an Outie makes at most MaxCalls   *)
(* blocking calls, each with any arguments of AndCalls or OrCalls, and     *)
(* publishes any result.  ConcurrentRunner.tla fills in real programs.     *)
(*                                                                         *)
(*   pc          where the Outie is                                        *)
(*   "run"       computing, outside every call                             *)
(*   "scan"      await_any, at the top of its loop               (lock)    *)
(*   "detect"    about to call _detect_if_quiescent_locked       (lock)    *)
(*   "resolve"   in its loop: quiescent, looking for a cycle     (lock)    *)
(*   "recheck"   it returned: leave the call, go round, or wait  (lock)    *)
(*   "asleep"    in the waiter set of the Condition                        *)
(*   "notified"  out of the waiter set, not yet holding the lock           *)
(*   "returned"  the call returned, is_cancelled not asked yet             *)
(*   "read"      not cancelled, results not read yet                       *)
(*   "settle"    run_innie is about to commit, commit_void or fault        *)
(*   "exited"    the thread is over                                        *)
(***************************************************************************)
EXTENDS Detector, Cells

CONSTANTS
    NoOne,     \* the lock is free
    AndCalls,  \* the target sets await_innies may be called with
    OrCalls,   \* the target lists await_any may be called with
    MaxCalls   \* a program is finite: how many blocking calls it makes

ASSUME RegistryAssumption ==
    /\ NoOne \notin Innies
    /\ AndCalls \subseteq SUBSET Innies
    /\ OrCalls \subseteq Seq(Innies) \ {<<>>}
    /\ MaxCalls \in Nat

VARIABLES
    cell,       \* Cell._result of every Innie
    graph,      \* Registry._graph
    cancelled,  \* Registry._cancelled
    lock,       \* who is inside `with self.cond` across steps
    pc,
    need,       \* await_innies: its targets; once a call returned: what it promises
    want,       \* await_any: its targets, in the caller's order
    resolved,   \* the local of _detect_if_quiescent_locked
    calls       \* blocking calls made so far

vars == <<cell, graph, cancelled, lock, pc, need, want, resolved, calls>>

InSection == {"scan", "detect", "resolve", "recheck"}
Locations == InSection \cup
    {"run", "asleep", "notified", "returned", "read", "settle", "exited"}

TypeOK ==
    /\ cell \in [Innies -> Results \cup {Pending}]
    /\ graph \in Graphs
    /\ cancelled \in SUBSET Innies
    /\ lock \in Innies \cup {NoOne}
    /\ pc \in [Innies -> Locations]
    /\ need \in [Innies -> SUBSET Innies]
    /\ want \in [Innies -> Seq(Innies)]
    /\ resolved \in [Innies -> BOOLEAN]
    /\ calls \in [Innies -> Nat]

-----------------------------------------------------------------------------
\* Cells.

Settled(i) == cell[i] # Pending

AllSettled(T) == \A i \in T : Settled(i)

PendingOf(T) == {i \in T : ~Settled(i)}

Members(seq) == {seq[k] : k \in DOMAIN seq}

\* [mutant] notify(1): one sleeper wakes.
NotifyOne(p) ==
    LET sleepers == {i \in Innies : p[i] = "asleep"}
    IN  IF sleepers = {} THEN p
        ELSE [p EXCEPT ![CHOOSE i \in sleepers : \A j \in sleepers : i <= j] = "notified"]

\* notify_all: the waiter set empties.
Notify(p) == [i \in Innies |-> IF p[i] = "asleep" THEN "notified" ELSE p[i]]

\* Only await_any has a list of targets.
InAwaitAny(i) == want[i] # <<>>

-----------------------------------------------------------------------------
\* The quiescence gate.

WaitSatisfied(i) ==
    \/ AndEdges(graph, i) # {} /\ AllSettled(AndEdges(graph, i))
    \/ \E group \in OrGroups(graph, i) : \E t \in group : Settled(t)

\* [mutant] Everybody is in the graph, woken or not.
QuiescentUnlessComputing ==
    /\ Blocked(graph) # {}
    /\ \A i \in Innies : Settled(i) \/ i \in Blocked(graph)

\* [mutant] Who is not in the graph is taken for finished.
QuiescentAmongBlocked ==
    /\ Blocked(graph) # {}
    /\ \A i \in Blocked(graph) : ~WaitSatisfied(i)

Quiescent ==
    /\ Blocked(graph) # {}
    /\ \A i \in Innies : Settled(i) \/ (i \in Blocked(graph) /\ ~WaitSatisfied(i))

-----------------------------------------------------------------------------
Init ==
    /\ cell = [i \in Innies |-> Pending]
    /\ graph = EmptyGraph
    /\ cancelled = {}
    /\ lock = NoOne
    /\ pc = [i \in Innies |-> "run"]
    /\ need = [i \in Innies |-> {}]
    /\ want = [i \in Innies |-> <<>>]
    /\ resolved = [i \in Innies |-> FALSE]
    /\ calls = [i \in Innies |-> 0]

\* await_innies, up to the first call of _detect_if_quiescent_locked.  The
\* edges are registered in the critical section that goes on to detection.
AwaitInnies(i, T) ==
    /\ pc[i] = "run"
    /\ lock = NoOne
    /\ calls[i] < MaxCalls
    /\ calls' = [calls EXCEPT ![i] = @ + 1]
    /\ need' = [need EXCEPT ![i] = T]
    /\ IF PendingOf(T) = {}
       THEN /\ pc' = [pc EXCEPT ![i] = "returned"]
            /\ UNCHANGED <<graph, lock>>
       ELSE /\ graph' = WaitOn(graph, i, PendingOf(T))
            /\ pc' = [pc EXCEPT ![i] = "detect"]
            /\ lock' = i
    /\ UNCHANGED <<cell, cancelled, want, resolved>>

\* await_any takes the lock and enters its loop.
AwaitAny(i, S) ==
    /\ pc[i] = "run"
    /\ lock = NoOne
    /\ calls[i] < MaxCalls
    /\ calls' = [calls EXCEPT ![i] = @ + 1]
    /\ want' = [want EXCEPT ![i] = S]
    /\ pc' = [pc EXCEPT ![i] = "scan"]
    /\ lock' = i
    /\ UNCHANGED <<cell, graph, cancelled, need, resolved>>

\* [mutant] The (zero-based) index of the target in place of the target.
IndexOfSettled(i) ==
    LET hits == {k \in DOMAIN want[i] : Settled(want[i][k])}
    IN  (CHOOSE k \in hits : \A m \in hits : k <= m) - 1

\* The first settled target in the caller's order.
FirstSettled(i) ==
    LET hits == {k \in DOMAIN want[i] : Settled(want[i][k])}
    IN  want[i][CHOOSE k \in hits : \A m \in hits : k <= m]

\* await_any finds a settled target and returns it ...
ScanHit(i) ==
    /\ pc[i] = "scan"
    /\ \E t \in Members(want[i]) : Settled(t)
    /\ need' = [need EXCEPT ![i] = {FirstSettled(i)}]
    /\ want' = [want EXCEPT ![i] = <<>>]
    /\ pc' = [pc EXCEPT ![i] = "returned"]
    /\ lock' = NoOne
    /\ UNCHANGED <<cell, graph, cancelled, resolved, calls>>

\* ... or finds none: it raises Cancelled, which ends the thread, or registers
\* the whole list as one OR-group and goes on to detection.
ScanMiss(i) ==
    /\ pc[i] = "scan"
    /\ \A t \in Members(want[i]) : ~Settled(t)
    /\ IF i \in cancelled
       THEN /\ pc' = [pc EXCEPT ![i] = "exited"]
            /\ want' = [want EXCEPT ![i] = <<>>]
            /\ lock' = NoOne
            /\ UNCHANGED graph
       ELSE /\ graph' = PushOrGroup(graph, i, Members(want[i]))
            /\ pc' = [pc EXCEPT ![i] = "detect"]
            /\ UNCHANGED <<want, lock>>
    /\ UNCHANGED <<cell, cancelled, need, resolved, calls>>

\* _detect_if_quiescent_locked: the gate.
Detect(i) ==
    /\ pc[i] = "detect"
    /\ resolved' = [resolved EXCEPT ![i] = FALSE]
    /\ pc' = [pc EXCEPT ![i] = IF Quiescent THEN "resolve" ELSE "recheck"]
    /\ UNCHANGED <<cell, graph, cancelled, lock, need, want, calls>>

\* [mutant] The members are cancelled, and only the detecting one published.
ResolveOneself(i) ==
    /\ pc[i] = "resolve"
    /\ \E members \in {FindCycle(graph)} :
         /\ members # {}
         /\ cancelled' = cancelled \cup members
         /\ graph' = Clear(graph, members)
         /\ cell' = [j \in Innies |-> IF j = i /\ j \in members THEN DeadlockResult
                                      ELSE cell[j]]
    /\ pc' = Notify(pc)
    /\ resolved' = [resolved EXCEPT ![i] = TRUE]
    /\ UNCHANGED <<lock, need, want, calls>>

\* One turn of its loop: find_cycle reports a cycle and _resolve_cycle settles
\* every member to -1, takes it out of the graph and wakes everybody.
ResolveCycle(i) ==
    /\ pc[i] = "resolve"
    /\ \E members \in {FindCycle(graph)} :
         /\ members # {}
         /\ cancelled' = cancelled \cup members
         /\ graph' = Clear(graph, members)
         /\ cell' = [j \in Innies |-> IF j \in members /\ ~Settled(j)
                                      THEN DeadlockResult ELSE cell[j]]
    /\ pc' = Notify(pc)
    /\ resolved' = [resolved EXCEPT ![i] = TRUE]
    /\ UNCHANGED <<lock, need, want, calls>>

\* The last turn: no cycle is left.
NoCycleLeft(i) ==
    /\ pc[i] = "resolve"
    /\ FindCycle(graph) = {}
    /\ pc' = [pc EXCEPT ![i] = "recheck"]
    /\ UNCHANGED <<cell, graph, cancelled, lock, need, want, resolved, calls>>

\* [mutant] await_innies without its `finally`: the edges outlive the wait.
RecheckAllUncleared(i) ==
    /\ pc[i] = "recheck"
    /\ ~InAwaitAny(i)
    /\ pc' = [pc EXCEPT ![i] = IF i \in cancelled \/ AllSettled(need[i])
                               THEN "returned" ELSE "asleep"]
    /\ lock' = NoOne
    /\ UNCHANGED <<cell, graph, cancelled, need, want, resolved, calls>>

\* await_innies after detection: return, clearing the edges, or wait().
RecheckAll(i) ==
    /\ pc[i] = "recheck"
    /\ ~InAwaitAny(i)
    /\ IF i \in cancelled \/ AllSettled(need[i])
       THEN /\ graph' = Clear(graph, {i})
            /\ pc' = [pc EXCEPT ![i] = "returned"]
       ELSE /\ pc' = [pc EXCEPT ![i] = "asleep"]
            /\ UNCHANGED graph
    /\ lock' = NoOne
    /\ UNCHANGED <<cell, cancelled, need, want, resolved, calls>>

\* [mutant] await_any waits whatever detection resolved.
RecheckAnyDeaf(i) ==
    /\ pc[i] = "recheck"
    /\ InAwaitAny(i)
    /\ pc' = [pc EXCEPT ![i] = "asleep"]
    /\ lock' = NoOne
    /\ UNCHANGED <<cell, graph, cancelled, need, want, resolved, calls>>

\* await_any after detection: go round if something was resolved, or wait().
RecheckAny(i) ==
    /\ pc[i] = "recheck"
    /\ InAwaitAny(i)
    /\ IF resolved[i]
       THEN /\ graph' = PopOrGroup(graph, i)
            /\ pc' = [pc EXCEPT ![i] = "scan"]
            /\ UNCHANGED lock
       ELSE /\ pc' = [pc EXCEPT ![i] = "asleep"]
            /\ lock' = NoOne
            /\ UNCHANGED graph
    /\ UNCHANGED <<cell, cancelled, need, want, resolved, calls>>

\* [mutant] await_innies takes every wakeup for the end of its wait.
WakeAndReturn(i) ==
    /\ pc[i] = "notified"
    /\ lock = NoOne
    /\ IF InAwaitAny(i)
       THEN /\ graph' = PopOrGroup(graph, i)
            /\ pc' = [pc EXCEPT ![i] = "scan"]
            /\ lock' = i
       ELSE /\ pc' = [pc EXCEPT ![i] = "returned"]
            /\ UNCHANGED <<graph, lock>>
    /\ UNCHANGED <<cell, cancelled, need, want, resolved, calls>>

\* wait() returns with the lock: await_innies detects again, await_any pops
\* its OR-group and goes round.
Wake(i) ==
    /\ pc[i] = "notified"
    /\ lock = NoOne
    /\ lock' = i
    /\ IF InAwaitAny(i)
       THEN /\ graph' = PopOrGroup(graph, i)
            /\ pc' = [pc EXCEPT ![i] = "scan"]
       ELSE /\ pc' = [pc EXCEPT ![i] = "detect"]
            /\ UNCHANGED graph
    /\ UNCHANGED <<cell, cancelled, need, want, resolved, calls>>

\* [mutant] The resolver takes a finished wait for an answered one.
AskNothing(i) ==
    /\ pc[i] = "returned"
    /\ lock = NoOne
    /\ pc' = [pc EXCEPT ![i] = "read"]
    /\ UNCHANGED <<cell, graph, cancelled, lock, need, want, resolved, calls>>

\* The resolver asks is_cancelled; Cancelled ends the thread without a settle.
AskCancelled(i) ==
    /\ pc[i] = "returned"
    /\ lock = NoOne
    /\ IF i \in cancelled
       THEN /\ pc' = [pc EXCEPT ![i] = "exited"]
            /\ need' = [need EXCEPT ![i] = {}]
       ELSE /\ pc' = [pc EXCEPT ![i] = "read"]
            /\ UNCHANGED need
    /\ UNCHANGED <<cell, graph, cancelled, lock, want, resolved, calls>>

\* The resolver reads the results it waited for and the program goes on.
Read(i) ==
    /\ pc[i] = "read"
    /\ lock = NoOne
    /\ need' = [need EXCEPT ![i] = {}]
    /\ pc' = [pc EXCEPT ![i] = "run"]
    /\ UNCHANGED <<cell, graph, cancelled, lock, want, resolved, calls>>

\* run_innie: the program is over, or raised; is_cancelled is asked first.
Finish(i) ==
    /\ pc[i] = "run"
    /\ lock = NoOne
    /\ pc' = [pc EXCEPT ![i] = IF i \in cancelled THEN "exited" ELSE "settle"]
    /\ UNCHANGED <<cell, graph, cancelled, lock, need, want, resolved, calls>>

\* commit, commit_void or fault: DoubleSettle if the Cell holds a result.
Settle(i, r) ==
    /\ pc[i] = "settle"
    /\ lock = NoOne
    /\ IF Settled(i)
       THEN /\ pc' = [pc EXCEPT ![i] = "exited"]
            /\ UNCHANGED cell
       ELSE /\ cell' = [cell EXCEPT ![i] = r]
            /\ pc' = [Notify(pc) EXCEPT ![i] = "exited"]
    /\ UNCHANGED <<graph, cancelled, lock, need, want, resolved, calls>>

\* Every thread is over.
Over == (\A i \in Innies : pc[i] = "exited") /\ UNCHANGED vars

\* What the Registry and the thread's wrapper do, whatever the program is.
Protocol(i) ==
    \/ ScanHit(i) \/ ScanMiss(i)
    \/ Detect(i) \/ ResolveCycle(i) \/ NoCycleLeft(i)
    \/ RecheckAll(i) \/ RecheckAny(i)
    \/ Wake(i) \/ AskCancelled(i)

Step(i) ==
    \/ \E T \in AndCalls : AwaitInnies(i, T)
    \/ \E S \in OrCalls : AwaitAny(i, S)
    \/ Protocol(i)
    \/ Read(i)
    \/ Finish(i)
    \/ \E r \in Results : Settle(i, r)

Next == (\E i \in Innies : Step(i)) \/ Over

Spec == Init /\ [][Next]_vars

\* The weakest fairness there is: while some thread can take a step, one does.
\* The lock need not be fair, nor the scheduler: see EverythingSettles.
FairSpec == Spec /\ WF_vars(Next)
-----------------------------------------------------------------------------
(***************************************************************************)
(* Safety.                                                                 *)
(***************************************************************************)

\* A resolver that found itself not cancelled reads settled Cells only: the
\* AssertionError of result_locked ("unsettled after a completed wait") is
\* unreachable, although the answer of is_cancelled is used two critical
\* sections after await_innies looked at the Cells.
ReadsAreSettled == \A i \in Innies : pc[i] = "read" => AllSettled(need[i])

\* No Cell is settled twice: when run_innie reaches commit or fault, no other
\* thread has resolved this Innie since it asked is_cancelled.
NoDoubleSettle == \A i \in Innies : pc[i] = "settle" => ~Settled(i)

\* Only a blocked Innie is cancelled.  One that computes, reads or is about to
\* publish never is, so the belt-and-braces check of run_innie does not fire.
CancelledNeverComputes ==
    \A i \in cancelled : pc[i] \notin {"run", "read", "settle"}

\* A cancelled await_any finds a settled target, its own cycle having been
\* settled with it: it returns, and never raises Cancelled itself.
CancelledFindsTarget ==
    \A i \in cancelled :
        pc[i] = "scan" => \E t \in Members(want[i]) : Settled(t)

\* The graph says exactly who waits: an Innie is in it while it is inside a
\* blocking call and not resolved, with one kind of wait at a time, and its
\* Cell is pending.  No edge outlives its wait and no sleeper lacks one.
GraphIsWaiters ==
    \A i \in Innies :
        LET waiting == /\ pc[i] \in {"detect", "resolve", "recheck", "asleep", "notified"}
                       /\ i \notin cancelled
        IN  /\ graph.and[i] # {} <=> waiting /\ ~InAwaitAny(i)
            /\ graph.or[i] # <<>> <=> waiting /\ InAwaitAny(i)
            /\ Len(graph.or[i]) <= 1
            /\ i \in Blocked(graph) => ~Settled(i)

\* What i asked for in the call it is in has not arrived.
StillWaits(i) == IF InAwaitAny(i) THEN \A t \in Members(want[i]) : ~Settled(t)
                                  ELSE ~AllSettled(need[i])

\* Nobody sleeps through what it waits for: a sleeper's wait does not hold,
\* and the sleeper is not cancelled.
SleepersMustWait ==
    \A i \in Innies : pc[i] = "asleep" => i \notin cancelled /\ StillWaits(i)

\* No lost wakeup and no undetected deadlock: while a Cell is pending, some
\* thread that has not exited is awake.
SomeoneIsAwake ==
    (\E i \in Innies : ~Settled(i)) =>
        \E i \in Innies : pc[i] \notin {"asleep", "exited"}

\* A thread exits with its Cell settled, by itself or by a resolution.
ExitedHasSettled == \A i \in Innies : pc[i] = "exited" => Settled(i)

(***************************************************************************)
(* What a step may never do.                                               *)
(***************************************************************************)

\* A cycle is resolved only when every unsettled Innie is inside a blocking
\* call and, until this detection itself settled something, in vain: none is
\* still computing, and none has been woken by what it was waiting for.
ResolvedOnlyWhenQuiet ==
    [][cancelled' # cancelled =>
         \A i \in Innies :
            \/ Settled(i)
            \/ /\ pc[i] \in {"resolve", "asleep", "notified"}
               /\ resolved[lock] \/ StillWaits(i)]_vars

(***************************************************************************)
(* Liveness.                                                               *)
(***************************************************************************)

\* Every Innie is settled in the end and every thread ends, whatever the
\* programs wait for: the watchdog has nothing to report.
EverythingSettles == <>(\A i \in Innies : Settled(i) /\ pc[i] = "exited")
-----------------------------------------------------------------------------
(***************************************************************************)
(* The Registry implements Workday.  An Innie waits, in the abstract, from *)
(* the step that enters a call which cannot return at once until the step  *)
(* that returns from it or resolves it; whether its thread sleeps, scans   *)
(* or runs detection meanwhile is nobody's business.                       *)
(***************************************************************************)
abstractWait ==
    [i \in Innies |->
        IF Settled(i) \/ pc[i] \notin InSection \cup {"asleep", "notified"}
        THEN [for |-> "nothing", on |-> {}]
        ELSE IF InAwaitAny(i) THEN [for |-> "any", on |-> Members(want[i])]
                              ELSE [for |-> "all", on |-> need[i]]]

W == INSTANCE Workday WITH wait <- abstractWait

\* An Innie gets past a wait only when the wait holds, and gets -1 from the
\* Registry only as a member of a whole cycle of Innies that could never have
\* moved, all together, when nobody is at work (_detect_if_quiescent_locked).
ImplementsWorkday == W!Spec
=============================================================================
