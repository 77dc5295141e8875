---------------------------- MODULE WatchdogProofs ----------------------------
(***************************************************************************)
(* The main thread of ConcurrentRunner.run, for any finite set of Innies,  *)
(* any programs, any listing and any failure of Thread.start.  Its Outies  *)
(* take steps of Registry only, so IInv of RegistryProofs holds of them;   *)
(* WatchInv says what the main thread knows of them.                       *)
(***************************************************************************)
EXTENDS Watchdog, RegistryProofs

\* A thread that has not been started has not moved.
StartInv ==
    \A k \in DOMAIN Listed :
        main \in {"start", "failed"} /\ k >= at =>
            pc[Listed[k]] = "run" /\ Listed[k] \notin alive

\* Once all are started, a thread that is not alive is over.
AliveInv ==
    \A k \in DOMAIN Listed :
        main \notin {"start", "failed"} \/ k < at =>
            Listed[k] \in alive \/ pc[Listed[k]] = "exited"

\* What the loops have seen: a join that returned in time saw its thread's end,
\* and whoever is alive was alive when it was looked at.
JoinInv ==
    /\ main = "join" => \A k \in DOMAIN Listed : k < at => late \/ Listed[k] \notin alive
    /\ main \in {"look", "ask", "raised"} => late \/ alive = {}

LookInv ==
    /\ main \in {"start", "join", "failed"} => stragglers = {}
    /\ main = "look" =>
        \A k \in DOMAIN Listed : k < at => Listed[k] \notin alive \/ Listed[k] \in stragglers
    /\ stragglers # {} => late
    /\ main \in {"ask", "raised", "returned"} => alive \subseteq stragglers
    /\ main \in {"ask", "raised"} => stragglers # {}
    /\ main = "returned" => stragglers = {}

ReportInv == main = "raised" => pending \subseteq stragglers

WatchInv == WatchTypeOK /\ StartInv /\ AliveInv /\ JoinInv /\ LookInv /\ ReportInv

-----------------------------------------------------------------------------
LEMMA ListedFacts ==
    /\ Len(Listed) \in Nat /\ DOMAIN Listed = 1..Len(Listed)
    /\ \A k \in DOMAIN Listed : Listed[k] \in Innies
    /\ \A i \in Innies : \E k \in DOMAIN Listed : Listed[k] = i
    /\ \A j, k \in DOMAIN Listed : Listed[j] = Listed[k] => j = k
<1>1. Listed \in Seq(Innies) /\ Members(Listed) = Innies
  BY ListedAssumption
<1>2. \A i \in Innies : \E k \in DOMAIN Listed : Listed[k] = i
  BY <1>1 DEF Members
<1> QED
  BY <1>1, <1>2, ListedAssumption

THEOREM InitWatchInv == WatchInit => WatchInv
<1> SUFFICES ASSUME WatchInit PROVE WatchInv
  OBVIOUS
<1>1. TypeOK
  BY InitIInv DEF WatchInit, IInv
<1>a. 1 \in 1..(Len(Listed) + 1)
  <2> Len(Listed) \in Nat
    BY ListedFacts
  <2> QED
    OBVIOUS
<1>2. WatchTypeOK
  BY <1>1, <1>a DEF WatchInit, WatchTypeOK
<1>3. StartInv /\ AliveInv
  BY ListedFacts DEF WatchInit, Init, StartInv, AliveInv
<1> QED
  BY <1>2, <1>3, ListedFacts DEF WatchInit, WatchInv, JoinInv, LookInv, ReportInv

-----------------------------------------------------------------------------
\* An Outie's step moves its own thread, and wakes sleepers: nobody leaves the
\* places "run" and "exited" but by a step of its own, and nobody leaves
\* "exited" at all.
LEMMA OthersStay ==
    ASSUME TypeOK, NEW i \in Innies, Step(i)
    PROVE  /\ pc[i] # "exited"
           /\ \A j \in Innies : j # i /\ pc[j] \in {"run", "exited"} => pc'[j] = pc[j]
<1> USE DEF TypeOK
<1>1. CASE \E T \in AndCalls : AwaitInnies(i, T)
  BY <1>1 DEF AwaitInnies
<1>2. CASE \E S \in OrCalls : AwaitAny(i, S)
  BY <1>2 DEF AwaitAny
<1>3. CASE ScanHit(i) \/ ScanMiss(i)
  BY <1>3 DEF ScanHit, ScanMiss
<1>4. CASE Detect(i) \/ NoCycleLeft(i)
  BY <1>4 DEF Detect, NoCycleLeft
<1>5. CASE ResolveCycle(i)
  BY <1>5 DEF ResolveCycle, Notify
<1>6. CASE RecheckAll(i) \/ RecheckAny(i)
  BY <1>6 DEF RecheckAll, RecheckAny
<1>7. CASE Wake(i)
  BY <1>7 DEF Wake
<1>8. CASE AskCancelled(i) \/ Read(i) \/ Finish(i)
  BY <1>8 DEF AskCancelled, Read, Finish
<1>9. CASE \E r \in Results : Settle(i, r)
  <2> PICK r \in Results : Settle(i, r)
    BY <1>9
  <2> QED
    BY DEF Settle, Notify
<1> QED
  BY <1>1, <1>2, <1>3, <1>4, <1>5, <1>6, <1>7, <1>8, <1>9 DEF Step, Protocol

\* The main thread's steps leave the Registry alone; an Outie's are its own.
LEMMA WatchStepIsStep ==
    ASSUME WatchNext
    PROVE  Next \/ UNCHANGED vars
<1>1. CASE MainStep
  BY <1>1 DEF MainStep, StartThread, StartFails, SetDeadline, Join, JoinedAll, Look,
              LookedAtAll, Report
<1>2. CASE DeadlinePasses
  BY <1>2 DEF DeadlinePasses
<1>3. CASE \E i \in Innies : OutieStep(i)
  BY <1>3 DEF OutieStep, Next
<1>4. CASE \E i \in Innies : ThreadEnds(i)
  BY <1>4 DEF ThreadEnds
<1>5. CASE OutOfRun
  BY <1>5 DEF OutOfRun, watchVars
<1> QED
  BY <1>1, <1>2, <1>3, <1>4, <1>5 DEF WatchNext

\* Whatever becomes of the main thread, its Outies are the Registry's threads:
\* a run with late or missing starts is a behaviour of Registry, and each
\* property of the Registry holds of it.
THEOREM WatchdogImplementsRegistry == WatchSpec => Spec
<1>1. WatchInit => Init
  BY DEF WatchInit
<1>2. [WatchNext]_watchVars => [Next]_vars
  BY WatchStepIsStep DEF watchVars
<1> QED
  BY <1>1, <1>2, PTL DEF WatchSpec, Spec

-----------------------------------------------------------------------------
(***************************************************************************)
(* WatchInv is inductive: one lemma per kind of step.                      *)
(***************************************************************************)
LEMMA StartStep ==
    ASSUME WatchInv, TypeOK', StartThread \/ StartFails \/ SetDeadline
    PROVE  WatchInv'
<1>a. Len(Listed) \in Nat /\ DOMAIN Listed = 1..Len(Listed)
      /\ \A k \in DOMAIN Listed : Listed[k] \in Innies
  BY ListedFacts
<1>b. \A j, k \in DOMAIN Listed : Listed[j] = Listed[k] => j = k
  BY ListedFacts
<1>c. at \in 1..(Len(Listed) + 1) /\ main = "start"
  BY DEF WatchInv, WatchTypeOK, StartThread, StartFails, SetDeadline
<1>1. CASE StartThread
  <2> at \in DOMAIN Listed /\ This \in Innies
    BY <1>1, <1>a, <1>c DEF StartThread, More, This
  <2>1. WatchTypeOK'
    BY <1>1, <1>a DEF StartThread, WatchInv, WatchTypeOK
  <2>2. StartInv' /\ AliveInv'
    BY <1>1, <1>a, <1>b, <1>c DEF StartThread, WatchInv, StartInv, AliveInv, This, vars
  <2> QED
    BY <1>1, <2>1, <2>2 DEF StartThread, WatchInv, JoinInv, LookInv, ReportInv
<1>2. CASE StartFails
  <2>1. WatchTypeOK'
    BY <1>2 DEF StartFails, WatchInv, WatchTypeOK, Ways
  <2>2. StartInv' /\ AliveInv'
    BY <1>2, <1>c DEF StartFails, WatchInv, StartInv, AliveInv, vars
  <2> QED
    BY <1>2, <1>c, <2>1, <2>2 DEF StartFails, WatchInv, JoinInv, LookInv, ReportInv
<1>3. CASE SetDeadline
  <2>1. WatchTypeOK'
    BY <1>3, <1>a DEF SetDeadline, WatchInv, WatchTypeOK
  <2>2. \A k \in DOMAIN Listed : k < at
    BY <1>3, <1>a, <1>c DEF SetDeadline, More
  <2>3. StartInv' /\ AliveInv'
    BY <1>3, <1>c, <2>2 DEF SetDeadline, WatchInv, StartInv, AliveInv, vars
  <2>4. JoinInv'
    BY <1>3, <1>a DEF SetDeadline, JoinInv
  <2> QED
    BY <1>3, <1>c, <2>1, <2>3, <2>4 DEF SetDeadline, WatchInv, LookInv, ReportInv
<1> QED
  BY <1>1, <1>2, <1>3

LEMMA JoinStep ==
    ASSUME WatchInv, TypeOK', DeadlinePasses \/ Join \/ JoinedAll
    PROVE  WatchInv'
<1>a. Len(Listed) \in Nat /\ DOMAIN Listed = 1..Len(Listed)
      /\ \A k \in DOMAIN Listed : Listed[k] \in Innies
  BY ListedFacts
<1>b. \A i \in Innies : \E k \in DOMAIN Listed : Listed[k] = i
  BY ListedFacts
<1>c. at \in 1..(Len(Listed) + 1) /\ main = "join" /\ alive \subseteq Innies
  BY DEF WatchInv, WatchTypeOK, DeadlinePasses, Join, JoinedAll
<1>d. stragglers = {}
  BY <1>c DEF WatchInv, LookInv
<1>1. CASE DeadlinePasses
  <2>1. WatchTypeOK'
    BY <1>1 DEF DeadlinePasses, WatchInv, WatchTypeOK
  <2>2. StartInv' /\ AliveInv'
    BY <1>1, <1>c DEF DeadlinePasses, WatchInv, StartInv, AliveInv, vars
  <2> QED
    BY <1>1, <2>1, <2>2 DEF DeadlinePasses, WatchInv, JoinInv, LookInv, ReportInv
<1>2. CASE Join
  <2>1. WatchTypeOK'
    BY <1>2, <1>a, <1>c DEF Join, More, WatchInv, WatchTypeOK
  <2>2. StartInv' /\ AliveInv'
    BY <1>2, <1>c DEF Join, WatchInv, StartInv, AliveInv, vars
  <2>3. JoinInv'
    BY <1>2, <1>a, <1>c DEF Join, This, WatchInv, JoinInv
  <2> QED
    BY <1>2, <1>c, <2>1, <2>2, <2>3 DEF Join, WatchInv, LookInv, ReportInv
<1>3. CASE JoinedAll
  <2>1. WatchTypeOK'
    BY <1>3, <1>a DEF JoinedAll, WatchInv, WatchTypeOK
  <2>2. StartInv' /\ AliveInv'
    BY <1>3, <1>c DEF JoinedAll, WatchInv, StartInv, AliveInv, vars
  <2>3. \A k \in DOMAIN Listed : k < at
    BY <1>3, <1>a, <1>c DEF JoinedAll, More
  <2>4. late \/ alive = {}
    BY <1>b, <1>c, <2>3 DEF WatchInv, JoinInv
  <2>5. JoinInv'
    BY <1>3, <2>4 DEF JoinedAll, JoinInv
  <2>6. LookInv'
    BY <1>3, <1>a, <1>d DEF JoinedAll, LookInv
  <2> QED
    BY <1>3, <2>1, <2>2, <2>5, <2>6 DEF JoinedAll, WatchInv, ReportInv
<1> QED
  BY <1>1, <1>2, <1>3

LEMMA LookStep ==
    ASSUME WatchInv, TypeOK', Look \/ LookedAtAll
    PROVE  WatchInv'
<1>a. Len(Listed) \in Nat /\ DOMAIN Listed = 1..Len(Listed)
      /\ \A k \in DOMAIN Listed : Listed[k] \in Innies
  BY ListedFacts
<1>b. \A i \in Innies : \E k \in DOMAIN Listed : Listed[k] = i
  BY ListedFacts
<1>c. at \in 1..(Len(Listed) + 1) /\ main = "look" /\ alive \subseteq Innies
  BY DEF WatchInv, WatchTypeOK, Look, LookedAtAll
<1>d. late \/ alive = {}
  BY <1>c DEF WatchInv, JoinInv
<1>1. CASE Look
  <2> at \in DOMAIN Listed /\ This \in Innies
    BY <1>1, <1>a, <1>c DEF Look, More, This
  <2>1. WatchTypeOK'
    BY <1>1, <1>a DEF Look, WatchInv, WatchTypeOK
  <2>2. StartInv' /\ AliveInv'
    BY <1>1, <1>c DEF Look, WatchInv, StartInv, AliveInv, vars
  <2>3. \A k \in DOMAIN Listed :
            k < at + 1 => Listed[k] \notin alive \/ Listed[k] \in stragglers'
    BY <1>1, <1>a, <1>c DEF Look, This, WatchInv, LookInv
  <2>4. stragglers' # {} => late
    BY <1>1, <1>d DEF Look, WatchInv, LookInv
  <2>5. LookInv'
    BY <1>1, <1>c, <2>3, <2>4 DEF Look, LookInv
  <2> QED
    BY <1>1, <1>c, <2>1, <2>2, <2>5 DEF Look, WatchInv, JoinInv, ReportInv
<1>2. CASE LookedAtAll
  <2>1. WatchTypeOK'
    BY <1>2 DEF LookedAtAll, WatchInv, WatchTypeOK, Ways
  <2>2. StartInv' /\ AliveInv'
    BY <1>2, <1>c DEF LookedAtAll, WatchInv, StartInv, AliveInv, vars
  <2>3. \A k \in DOMAIN Listed : k < at
    BY <1>2, <1>a, <1>c DEF LookedAtAll, More
  <2>4. alive \subseteq stragglers
    BY <1>b, <1>c, <2>3 DEF WatchInv, LookInv
  <2>5. LookInv'
    BY <1>2, <1>c, <2>4 DEF LookedAtAll, WatchInv, LookInv
  <2> QED
    BY <1>2, <1>c, <1>d, <2>1, <2>2, <2>5 DEF LookedAtAll, WatchInv, JoinInv, ReportInv
<1> QED
  BY <1>1, <1>2

\* The report: a Cell that is pending has a thread that is not over, which was
\* therefore alive when the stragglers were listed.
LEMMA ReportStep ==
    ASSUME IInv, WatchInv, TypeOK', Report
    PROVE  WatchInv'
<1>a. \A i \in Innies : \E k \in DOMAIN Listed : Listed[k] = i
  BY ListedFacts
<1>b. main = "ask" /\ alive \subseteq stragglers
  BY DEF Report, WatchInv, LookInv
<1>1. \A i \in Innies : pc[i] # "exited" => i \in alive
  BY <1>a, <1>b DEF WatchInv, AliveInv
<1>2. \A i \in Innies : pc[i] = "exited" => Settled(i)
  BY DEF IInv, LocalInv, SettledOf
<1>3. PendingOf(Innies) \subseteq stragglers
  BY <1>b, <1>1, <1>2 DEF PendingOf
<1>4. WatchTypeOK'
  BY DEF Report, WatchInv, WatchTypeOK, Ways, PendingOf
<1>5. StartInv' /\ AliveInv'
  BY <1>b DEF Report, WatchInv, StartInv, AliveInv, vars
<1>6. ReportInv'
  BY <1>3 DEF Report, ReportInv
<1> QED
  BY <1>b, <1>4, <1>5, <1>6 DEF Report, WatchInv, JoinInv, LookInv

LEMMA OutieKeeps ==
    ASSUME WatchInv, TypeOK', NEW i \in Innies, OutieStep(i)
    PROVE  WatchInv'
<1>a. \A k \in DOMAIN Listed : Listed[k] \in Innies
  BY ListedFacts
<1>b. UNCHANGED mainVars /\ i \in alive
  BY DEF OutieStep
<1>c. /\ pc[i] # "exited"
      /\ \A j \in Innies : j # i /\ pc[j] \in {"run", "exited"} => pc'[j] = pc[j]
  BY OthersStay DEF OutieStep, WatchInv, WatchTypeOK
<1>1. WatchTypeOK'
  BY <1>b DEF mainVars, WatchInv, WatchTypeOK
<1>2. StartInv'
  BY <1>a, <1>b, <1>c DEF mainVars, WatchInv, StartInv
<1>3. AliveInv'
  BY <1>a, <1>b, <1>c DEF mainVars, WatchInv, AliveInv
<1> QED
  BY <1>b, <1>1, <1>2, <1>3 DEF mainVars, WatchInv, JoinInv, LookInv, ReportInv

LEMMA ThreadEndKeeps ==
    ASSUME WatchInv, TypeOK', NEW i \in Innies, ThreadEnds(i)
    PROVE  WatchInv'
<1>1. WatchTypeOK'
  BY DEF ThreadEnds, WatchInv, WatchTypeOK
<1>2. StartInv'
  BY DEF ThreadEnds, WatchInv, StartInv, vars
<1>3. AliveInv'
  BY DEF ThreadEnds, WatchInv, AliveInv, vars
<1> QED
  BY <1>1, <1>2, <1>3 DEF ThreadEnds, WatchInv, JoinInv, LookInv, ReportInv

\* WatchInv holds throughout, given what IInv says of the Outies.
THEOREM AlwaysWatchInv == WatchSpec => []WatchInv
<1>1. IInv /\ IInv' /\ WatchInv /\ [WatchNext]_watchVars => WatchInv'
  <2> SUFFICES ASSUME IInv, IInv', WatchInv, [WatchNext]_watchVars PROVE WatchInv'
    OBVIOUS
  <2>0. TypeOK'
    BY DEF IInv
  <2>1. CASE MainStep
    BY <2>0, <2>1, StartStep, JoinStep, LookStep, ReportStep DEF MainStep
  <2>2. CASE DeadlinePasses
    BY <2>0, <2>2, JoinStep
  <2>3. CASE \E i \in Innies : OutieStep(i) \/ ThreadEnds(i)
    BY <2>0, <2>3, OutieKeeps, ThreadEndKeeps
  <2>4. CASE OutOfRun \/ UNCHANGED watchVars
    BY <2>0, <2>4 DEF OutOfRun, watchVars, vars, mainVars, WatchInv, WatchTypeOK, StartInv,
                      AliveInv, JoinInv, LookInv, ReportInv
  <2> QED
    BY <2>1, <2>2, <2>3, <2>4 DEF WatchNext
<1>2. WatchSpec => []IInv
  BY WatchdogImplementsRegistry, AlwaysIInv, PTL
<1> QED
  BY <1>1, <1>2, InitWatchInv, PTL DEF WatchSpec

-----------------------------------------------------------------------------
\* The main thread's place in its loops, and the sets it keeps, are what they
\* are meant to be: it never looks past the end of its list of threads.
THEOREM WatchTypes == WatchSpec => []WatchTypeOK
<1>1. WatchInv => WatchTypeOK
  BY DEF WatchInv
<1> QED
  BY <1>1, AlwaysWatchInv, PTL

\* A run that returns has every Cell settled and no thread left.
THEOREM ReturnedIsSettled == WatchSpec => []ReturnsSettled
<1>1. IInv /\ WatchInv => ReturnsSettled
  <2> SUFFICES ASSUME IInv, WatchInv, main = "returned"
               PROVE  AllSettled(Innies) /\ alive = {}
    BY DEF ReturnsSettled
  <2>1. alive = {}
    BY DEF WatchInv, LookInv
  <2>2. \A i \in Innies : pc[i] = "exited"
    BY <2>1, ListedFacts DEF WatchInv, AliveInv
  <2> QED
    BY <2>1, <2>2 DEF IInv, LocalInv, SettledOf, AllSettled
<1> QED
  BY <1>1, AlwaysIInv, AlwaysWatchInv, WatchdogImplementsRegistry, PTL

\* Every Cell that a report calls pending has its thread among the stragglers.
THEOREM PendingIsRunning == WatchSpec => []PendingHaveThreads
<1>1. WatchInv => PendingHaveThreads
  BY DEF WatchInv, ReportInv, PendingHaveThreads
<1> QED
  BY <1>1, AlwaysWatchInv, PTL

\* The watchdog reports only after its deadline, and never an empty list.
THEOREM AlarmAfterDeadline == WatchSpec => []AlarmIsLate
<1>1. WatchInv => AlarmIsLate
  BY DEF WatchInv, LookInv, AlarmIsLate
<1> QED
  BY <1>1, AlwaysWatchInv, PTL

\* No cycle is resolved while a thread has yet to be started.
THEOREM NotBeforeTheLastStart == WatchSpec => NoEarlyResolution
<1>1. WatchInv /\ [cancelled' # cancelled =>
                      \A i \in Innies :
                        \/ Settled(i)
                        \/ /\ pc[i] \in {"resolve", "asleep", "notified"}
                           /\ resolved[lock] \/ StillWaits(i)]_vars
        /\ IInv => [cancelled' # cancelled => NotStarted = {}]_watchVars
  <2> SUFFICES ASSUME WatchInv, IInv, cancelled' # cancelled,
                      \A i \in Innies :
                        Settled(i) \/ pc[i] \in {"resolve", "asleep", "notified"}
               PROVE  NotStarted = {}
    BY DEF vars
  <2>1. \A i \in Innies : pc[i] # "run"
    BY DEF IInv, LocalInv, SettledOf
  <2>2. at \in Nat /\ at >= 1
    BY ListedFacts DEF WatchInv, WatchTypeOK
  <2>3. main \in {"start", "failed"} => \A k \in at..Len(Listed) : FALSE
    BY <2>1, <2>2, ListedFacts DEF WatchInv, StartInv
  <2> QED
    BY <2>3 DEF NotStarted
<1> QED
  BY <1>1, ResolvedInQuiet, AlwaysIInv, AlwaysWatchInv, WatchdogImplementsRegistry, PTL
     DEF ResolvedOnlyWhenQuiet, NoEarlyResolution
=============================================================================
