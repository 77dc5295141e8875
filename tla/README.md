# TLA+ models of lumon

`lumon` executes *work schedules*: each *Innie* is a small program that may read
the *work products* of other Innies. The threaded runner gives every Innie a
thread (an *Outie*) and blocks it until what it reads is there; Innies that wait
for each other for ever are found at quiescence and get the work product `-1`.
The serial runner is an oracle: it evaluates what it needs on its own call stack
and is meant to publish the same results. This directory models both, the main
thread that watches over the threads, and the way from a schedule's text to its
programs; it checks the models with TLC and proves the core of them with TLAPS.
All paths below are relative to the repository; `cell.py` stands for
`src/lumon/cell.py` and so on.

## The system

| Component | State it keeps | Operations | Talks to |
|---|---|---|---|
| **Registry, Cell, Condition** (`cell.py`) | one `Cell` per Innie (`_result`), the wait-for graph, `_cancelled`, one `Condition` shared by all | `await_innies`, `await_any`, `_detect_if_quiescent_locked`, `_resolve_cycle`, `is_cancelled`, `Cell.commit` / `commit_void` / `fault`, `result_locked`, `snapshot` | graph and detector, under its lock; resolvers and runners call it |
| **Wait-for graph** (`waitgraph.py`) | AND-edges of each waiter, a stack of OR-groups of each waiter | `wait_on`, `push_or_group`, `pop_or_group`, `clear`, `blocked` | none: a plain value |
| **Deadlock detectors** (`deadlock/andor.py`, `deadlock/scc.py`) | none; local loops | `find_cycle` | read the graph |
| **Threaded runner and resolver** (`runners/concurrent.py`, `resolvers/concurrent.py`) | threads; the locals of a fold | `run_innie`, `values`, `_quantified` | Registry; the interpreter calls the resolver |
| **Interpreter** (`isa.py`, `interp/`) | accumulator, staging slot, program position | `run_block`, the handlers, `operand_values`, `evaluate` | asks its `Resolver` |
| **Serial oracle** (`runners/serial.py`, `resolvers/serial.py`) | `_on_stack`, `_barriers`, the Cells as memo table, the Python stack | `run`, `result_for`, `probe`, `_cycle`, `values`, `_quantified` | Cells without a lock |
| **Watchdog** (`ConcurrentRunner.run`, `errors.py`) | the threads, one deadline, the list of stragglers | start, join, look, report: `WatchdogTimeout` | reads the Registry, under its lock only for the snapshot |
| **Parser** (`parser.py`) | position in the lines; one call of `_parse_block` per open SHIFT | `parse`, `parse_simple`, `parse_operand`, `parse_condition` | the loader calls it |
| **Loader** (`loader.py`) | ids seen so far, Innies read so far | `load`: shape, ids and texts, references | Parser; its programs go to the runners |
| **Command line** (`cli.py`) | none | `format_results`, `_describe`, exit code | reads the settled Registry |

### What is hard

* *Interleavings.* Any number of threads, one lock, one waiter set. A blocking
  call is several critical sections: registering edges, detecting and falling
  asleep are one; asking `is_cancelled` and reading the results are two more.
* *A thread writes for another.* Whoever notices quiescence settles the Cells of
  every member of a cycle, wherever their threads are.
* *Staleness.* After `notify_all` a woken thread is still in the graph; its
  AND-edges are those that were pending when the wait began.
* *Liveness.* Nothing but `notify_all` wakes a thread and nobody runs detection
  twice for the same quiescence: a cycle that is missed hangs the program.
* *Order.* Results must not depend on the schedule of threads, on Python's set
  order inside the detector, or on the order in which a schedule lists its
  Innies (serial).
* *Unwinding.* The serial resolver probes branches of a fold, backs out of those
  that reach a fold in progress, and keeps executing frames whose Innie has
  already been settled to `-1`. What it knows of its probes is a list beside
  Python's stack, which exceptions unwind, `RecursionError` at any depth included.
* *Deadlines.* One deadline for the whole run, which may pass between any two
  steps of the join loop, and a report read in two parts while the threads go on.
* *Which complaint.* A schedule with several defects is read in several passes;
  the one that is reported, and its line, depend on the order of all of them.

`PROJECT.json` lists each of these at its line, with the properties that would
notice it going wrong.

### What makes each component correct

* **Registry**: nobody settles a Cell that is settled; a finished wait is really over; the graph
  is exactly who waits; a sleeper really has to wait; somebody is always awake
  while a Cell is pending; only blocked Innies are resolved, whole cycles at a
  time, and only at quiescence; everybody finishes.
* **Detectors**: the stuck set is the greatest set without a way forward; the
  answer is the component of the first node that reaches itself, in whatever
  order the loops visit nodes; a stuck set is never without a cycle; on
  AND-only graphs both detectors agree, and who is resolved does not depend on
  names.
* **Threaded runner**: every interleaving ends with the same results.
* **Serial oracle**: it ends; it never evaluates an Innie inside itself; its
  barriers stand for the probes in flight; only Innies on a loop of questions get
  `-1`; every other result is the one its program has beside the results that
  stand at the end; until it settles a loop it agrees with what the schedule defines.
* **Watchdog**: `run` always ends; it returns only a settled Registry; its report
  does not contradict itself and is never early; until every thread has been
  started nobody is taken for a deadlock member.
* **Parser and loader**: what is refused, and at which line, is a function of the
  text as a whole; what is accepted is its text, and names only Innies that exist.
* **Command line**: the chain of causes it prints ends at a culprit.
* **Interpreter**: the same questions and results whoever answers. It is one
  function that all the models share, so comparing them checks the runners and
  the resolvers (which fault is chosen, what absorbs), not the arithmetic.

## The modules

`A <- B` says that B extends or instantiates A.

```
Names <- WaitGraph <- Detector <- DetectorSearch <- MCDetectorSearch
Detector, Cells <- Registry <- Watchdog <- MCWatchdog
                   Registry <- MCRegistry
Workday <- Registry                        (the abstraction it implements)
Names, Cells <- LazyEvaluator
Interp <- RunBlock, Programs, Cli, Parser, Grammar
Programs <- Schedules
Detector, Cells, Interp <- Reference
Registry, Interp <- ConcurrentRunner
ConcurrentRunner, Cli <- Report
ConcurrentRunner, Reference <- Determinism
Determinism, Report <- MCConcurrentRunner
LazyEvaluator, Interp <- SerialRunner <- MCSerialRunner
SerialRunner <- SerialRerun;  SerialRerun, MCSerialRunner <- MCSerialRerun
SerialRunner, Reference <- SerialReference <- MCSerialReference
Parser <- Loader <- LoadedWork
Loader, Grammar <- LoaderReference
LoadedWork, LoaderReference <- MCLoader
RunBlock, Schedules <- MCConcurrentRunner, MCSerialRunner;  RunBlock <- MCLoader

Detector        <- DetectorProofs <- RegistryProofs
Watchdog, RegistryProofs <- WatchdogProofs
DetectorSearch, DetectorProofs    <- DetectorSearchProofs
Reference, Programs, DetectorProofs <- ReferenceProofs
Determinism, Report, RegistryProofs, ReferenceProofs <- DeterminismProofs
SerialReference, SerialRerun, ReferenceProofs <- SerialProofs
LoadedWork, ReferenceProofs       <- LoaderProofs
```

**Names** and **Cells** hold what everybody shares: `Innies`, and what a Cell can
hold. An Innie is a natural number: the rank of its id in alphabetical order, so that
`sorted()` is the order of numbers. Definitions marked `[mutant]` in a module are
deliberate mistakes, each a plausible bug in the definition that follows it;
nothing else uses them, and substituting one makes the property named in
`PROJECT.json` fail.

**WaitGraph** is `waitgraph.py` as a record of two total functions; a missing key
is an empty value. The Registry never stores an empty value under a key.

**Detector** defines what `find_cycle` of both detectors returns: the greatest
*knot* (a set of blocked Innies with no way forward while they all stay put), the
stuck edges, reachability, the component of the first node that reaches itself.
**DetectorSearch** is the loops that compute it: `_stuck_set`'s sweeps over a
sorted copy with removal in place, the depth-first `_reachable` with the order of
the frontier left open, the search for the first node, the check of each member.

**Registry** is the protocol: `cell.py` with the threads that block in it.
CPython's `Condition` is modelled as it works, a lock and a waiter set.
The table gives the correspondence of places and actions; a place marked * is
inside the lock.

| `pc` | the thread is | leaves it by |
|---|---|---|
| `run` | in its program | `AwaitInnies`, `AwaitAny`, `Finish` |
| `scan` * | at the top of `await_any`'s loop | `ScanHit` (a settled target), `ScanMiss` |
| `detect` * | about to run `_detect_if_quiescent_locked` | `Detect` (the gate) |
| `resolve` * | in its loop, quiescent | `ResolveCycle` (one member set each), `NoCycleLeft` |
| `recheck` * | back from it | `RecheckAll`, `RecheckAny`: leave, go round, or `wait()` |
| `asleep` | in the waiter set | only by another's `Notify` |
| `notified` | out of it, without the lock | `Wake` |
| `returned` | out of the call | `AskCancelled` |
| `read` | not cancelled | `Read` |
| `settle` | at the end of `run_innie` | `Settle` |
| `exited` | over | |

A `with self.cond` block that cannot wait is one step taken while the lock is
free. What programs ask for is left open: any of `AndCalls` / `OrCalls`, at most
`MaxCalls` times. **Workday** is the abstract specification: Innies work, wait for
all or for any of a set, go on when their wait holds, publish, or are settled to
`-1` as one whole cycle of Innies that can never move. There is no lock, graph or
thread in it. `Registry!ImplementsWorkday` is the refinement.

**Watchdog** is `ConcurrentRunner.run` around these threads. The Outies take
steps of Registry, each once it has been started; the main thread only reads.

| `main` | the main thread is | leaves it by |
|---|---|---|
| `start` | starting the threads in the order of the listing | `StartThread`, `StartFails`, `SetDeadline` |
| `join` | joining them one after the other | `Join`: the thread is over or no time is left; `JoinedAll` |
| `look` | asking each whether it is alive | `Look`, `LookedAtAll` |
| `ask` | about to take the snapshot | `Report` |
| `returned`, `raised`, `failed` | out of `run` | |

Time is one bit: the deadline has passed or not, and it may pass at any moment of
the join loop, since nothing bounds how long an Outie computes. A thread stays
alive for a while after `run_innie` is over (`ThreadEnds`). When `Thread.start`
fails the exception leaves `run` and the Outies started so far go on.

**Interp** is the interpreter as a pure function: the questions of each
instruction, its effect once they are answered, and how a workday resumes with an
answer. A fault is a reason and the Innie it names. Running a program up to its
next question (`run_block`) is the parameter `RunToAsk`; **RunBlock** is its
definition, recursive, and each `.cfg` with programs gives the parameter that value. So
the modules the proofs are about declare no recursion. **Programs** says what the
proofs suppose of programs and of `RunToAsk` (see *The proofs*).
**ConcurrentRunner** joins Interp to Registry: every
step is a Registry step with its arguments filled in by a real program, plus the
locals of `_quantified`. **Reference** computes what a schedule defines without
threads, in deterministic rounds: everybody who can move does, and when nobody can
the cycles are resolved one after the other. Its states are records, and its
definitions constant-level, so that a proof can speak of the whole run as a
sequence of them. **Determinism** sets the threads beside that run, and
**SerialReference** the serial oracle; the run goes first and stays as it ends.
**Schedules** holds the programs that are run, and an `ASSUME` by which TLC evaluates
what the proofs suppose of programs on each of them.
**Cli** is what is printed of a settled Registry: the chain of causes of each
error, and the exit code. **Report** is that of a finished threaded run.

**LazyEvaluator** is `runners/serial.py` with the programs left open, and
**SerialRunner** fills them in with `resolvers/serial.py` and Interp, the way
ConcurrentRunner fills in Registry: every step of it is a step of LazyEvaluator,
or leaves its variables alone. `onStack` and `barriers` are the fields `_on_stack`
and `_barriers`; `probes` is Python's own stack, as far as it matters here:
whether the call that an Innie waits for was made by `probe`. An exception unwinds
the stack, and the fields only by the `finally` clauses it passes, so that the two
agree is a property (`BarriersAreProbes`) and not a convention.

| Action | Code |
|---|---|
| `Start` / `Enter` | `run` asks for the next Innie without a result |
| `Descend` / `Push` | `result_for` executes an Innie, from a probe or not |
| `Take` | `result_for` returns a memoized result to its reader |
| `Defer` / `Reenter` | `_cycle` raises `_Reentry`; the innermost probe catches it |
| `Deadlock` / `SettleCycle` | `_cycle` settles the loop to `-1` |
| `Unwrap`, `SecondPass`, `FoldOver` | `values` and the two passes of `_quantified` |
| `Publish` / `Return` | the program ended or raised; publish unless settled |
| `Overflow`, `OverflowInCycle` / `SettlePart`, `OverflowInReturn` / `Abandon` | `RecursionError` in the program, half-way through settling a loop, or in the publishing itself |

The next-state relation is `Walk \/ Stray`. A `Walk` publishes what programs left; a
`Stray` is what gives an Innie a result its program does not have: `Deadlock` and
the three overflows. `strayed` in SerialReference remembers that there was one.

Python's recursion limit is `Room`: with that many Innies under evaluation any
call *may* raise `RecursionError`; how many frames an Innie takes depends on its
program, so when it does is left open. A program is run on to its next question, or
its end, in the step that answers the last one; `Overflow` takes back that stretch,
the last one included, so it may happen to an Innie that asks nothing, too.

**SerialRerun** puts a second workday beside the oracle. When every Cell is settled,
each Innie is executed once more (`redo`), by a resolver that finds all results
there: it evaluates nobody, defers nothing and settles nothing. It only reads the
variables of the run. In the run itself an evaluation may be dropped half-way by
`_Reentry` and begun again, with some of its branches memoized by then, or go on
after its own Innie was settled to `-1`; `ResultsStand` says that none of this shows:
a result is `-1`, or a `RecursionError`, or what the second workday ends with.

**Parser** turns words into programs of Interp. A line is its opcode and its
words; a word is a name, a number, a bracket, a comma, one character of a
comparison, or a keyword. Names called IF and TIMES are names, except where the
parser looks for those words. Cutting at the first operator of a fixed list, at
the last ` IF ` and at every comma is modelled as the code does it. The recursion
of `_parse_block` is a stack of blocks. **Loader** is `load`: shape, then ids and
texts, then references, each loop a phase. The generator `_walk` is the variable
`todo`, what it has not yielded yet; a SHIFT at its head is replaced by its body.
**LoadedWork** goes on with an accepted schedule: any one of its Innies works, and
what it reads in the other Cells is anything, so it takes every branch it has.
**Grammar** and **LoaderReference** are the reference the answers are compared with,
which does not read from left to right: a line is well formed if there is a way to
cut it into the parts of its form, the defect of a text is the first wrong line, or
the last SHIFT that is never closed, and a schedule's is the first of those.

## The runs

| Run | Question | Bounds |
|---|---|---|
| `registry_safety` | Do lock, waiter set, graph, gate and cancellations stay consistent at every interleaving? | 3 Innies, 2 calls each, all 7 AND-sets, 11 OR-lists, 2 results |
| `registry_refines` | Does the Registry implement Workday, and does everybody finish? | 3 Innies, 1 call each, 5 AND-sets, 4 OR-lists |
| `watchdog` | Does `run` always end, return only what is settled, and report no nonsense? | 3 Innies listed 2, 3, 1; 1 call each, of {2}, {1, 3} or any of [3, 1]; any start may fail; the deadline passes anywhere |
| `detector_search` | Do the loops compute what Detector defines, in any frontier order? | every graph of 3 nodes the Registry can build, and 3 shapes of wait only the graph's own methods allow |
| `concurrent_three` | Are the results the same at every interleaving? | 1331 schedules: any 3 programs of a menu of 11 |
| `concurrent_four` | The same with four threads; does everybody finish, and does the printed report blame the right Innies? | 135 acyclic schedules and 13 shaped ones |
| `serial_all` | Does the oracle end, without re-entry, with its barriers in step, with `-1` only on loops, and with every other result the one its program has beside the rest? | the 1331 schedules in 3 orders, `Room` 2 |
| `serial_dags` | Does it agree with what the schedule defines until it settles a loop? | the 148 schedules of `concurrent_four` in every order, `Room` 4 |
| `loader` | Is each schedule accepted as what it says, or refused for its first defect? Does a workday of an accepted one ask for listed Innies only? | 14406 schedules, see below; a workday reads 3, `-1` or VOID |
| `concurrent_repeated` | Is the earliest fault of a fold raised? **No**, see Findings | one schedule |
| `serial_deferral` | Is the oracle independent of the order of the listing? **No**, see Findings | one schedule, 6 orders |
| `watchdog_report` | Is a Cell pending whenever the watchdog reports? **No**, see Findings | 2 Innies, 1 call each |

*Why three Innies.* Every pair of roles the protocol distinguishes occurs among
three: a detecting thread, a member of the cycle, a third that sleeps outside
it, is woken by it, or computes meanwhile. Two disjoint cycles fit (a
self-reference and a pair), and so do an OR-wait that escapes and one that does
not. *Why two calls.* The second call starts from what the first left behind
(graph entries, `resolved`, notified sleepers), after which nothing of the first
remains: the proofs below confirm that the safety properties need no bound at
all. The refinement run makes one call because its properties are temporal; two
calls of one thread never overlap. *Four Innies* bring two cycles of two,
overlapping cycles (the example in `runners/serial.py:35-38`) and a fold with
three branches. The programs of the menu contain each instruction, absorbing and
indecisive folds, faults, VOID, and conditions that read before they decide to
wait; SHIFT counts stop at 2.

*Room.* With `Room` 2 the stack of three Innies may overflow in any program
from the second Innie on, before each of its questions and after the last, also in one
that asks nothing; between the members of a loop that is being settled; and, once three
are under evaluation, in the publishing. `serial_dags` compares results, which an
overflow changes, so its stack holds all four. On the 135 acyclic schedules the
oracle settles no loop and agrees to the end. Of the other 13 some send it into a
loop of questions that its deferrals get it out of: it agrees there too. Once it
has to settle a loop it is documented to differ in who gets `-1`
(`runners/serial.py:27-47`), and `serial_all` checks what it guarantees from there.

*The texts of `loader`.* One Innie with one line: every operand of up to four
words, every condition of up to four words and longer ones built from a left side,
an operator, a quantifier and a list, every CONDITIONAL_ADD with a head of up to
three words or a condition of up to four, lines without operands, SHIFT counts of
either sign. One Innie with up to four lines out of good and bad ones, blank lines
and SHIFTs, and up to six of SHIFTs alone, which is three open blocks. Up to three
Innies with duplicate ids, empty ids, and names that are nobody's, inside and
outside SHIFTs. Four words are where an operator of two characters has a word on
each side.

Every run checks for deadlock: a model that is over stutters explicitly (`Over`),
so TLC reports any other stop.

### Fairness

`FairSpec` asks for weak fairness of `Next` alone: while some thread can take a
step, some thread takes one. That is the least an operating system gives; it
does not say that a given thread ever gets the lock. It suffices because every
program is finite (`MaxCalls`; SHIFT counts are constants), so a run is finite
unless it stops early, and the safety of the wakeups makes it not stop early. The
serial runner is one thread: weak fairness of its only next-state relation
(`FairRerunSpec`) says that it keeps running. `DetectorSearch` likewise.

`FairWatchSpec` asks for less of the Outies and for more of the rest: the main
thread is scheduled (`MainStep`), the clock moves (`DeadlinePasses`), and a thread
that holds the lock goes on until it releases it, which its code does after
finitely many steps without waiting for anybody. It asks nothing of an Outie
outside the lock: `RunEnds` holds although Outies may compute for ever or wait for
one that was never started. `OutiesGoOn` states in its antecedent what it assumes
beyond that.

## The proofs

`DetectorProofs` states what each graph operation changes, and shows, for any
finite set of Innies and any graph:

* `CycleIsStuck`: a member of a reported cycle is blocked and stuck, and one of
  its stuck edges leads to another member (so a waiter on an OR-group that is
  resolved finds a settled target in its group).
* `StuckHasCycle`: a stuck set that is not empty contains a cycle. Its members
  each have a successor among them; a member whose reach is minimal reaches
  itself, and well-foundedness of strict subsets of a finite set gives one.
* `FindCycleReducesToScc`: without OR-groups the answer is that of the plain SCC
  detector (`andor.py:30-31`). The stuck set contains every cycle and whatever
  leads to it, so between stuck nodes stuck edges lead as far as all edges.

`DetectorSearchProofs` shows that the loops end with these values, in any order of
the frontier. The invariant `SearchInv` says of the sweeps that the candidates
contain every knot and that a sweep which discarded nobody leaves a knot; of the
search that what was seen and what is in the frontier is reachable and closed
together; of the choice of the first node that those passed over are on no cycle.

`RegistryProofs` proves every safety property of the run `registry_safety` for any
finite set of Innies, any programs, any number of calls. The assumptions are
`InniesAssumption` (a finite set of numbers) and `RegistryAssumption`: `-1` is a
result, `None` is not, `await_any` has at least one target. The last is what the
parser guarantees; it rejects an empty list.

Beyond `TypeOK`, the properties are not inductive. `IInv`, which is, adds these parts:

* `LockInv`: exactly the thread between two steps of one critical section holds
  the lock. It lets the proofs treat detection as if it were alone.
* `WantOf`, `GraphOf`: which thread has which kind of wait, and that its graph
  entry is the list it gave, or the subset of its AND-targets that was pending
  when it began, the rest being settled.
* `SettledOf`: a Cell is settled if and only if its Innie was resolved or its
  thread is over. From this follows that there is no double settle.
* `PromiseOf`: a finished wait is over; a cancelled OR-wait has a settled target.
* `VainOf`: whoever sleeps, or will sleep without looking again (an OR-wait past
  its scan), waits in vain. This is the absence of lost wakeups; a step that
  settles something keeps it only because it wakes everybody.
* `QuietOf`: behind the gate every unsettled Innie is in the graph, and waits in
  vain until the detecting thread settles something.
* `RecheckOf`: after detection some unsettled Innie will go on, the detecting one
  itself only if its wait is over. After a gate that did not open it is the one
  that kept it closed; after the loop it is the one that is not stuck
  (`StuckHasCycle` on an empty answer), all of whose targets are settled.
* `AwakeInv`: the unsettled Innies do not all sleep. Falling asleep keeps it by
  `RecheckOf`.

`OwnStep` reduces a step of one thread that settles nothing to what it does to
that thread; `WokenKept` does the same for the two steps that settle something
(`ResolveCycle`, `Settle`). There is one lemma per action; `AlwaysIInv` puts them
together, and each property follows from `IInv` in a few lines.

`RegistryProofs` also shows that the Registry implements Workday. The abstract wait of an
Innie depends on its own thread and Cell alone, so most steps stutter; entering a
call is `StartWaiting`, returning from one is `Proceed` (what `StillWaits` denies is
what the abstract wait asks for), settling is `Publish`. A resolution is `Unwork`
of the reported component. The hopeless set that `Unwork` asks for is the stuck
set: inside it the stuck edges of an Innie are exactly its abstract wait, because
its AND-targets that have left the graph are settled (`GraphOf`) and an OR-group of
a stuck Innie lies in the stuck set as a whole. So `LeadsTo` is `Reach`, and the
component of the first node is a whole cycle.

It also says who gets `-1` when nobody waits for an OR-group: while a
thread is in the loop of `_detect_if_quiescent_locked`, the Innies resolved so far
and those on cycles are together the same, and at its end nobody is on a cycle.
So they are exactly those on a cycle of waits at the gate, however they are
called. A component that is taken out leaves the other nodes on their cycles
(`OthersStayOnCycles`): a way back that came through it would make them members.
With OR-groups this is false, see the first observation below.

`WatchdogProofs` proves the type invariant and the safety of the main thread for any listing, any
programs and any failure of a start, from `ListedAssumption`: each Innie is listed once. Its
steps leave the Registry's variables alone and the Outies' steps are Registry's,
so `WatchSpec` implies `Spec` and every theorem above holds of a run. `WatchInv`
adds where the loops are: a thread not started has not moved (`StartInv`), one that
is not alive later is over (`AliveInv`), a join before the deadline saw the thread's
end (`JoinInv`), who is alive after the look is a straggler (`LookInv`).
`PendingHaveThreads` follows because a pending Cell's thread is not over
(`ExitedHasSettled`), so it is alive, so it is a straggler. `NoEarlyResolution`
holds since an Innie not started is unsettled and not in the graph, which keeps the
gate shut.

`ReferenceProofs` is about the deterministic run that both runners are compared
with. What is settled in it stays (`RunKeeps`). It falls into *phases*: rows of
rounds from one deadlock (or the start) to the next (or the end). Within a phase
whoever can move does, and where his question sends him depends only on results
that the end of the phase has too (`GoesOnAll`, `GoesOnAbsorbed`, `GoesOnFold`), so
not on when he moves.

`DeterminismProofs` proves that the threaded runner gives every Cell the result of
that run: `ResultsAreDefined`, for any finite set of Innies, any programs whose folds
list nobody twice, and any interleaving, with any number of deadlocks on the way. First,
`RunnerImplementsRegistry`: its steps are Registry's, so it has every invariant
above. Then `QuestionInv`: the call a thread is in is for the question its program
has come to, and a fold has deferred exactly its faulty branches so far. The threads
run ahead of each other, so no state of theirs is a state of the run. But while
nobody resolves, each of them is where *some* state of the current phase has it
(`Follows`). When the gate opens, every unsettled Innie waits in vain, so each has
caught up with the last state of the phase (`CaughtUp`); the wait-for graph is that
state's up to edges to settled Innies (`SameGraph`), which the detector does not
see (`SameCycle`), and both resolve the same cycles.

*What is supposed of programs.* A SHIFT is executed by putting its turns in front of
what is left, so a workday under way is not made of the instructions of the text
alone. The theorems speak of any set `I` of instructions that is `Closed`: with each
SHIFT it has those of the body, and the SHIFT of one turn less. `RefersTo`: they
name Innies of the schedule only. `RunsBlocks`: `RunToAsk` executes instruction after
instruction until it has to stop. `FoldsOnce`, for `ResultsAreDefined` alone: no fold
lists an Innie twice. That every workday stays inside `I` (`Inside`) and asks for
nothing but what its instructions name (`AsksItsLists`) is proved, not supposed.
The first two hold of whatever `load` returns: that is `AcceptedAreSound` below.
`RunsBlocks` is what `RunBlock` does, since a program is a finite tree and a SHIFT
counts down; it is a premise because the step from one nesting to the next is an
induction over data. `FoldsOnce` is guaranteed by nobody, and without it the theorem
is false, as run `concurrent_repeated` shows. `SchedulesSuit`, an `ASSUME` that TLC
evaluates, says that all schedules here satisfy these premises, and that only
`Repeated` breaks `FoldsOnce`.

`ReportIsRight`, for folds with repetitions too, is about what is printed at the
end. `Describe` chooses the chain of causes among the lists without repetition, so
that one exists has to be proved: `BlameInv` says that every result, and every
exception on its way there, is accounted for by a Cell that has settled (`Accounted`),
and that in every set of Innies that faulted one has its cause outside (`Grounded`),
because an exception is settled after its cause. So a chain never comes back, it can
be continued as long as there is a cause, and it ends at a culprit; the guard
against a circle (`cli.py:48-50`) is never needed. The theorem supposes that the
result of a deadlock is a value, `-1`, which causes no fault.

`SerialProofs` proves the stack discipline of the serial oracle for any programs
and any place of overflow. `EvalInv` is `NoReentry` and `BarriersAreProbes` with the
types, that the top frame waits for no call, and that an Innie on the stack has no
result or the `-1` of a loop. `ReentryIsCaught` follows: the last barrier is the
height of the innermost probe, so `_Reentry` is always caught, and by the probe it
was meant for. `EvaluatorAssumption` asks that the stack holds at least one Innie.
On real programs:

* `SerialImplementsEvaluator`: SerialRunner's steps are LazyEvaluator's with their
  arguments filled in, so the stack discipline is theirs too.
* `SettlesLoopsOnly`, from `FramesInv`: the frames stand on each other, each asking
  for the Innie of the next and from a probe exactly if that is recorded. Unwinding
  to a probe keeps that, so the members `_cycle` settles ask for each other in turn.
* `OracleAgrees`: until it strays, the oracle has only results of the run of
  Reference, in whatever order the schedule lists the Innies and whatever it
  deferred. It stays on the course of the *first* phase: each frame's workday is one
  that the phase passes through (`Passes`), each result is that of the phase's end
  (`Right`), and what a fold has gathered of its branches, deferred ones apart, is
  right (`Gathers`). The premises are those above without `FoldsOnce`: the oracle keeps
  positions, not ids.

* `EveryResultStands`: `ResultsStand`, wherever the oracle strays. `OracleAgrees` is
  silent from the first loop on, when there is no state of a reference left to compare
  with; this theorem compares the results with each other. `OnWay(s, d, c)` says that
  a workday that starts as `s` comes to `d` by reading `c` alone (`Reread`). Each frame
  is `Honest`: its workday is on the way from its first, beside the Cells as they are;
  of a fold, the branches behind its position have their results, those that count as
  faults are just the faulty ones, none absorbs, and a deferred one is yet to be asked;
  or it has run out of stack. A settled Cell is `Earned`:
  it is the outcome of a workday on the way, or `-1`, or `RecursionError`. Because
  settled Cells stay (`SettledStays`) and a workday is told only what is settled, a way
  goes on when more is settled (`WayGoesOn`), so an evaluation that is dropped costs
  nothing but its frame, and one that runs on after its loop was settled has read
  nothing that changes. The second workdays are on the same ways (`Retraced`), and a
  way has one end (`OneEnd`). The premises are those of `OracleAgrees`.

`ResultsAreDefined` and `OracleAgrees` speak of the same run. Together they say that
on a schedule whose folds list nobody twice, and of which the oracle settles no loop
and overflows no stack, the two runners agree on every value, for any number of
Innies and threads.

`LoaderProofs` is about the loader, for any list of ids and texts. `LoadInv` says that
the Innies read are the first of the listing, in its order, and that what the blocks
of the parser hold is made of instructions parse_simple can return, nested to some
depth (`ProperCode`). Of the check it says: the programs that were checked are sound
(`SoundCode`: in a closed set that names known Innies only), and the one under the
walk is sound *if what `_walk` has still to yield is*. Passing an instruction keeps
that because its references were looked at, and entering a SHIFT because a sound body
makes a sound SHIFT; at the end the empty program is left, which is sound. From it:

* `LoadIsTyped`: the type invariant, with the constraints of the instruction classes.
* `AcceptedAreSound`: the programs of an accepted schedule have one closed set of
  instructions between them that names its Innies only, which is what the theorems about
  the runners suppose.
* `OnlyKnownAsked`: a workday of an accepted schedule never asks for an Innie that is
  not listed, from `RunsBlocks` of every closed set.

*Only model-checked*:

* liveness (`EverythingSettles`, `RunEnds`, `OutiesGoOn`, `SearchEnds`,
  `SerialCompletes`): this prover has no ENABLED;
* `AnswersFirstDefect` and `KeepsText`: they compare the loader with a whole text,
  whose blocks nest, and that takes induction over the text;
* that `RunBlock` satisfies `RunsBlocks`, for the same reason. The runs use `RunBlock`.

## Findings

1. `resolvers/concurrent.py:98`: the positions of a fold's branches are a dict
   keyed by id. An id that is listed twice keeps its last index, so `ANY OF
   [A, B, A]` with A and B faulted raises B's fault where the comment at line 92
   promises the earliest. Run `concurrent_repeated`.
2. `resolvers/serial.py:145`: the second pass of a fold settles its deferred
   branches although a fold further down the stack, still probing, may free
   them. A schedule that does not deadlock then gets a `-1`, in some orders of the
   listing only. Run `serial_deferral`.
3. `runners/concurrent.py:102`: the watchdog raises whenever a thread was alive
   when it was looked at. A thread is alive from its commit to its end, and the
   deadline may pass there; it may also settle before the snapshot. So the report
   may name no pending Cell, where `errors.py:69` says "cells are still pending".
   Run `watchdog_report`.

Observations that contradict nothing the repository says:

* Where knots overlap, the first cycle *by name* is resolved first, and who gets
  `-1` depends on the names. With A waiting for any of B, C; B for A; C and D for
  each other, all four get `-1`; with A and B renamed Z and Y only C and D do.
* The watchdog's deadline is for the whole run, not for lack of progress, and
  `cli.py:78` does not guard the run: `WatchdogTimeout` ends in a traceback, as does
  a schedule file that is not UTF-8.
* A chain of waits deeper than Python's recursion limit becomes a fault in the
  serial oracle, and a result in the threaded runner; SHIFTs nested as deeply
  raise `RecursionError` in the parser.
* `CONDITIONAL_ADD [A] IF IF > 5` is refused where an Innie is called IF: the last
  ` IF ` is the left side of the condition. As a right side, or in a list, the
  name is read correctly.

## What is not modelled

* Cutting a line into words, comments, letter case, the texts of messages: the
  models begin with words. `load_path`: reading a file and decoding JSON.
* The command line's arguments and files, `KeyboardInterrupt`.
* Memory, and spurious wakeups: CPython's `Condition` has none.
* Which frame of Python's stack overflows: any may, see `Room`.
* `Cell.get` (used by tests only); formatting.

## Plan

Done: WaitGraph, Detector, DetectorSearch; Registry, Workday; Interp,
ConcurrentRunner, Reference, Cli, Report; Watchdog; LazyEvaluator, SerialRunner,
SerialRerun; Parser, Grammar, Loader, LoadedWork; the proofs above. Every safety
property the runs check is proved but the two that need induction over texts. What
could come next:

1. `AnswersFirstDefect` and `KeepsText` for texts whose SHIFTs nest to a given depth.
2. Who gets `-1` with OR-groups: those stuck at the gate do not depend on names,
   those resolved do. What can be said of them in between.

## Running it

    tlc -workers 2 -config RegistrySafety.cfg MCRegistry
    tlc -workers 2 -config Watchdog.cfg MCWatchdog
    tlapm RegistryProofs.tla

Each row of `PROJECT.json`'s `runs` names a module and its configuration.
