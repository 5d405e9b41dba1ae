# rtic-edf, specified

TLA+ specifications of the earliest-deadline-first scheduler of `rtic-edf`, of
the priority queue it keeps its waiting jobs in, of the compiler pass that
configures it, of the Cortex-M runtime under it and of the generator of
benchmark applications in front of it; their model checking with TLC; and
proofs checked by TLAPS.

Run TLC with `tlc -config <run>.cfg <module>` (the runs are listed below and in
`PROJECT.json`) and the proofs with `tlapm` on each of `EdfSchedulerProofs.tla`,
`EdfSchedulerOrderProofs.tla`, `EdfRefinementProofs.tla`, `CpqProofs.tla`,
`EdfOnCpqProofs.tla`, `EdfPassProofs.tla`, `RuntimeProofs.tla` and
`LeastNumber.tla`.

## 1. The system

| Component | Code | State | Operations | Interacts through |
|---|---|---|---|---|
| Scheduler | `rtic-edf-pass/src/scheduler/`, `task.rs` | system deadline, one run queue slot per priority level, wait queue | `schedule`, `execute`, `check_missed_deadline`, `dispatcher_exit` | called by the generated handlers; pends dispatchers in the NVIC |
| Generated handlers | `rtic-edf-pass/src/edf_pass/codegen.rs` | NVIC pending and mask bits | timestamper and dispatcher of each task | run by the NVIC, preempt each other by priority |
| Priority queue | `cpq/src/` | two linked lists in one array, cached minimum, shared traversal state | `insert`, `pop`, `min`, `min_ref`, `len` | called from handlers that preempt each other, between its critical sections |
| Compiler pass | `rtic-edf-pass/src/edf_pass/` | the tasks being assigned | parse, assign, analyze, generate | fixes priorities, indexes and lengths for the scheduler |
| Distribution and runtime | `cortex-m-edf-rtic/` | `CS`, `OLD_CS`, PRIMASK, BASEPRI, NVIC priorities | interrupt-free function, `post_init`, `run`, `lock` | wraps `main` and every handler; sets the priorities all others rely on |
| Benchmark generator | `benchmarks/benchmark-generator/src/` | the running count of tasks over deadlines | check the settings, divide the interrupts, distribute | writes an application the pass compiles |
| Examples, tracing | `benchmarks/src/bin/`, `scheduler/benchmark.rs` | none of their own | | users of the above, measurements |

A task's interrupt is bound to its *timestamper*, at the highest priority used.
It masks itself, computes the absolute deadline of the arrival and, if that is
less than the system deadline, *executes* the job: the job's deadline becomes
the system deadline, the former one goes to the run queue slot of the task's
level, and the task's *dispatcher* is pended. Otherwise the job goes to the wait
queue. A dispatcher runs the task, then `dispatcher_exit` restores the deadline
its slot kept, re-arms the timestamper, pops a job from the wait queue and
executes it or puts it back.

What is hard here:

- **Interleaving.** Only parts of `dispatcher_exit` are critical sections. A
  timestamper can fire between any two of its steps, and post a dispatcher that
  preempts it and goes through an exit of its own.
- **Shared pops.** A pop is a loop of short critical sections on shared state.
  A preempting pop carries on a preempted one and takes its item.
- **Stale bits.** A level-triggered source pends its interrupt again while the
  timestamper is masked.
- **Masking in two places.** The interrupt-free function keeps its nesting in
  globals, `lock` in locals of its callers and in BASEPRI, and a lock of the
  highest ceiling in PRIMASK, which the former uses too.
- **Time.** The cycle counter wraps; its largest value also means "none".
- **Assumptions made elsewhere.** The lengths, indexes and priorities the
  scheduler relies on unchecked come from the compiler pass.

Correct means: for the scheduler, that every arrival becomes one job in one
place, that jobs run by earliest deadline, and that none is forgotten; for the
queue, that it behaves as a set from which minima are taken, without losing
nodes; for the pass, that what it generates meets the scheduler's assumptions;
for the runtime, that a lock excludes and never waits, that what masks
interrupts is undone by who did it, and that no handler runs unconfigured; for
the generator, that tasks are spread evenly and what it writes compiles.

## 2. The modules

| Module | What it is |
|---|---|
| `EdfScheduler` | the scheduler and the generated handlers on one processor |
| `EdfSchedulerProps` | its properties, and the claims of comments that TLC refutes |
| `EdfSchedulerInv` | the inductive invariant |
| `EdfSchedulerProofs` | proofs: types, where jobs are, nothing urgent left behind, interrupt lines |
| `EdfSchedulerOrderProofs` | proofs about the order of deadlines |
| `EdfMachine` | what the scheduler promises: preemptive EDF on one job a task |
| `EdfRefinement` | the refinement mapping from `EdfScheduler` to `EdfMachine` |
| `EdfRefinementProofs` | proof that it is one |
| `WaitQueue` | the priority queue as its callers see it |
| `Cpq` | the linked lists, one step per critical section; implements `WaitQueue` |
| `CpqInv`, `CpqProofs` | its inductive invariant; proofs about the lists, and that they implement `WaitQueue` |
| `EdfOnCpq` | composes the scheduler with `Cpq`; implements `EdfScheduler` |
| `EdfOnCpqProofs` | proof that it does, and what follows for the composition |
| `EdfPass` | the compiler pass, one step per stage |
| `BenchmarkApp` | the benchmark generator; extends `EdfPass` by its input |
| `EdfPassInv`, `EdfPassProofs` | the inductive invariant of the two, and proofs |
| `Runtime` | start of the machine, interrupt-free function, `run` and `lock` |
| `RuntimeInv`, `RuntimeProofs` | its inductive invariant, and proofs |
| `LeastNumber` | a set of naturals has a least element; used by the proofs |
| `MC...` | constants for TLC |

### EdfScheduler

| State | Code |
|---|---|
| `uptime`, `Now` | `DWT::cycle_count`: `Now` is `uptime` modulo the width of the counter |
| `line`, `latch`, `masked` | output of a task's peripheral, pending and mask bits of its timestamper |
| `pended`, `pc` | pending bit of a dispatcher, and its position in its handler |
| `prev`, `hand` | the locals `prev_deadline` and `next_task` of `dispatcher_exit` |
| `sysDl`, `rq` | `SystemDeadline`, `RunQueue` |
| `wq`, `traversing` | the jobs in the `WaitQueue`, and whether its `traversal_state` is set |
| `panic` | which assertion or `expect` stopped the machine |
| `jobDl`, `overtaken` | history: deadline of each task's latest job; see section 4 |

A timestamper is one step, because nothing outranks it: `Timestamper` is its
whole handler (mask, then `schedule` with `execute` or `insert`). A dispatcher is
a step per atomic access or critical section: `Dispatch` (the NVIC takes it),
`CheckMissedDeadline`, `Exec` (the user's code), `GetPrevDeadline`,
`RestoreDeadline`, `UnpendTimestamper`, `UnmaskTimestamper`, `PopBegin`,
`PopFinish`, `DispatchNext`. The feature `check-missed-deadlines` is the constant
`CheckMissed`. As the code stands a build with that feature does not type-check
(`check_missed_deadline`, `scheduler/mod.rs:82-128`, declares no result, and its
body ends in a `Timestamp`): `CheckMissedDeadline` is what the function is written
to do, and what is said of it here is of the code once that line is mended.
`execute` is the operator `Execute`.

The advancing steps of a traversal do not change what the scheduler sees and are
left to `Cpq`: `PopBegin` and `PopFinish` are the operations of `WaitQueue`
(`TakeAtOnce` and `BeginPop`; `TakeMinimum` and `FindRobbed`), which `Cpq` is
shown to implement. A preempted dispatcher may stay in `"traverse"` for any
number of steps of others.

The hardware is external: `TakesTimestamper`, `TakesDispatcher` and `Running`
state what the NVIC executes (strict priorities, the lowest vector number among
equals, no preemption at an equal level). `Raise` is a peripheral, or software
that pends the interrupt. A task in `LevelTriggered` holds its line up until its
code has acted on the peripheral; a line still up when the handler returns, or
after an unpend, pends the interrupt again. Other sources are pulses.

`Tick` lets any amount of time pass between two steps, so nothing is assumed
about execution times, and a deadline may be missed.

### EdfMachine and EdfRefinement

`EdfMachine` says what the scheduler is for, without naming how: each task has
one job, which is armed, waits or is posted, runs, finishes and is armed again.
A job is posted only if it is strictly more urgent than all that are posted; it
starts and completes only as the most urgent of all that have arrived. A post
ahead of a waiting job that is more urgent sets `disordered`, and from then on
only the life of each job is promised. That is what the code gives: section 4
shows the race that leads there.

`PhaseOf` reads a task's phase off the handlers: `posted` is the pending bit of
its dispatcher, `running` from the dispatcher's entry to the end of the user's
code, `finished` until its timestamper is unmasked, `waiting` in the queue or in
an exit's hand. `disordered` is the history variable `overtaken`.

### WaitQueue and Cpq

`Cpq` has the node array (`value`, `next`), the four pointers, the traversal
state and, for each caller, whether it is in the loop of `pop` and what its last
operation returned. A value moved out of a node is `None`: reading it would be a
use of an uninitialised `MaybeUninit`. `Insert` is one critical section; `pop` is
`PopEmpty`, `PopSingleton` or `PopBegin`, then `PopAdvance` until `PopRemove`, or
`PopRobbed`. Any caller may step at any time, which includes every order that
nested interrupts produce. Items are distinct, as the scheduler's jobs are; two
of them may compare equal.

The refinement maps the abstract set to the values of the nodes reached from
`head`, and `popping` to `trav # None`. It includes what operations return, so
`"queue full"` is returned exactly when the queue holds `Capacity` items: no node
is leaked.

### EdfOnCpq

The composition has the scheduler's variables and the list's, and no set of
jobs: `wq` is what the list stores, `traversing` whether its shared traversal
is set, and the job in an exit's hand what the exit's `pop` returned. Steps that
touch the list (`Timestamper`, `Pop`, `DispatchNext`) are written out as `Cpq`
operations under the scheduler's guards; the others are those of `EdfScheduler`.
All timestampers share one caller, `TopLevel`, because none preempts another.
The traversal is a loop of steps here, so a timestamper inserts behind its
cursor, and an exit that preempts it carries it on.

### EdfPass

`Parse` is `AppParameters::parse` (which arguments of the attribute are given),
`TaskStructDef::from_struct` on every task and the assertion of `App::parse`;
`Assign` the sort, the running count of deadline changes and the zip with the
dispatchers; `Analyze` the platform checks of `analyze` and the parameter rewriting
of `run_pass`; `Generate` the code generator's assertion. A task is its deadline,
whether it binds nothing, an identifier or a path of several segments, and whether
it has a forbidden priority. The list of dispatchers is any list of names and of
such paths, repeats included: nothing in the pass asks that it names an interrupt
once.

`Assign` has two refusals of its own, neither of them a check that was meant to be
one. A dispatcher's index is put into a `u16` and fails beyond it (`"over u16"`,
`parse/mod.rs:148-150`); and the log of the tasks unwraps both paths as identifiers
(`"not an identifier"`, 162-163), so that a path of several segments, which the
parser takes, stops the pass. The running count is a `u16` too. Whether a build
stops at its overflow or wraps and goes on, the pass fails: a count that has
wrapped has used every priority, which `analyze` refuses. The model stops there.

`ShorterIsHigher` and `RunQueueIndexed` are what `EdfScheduler` assumes
of its constants.

### BenchmarkApp

`CheckSettings` is `Settings::try_from`; `Half` the division of the device's
interrupts between tasks and dispatchers; `Distribute` one round of the loop of
`generate_app`, which gives a handler the current deadline and moves to the next
when that has its share; `OutOfHandlers` the end of the loop. The application
then goes through the actions of `EdfPass` (`Compile`).

### Runtime

| State | Code |
|---|---|
| `basepri`, `primask`, `hwPrio`, `enabled`, `pending` | the registers |
| `cs`, `oldCs` | the `static mut` `CS` and `OLD_CS` of the macro |
| `pc`, `initial` | position of each context, the local of `run` |
| `frames` | the locks and interrupt-free sections a context is inside of, with the locals of `lock` that are put back |
| `todo` | resources a context has still to lock, so that each is locked once |
| `prio` | the priorities of the application, any the pass could be given |

`Start`, `PostInit` (one interrupt at a time) and `EnterIdle` are `main`;
`TakeInterrupt` is the NVIC; `RunEntry` and `RunExit` are `run` around a handler;
`LockRead`, `LockRaise` and `Unlock` are `lock`, whose read and write of BASEPRI
are apart because a handler may come between; `Enter` and `Leave` are the
interrupt-free function called from a task: one step each at its begin and its
end, because interrupts are off between its instructions (`MaskedInside`). The body of a handler
locks the resources it uses in any order and nesting. The width of the priority registers,
which a value is cut to, is `Levels`.

`rtic-core` computes the ceilings and calls `lock` with them, and its `main` calls
`post_init` inside the interrupt-free function; `basepri_max` ignores a value that
would mask less. None of these is in the repository: `Ceiling`, `Raised`,
`Implemented`, `Start` and `EnterIdle` are modelled from how the code uses them. `EdfScheduler`
takes as given what this module shows: handlers preempt each other strictly by
priority, and a critical section is not interrupted.

## 3. What the runs check

| Run | Instance | Shows |
|---|---|---|
| `Sched_pair` | tasks `a`, `b` with one deadline, `c` slower; 4 arrivals, 5 instants; `a` level-triggered | the safety properties; the refinement of `EdfMachine` |
| `Sched_four` | tasks on three levels, two of them with one deadline; deadline checks on (the feature mended); 4 arrivals, 3 instants | the inductive invariant of the proofs, `OvertakenOnlyInExit` and `CheckIsExact`, with three nested dispatchers and pops that rob each other |
| `Sched_wrap` | timestamps 0..5, 8 instants | what holds across the wrap of the counter |
| `Sched_on_list` | the tasks of `Sched_four` on the real list, fairness; 4 arrivals at one instant; `d` level-triggered | the composition implements `EdfScheduler`; `EveryJobCompletes`, `Drains`, `LineServed` |
| `Queue_pops` | fairness; 2 callers, 3 nodes, 4 items, two of them equal | list structure, cursors, refinement of `WaitQueue`, `TraversalEnds` |
| `Pass_assign` | every application of up to 3 tasks with deadlines 1..3 and up to 3 dispatchers out of two names and a path, repeats included, and those generated from 11, 9 and 5 interrupts; room for two priorities; a `u16` of up to 3 | the configuration; the even spread of generated tasks |
| `Runtime_locks` | fairness; 3 handlers, 3 resources, 4 levels, 3 interrupts, 2 sections; three applications | locks, masks, configuration; `PendingServed` |

**Bounds.** With three tasks, four arrivals are one more than the tasks: enough
for a task to arrive again while an exit is under way, for two jobs to wait and
one to be posted. Relative deadlines 2, 2, 3 and five instants let a later
arrival have an earlier, an equal or a later deadline than any job outstanding.
A pop is robbed only if two jobs wait, a dispatcher exits and a task of a higher
level arrives, which takes four tasks (before the counter wraps, three cannot
do it): `Sched_four` and `Sched_on_list` have them. The latter has one instant,
because the list compares deadlines and no dates, and in it traversals of three
nodes are interrupted by inserts, carried on by other exits and robbed. Vector
numbers run with the declarations for dispatchers and against them for
timestampers, so ties are taken in both orders. `MaxTimestamp` is 15 where no
deadline may reach it and 5 where it should wrap.

Three nodes are a head, a middle and a tail, each of which can be the minimum;
four items fill the queue and leave one outside. Eleven, nine and five interrupts
leave tasks over, with shares of 0, 1, 2, 4 and 5 for up to three deadlines, and make
more deadlines than handlers possible; with a `U16Max` of 3 the five tasks from
eleven interrupts have an index too large. Of the runtime's three applications one uses
the highest and the lowest priority, one has two handlers on a level, one a
priority the part lacks; the resources have a low, a middle and the highest
ceiling, so that locks nest both ways and one masks by PRIMASK. Three interrupts
let each handler preempt each step of the one below; two sections are main's and
one more. `MaxUptime`, `MaxEvents`, `MaxTasks` and `MaxSections` are the only
bounds in the modules; the proofs hold for every value of them.

**Deadlock** is checked in every run: an idle processor (`Idle`), a halted one
(`Halted`) and a finished pass (`Finished`) are steps of their own, so a state in
which some dispatcher is pended or active and nothing can execute is an error.

**Fairness.** `EdfScheduler`: weak fairness of `Cpu`, the processor executes
something as long as it has something to execute. Nothing is assumed of time or
of the peripherals, and no single handler is fair: that a preempted one gets on
follows from the others finishing. `EdfOnCpq` and `Runtime`: the same. `Cpq`:
weak fairness of "some caller in a pop takes a step", which the processor's
progress gives.

## 4. What goes wrong, and what holds until then

The runs named `Claim_...` check a sentence of a comment or an assertion of the
code and TLC refutes it. `findings` in `PROJECT.json` quotes each.

The main one is a race in `dispatcher_exit`. After the restore of the system
deadline, and until its closing critical section, the exit may hold (or be about
to pop) a job T that is already due to be posted. A timestamper that fires in
this window, for instance that of the task that just completed, compares its own
job C with a system deadline that leaves T out, and posts C although T is more
urgent. Then T is posted as well, at the same level or a lower one: the run
queue slot is overwritten, or the two dispatchers restore in an order other than
the reverse of their posts. The system deadline can stay for good at the
deadline of a completed job (`Claim_minimum`), a full slot can belong to a later
job than the one dequeued, and later arrivals are then queued on an idle system
and not run until something more urgent arrives. `EveryJobCompletes` and `Drains`
exclude behaviours with an overtaken job for this reason.

The history variable `overtaken` marks the first post of a job ahead of a more
urgent waiting one. The order properties hold until then; `OvertakenOnlyInExit`,
checked and proved, says that nothing but this window leads there. Properties
that do not depend on order (`OneJobPerTask`, `QueueNeverFull`,
`WaitingNotUrgent`, `NoSpuriousRun`) hold always.

The others: `Claim_idle`, a job whose absolute deadline is `Timestamp::MAX` is
queued on an idle system; `Claim_bypass`, the comments on bypassing the queue
describe another algorithm, and so does the length they give for the wait queue
(a mutant of `QueueNeverFull` shows that it is too short; the length the code
computes is enough); `Claim_min`, `min_ref` may not return the minimum after a
pop (the scheduler does not use it, and `pop` does not trust it);
`Claim_free`, the second call of the interrupt-free function leaves interrupts
off for good, because `CS` is never cleared; `PendingServed` holds as long as
`main`'s call is the only one, as it is in the repository. The overflow
assertion of `into_scheduled` does fail close to the counter's wrap, which
`Sched_wrap` contains: the system then stops.

`parse/mod.rs:25` says of an `EdfTask` that "Each task gets assigned its own
dispatcher". Of the place in the list that is so, of the interrupt only if the list
names none twice, which nothing checks: with `dispatchers = [A, A]` two tasks are
bound to `A`, and only what compiles the result can object. `DispatchersOwned` says
what is given.

Without a run, because no state is involved: the type error under the feature
`check-missed-deadlines` (section 2); `run_pass`
(`edf_pass/mod.rs:37`) removes an argument named `deadline` while the attribute
is `deadline_us`; and a deadline given in microseconds is compared with the
cycle counter as it is, with the frequency of the core unused.

## 5. What is proved

### The scheduler

For every set of tasks, all deadlines, priorities and vector numbers that meet
`ConstantsAssumption`, any width of the timestamp and any bounds. What the
assumption says of priorities, that they follow the relative deadlines, is what
`PrioritiesByDeadline` proves of the pass below:

| Theorem | Property | Further assumption |
|---|---|---|
| `TypeCorrect` | `TypeOK` | |
| `OneJob` | `OneJobPerTask` | |
| `QueueRoom` | `QueueNeverFull` | |
| `NothingUrgentLeft` | `WaitingNotUrgent` | |
| `NoneSpurious` | `NoSpuriousRun` | |
| `InvariantHolds` | `IInv` | `NoWrap` |
| `DeadlinesStack` | `DeadlineChain` | `NoWrap` |
| `EarliestFirst` | `EarliestDeadlineRuns` | `NoWrap` |
| `OvertakingNeedsAnExit` | `OvertakenOnlyInExit` | `NoWrap` |
| `CheckJudgesTheTask` (of the feature as it is meant, section 2) | `CheckIsExact` | `NoWrap` |
| `IdleIsIdle` | `IdleMeansNoWork` | `NoWrap`, `DeadlinesFit` |
| `SchedulerIsEdf` | `ImplementsEdfMachine` | `NoWrap` |

`NoWrap` says that a behaviour ends before the cycle counter first wraps,
`DeadlinesFit` that no absolute deadline reaches `Timestamp::MAX`.

The argument, in the order of the conjuncts of `IInv`:

1. `Handover`: a task is masked exactly as long as it has a job, and the job is
   in one place. Two facts make this inductive: no hand holds two jobs, and no
   two active dispatchers share a level. The room in the queue follows by
   counting: the tasks in the queue and the one about to join it are distinct.
2. `LineAccounts`: an outstanding job of a level-triggered task has its line up,
   and a pending bit without a line exists only between `exec` and `unpend`.
3. `Served`: a queued job more urgent than the system deadline has an exit that
   will still compare it, or a more urgent one. A robbed exit does not count;
   the robber does, which is why the wait queue is not left unattended.
4. `Dated`: a job's deadline is no later than one counted from now. With `NoWrap`
   an arrival more urgent than a job on the stack then has a shorter relative
   deadline, hence a higher level.
5. `Ordered`: `DeadlineChain` is not inductive alone. A pop may post a job long
   after its arrival, and the post must land above the stack. `UrgentIsHigher`
   says so for each waiting job, `HandIsLater` that a popped job has not been
   passed by a more urgent post below it, and `ServedAbove` sharpens `Served`:
   the exit that will compare the job is above the whole stack. The last is
   what fails when a job is overtaken.

`EdfSchedulerOrderProofs` states each movement of a job as a lemma
(`PushInOrder`, `TakeInOrder`, `RestoreInOrder`, `ArrivalWaitsInOrder`,
`ExitInOrder`, and `KeepInOrder` for the steps that move none) and `OrderedStep`
goes through the actions.

`SchedulerIsEdf` uses the invariant step by step: each action of the scheduler
changes one task's phase in a way `EdfMachine` allows, or none. `DeadlineChain`
and `Ordered` give the comparisons `EdfMachine` asks for; the rest is that the
phases partition the places `Handover` lists.

### The runtime

For any finite set of handlers, any priorities, vectors, resources and users,
every number of levels a part can have (2 to 128) and any bounds, from
`RuntimeAssumption` alone: `RuntimeTypes` (`TypeOK`), `NoLockWaits`
(`LocksNeverWait`), `LockExcludes` (`MutualExclusion`), `SectionsMask`
(`MaskedInside`), `BasepriIsCeiling` (`SystemCeiling`), `PriorityOneLeavesZero`
(`PriorityOneFindsZero`) and `ConfiguredBeforeHandlers` (`ConfiguredFirst`). `TypeOK`
includes that priorities and masks have only implemented bits set
(`ImplementedBits`): the lemma `StorableValues` shows it of every value that is
written, with the cut to eight bits, and `BitsStep` carries it through the steps.

None of these is inductive alone: a lock is right to restore what it read only
if everything that preempted it has restored as well. The contexts under way are
nested strictly by priority, so their frames form one stack, whatever the mix of
locks, sections and handlers. `RuntimeInv` says of this stack:

1. `Configured`, `Positioned`: what holds before `main` has finished, no two
   active handlers share a priority, and frames lie only where code runs.
2. `Masked`: PRIMASK is set above the lowest frame that masks, and each lock above
   such a frame has read it set; once `main` has finished, `OLD_CS` is set in every
   section, which keeps its end from enabling interrupts.
3. `Raised0`, `Kept`: BASEPRI is that of the highest ceiling in force, and what
   each lock and each handler has saved is that of the ceilings *beneath it*.
4. `LocksNeverWait`: a handler is taken only above every ceiling in force
   (`TakenAbove`), and all users of a resource are at or below its ceiling.

Mutual exclusion follows from the last part: of two contexts inside a resource
each would need the higher priority.

`IInv` of `RuntimeInv` was checked by TLC on the instance of `Runtime_locks`; it
is not part of that run, which takes four times as long with it, as it is
proved for every instance.

### The queue

For any capacity, callers, items and keys that meet `CpqAssumption` (`None` is no
item, number or traversal; items may compare equal): `TypeCorrect` (`TypeOK`),
`Accounting` (`NodesAccounted`), `CachedMinimum` (`CachedMinIsStored`),
`SoundTraversal` (`TraversalSound`) and `QueueImplemented`
(`ImplementsWaitQueue`).

`NodesAccounted` speaks of what is reached from the pointers, and is not
inductive: that relinking one node leaves every other reachable, and none
twice, needs their order. The invariant of `CpqInv` says that there *is* an
order:

1. `Threaded`: the links spell out two sequences without repetition, the queue
   from `head` and the free list from `free`, and each node is in one of them.
2. `Filled`: the nodes of the queue hold different items, those of the free list
   none; the last is `tail`, one of them `min`.
3. `Traversed`: the shared cursors are *places* in that order: the cursor is at
   `k`, what the traversal has seen is the first `k` and the second, `min` is a
   least item of those, and `pred` the place before `min`.

The sequences are quantified, not kept in a history variable: each action gives
the new ones from the old (one more at the end; one left out; the freed node in
front), and a few lemmas say when a strung sequence stays so. Where the
properties use what is reached in `i` links, which is a recursive function, a
least counterexample takes the place of an induction. A pop that ends while
others are in it hands over a least item of *all* stored, because then `k` is the
last place; this is what `QueueImplemented` asks.

### The scheduler on the list

`SchedulerImplemented`: the composition `EdfOnCpq` implements `EdfScheduler`
(`ImplementsScheduler`), for all tasks. Its queue steps are the queue's own, so
`QueueImplemented`'s steps are used for the jobs as items; what the composition
adds is that a hand holds what its own pop returned, and that the list, with a
node for each task, is full only when the set of jobs is. By this refinement
what is proved of the scheduler holds of the scheduler on the list, and
is stated there: `OneJobOnList`, `QueueRoomOnList`, `NothingUrgentOnList`, and with
`NoWrap` `EarliestFirstOnList` and `EdfOnList`: the handlers over the linked list
implement preemptive EDF. `CompositionAssumption` adds to the scheduler's own
that `TopLevel` is no task and `None` no job, number or traversal.

### The pass and the generator

For every application, by hand or generated, of any length: `PrioritiesByDeadline`
(`ShorterIsHigher`), `SlotsIndexed` (`RunQueueIndexed`), `OneDispatcherEach`
(`DispatchersOwned`), `RightlyAccepted` (`AcceptsWhatFits`), `SpreadEqually` (`EquallyDistributed`) and `GeneratedCompiles`
(`BenchmarkCompiles`). The last needs `MinPriority <= 1`, which the
`MIN_TASK_PRIORITY` of the only distribution meets: priorities are counted from 1.
`OneDispatcherEach` gives each task a place of its own in the list, and an interrupt
of its own if the list repeats none. `RightlyAccepted` says which applications
compile: those that are well-formed, have dispatchers enough, fit in the levels and in
a `u16`, and name every interrupt by an identifier. `PassAssumption` and
`BenchmarkAssumption` say nothing of the code beyond that deadlines are numbers,
levels are numbers a `u16` holds, and the interrupts of a device are identifiers.

`EdfPassInv` says what each stage leaves to the next: after the parse the tasks
are the declarations; after the assignment (`Laid`) each task is there once, with
one dispatcher, and the priorities are `1 .. n` for `n` deadlines, in their reverse
order; to be accepted is to fit. Three facts about `Assign` carry it:

- `Sorted`: the sort by deadline, stable because ties go by declaration, exists
  (taking the first element off a set, over the size of the set) and is a
  permutation.
- `GroupsFollow`: the running count of changes along the reversed list is the
  same for equal deadlines and grows where they fall.
- `GroupsNumber`: the count takes every value from 1 to the number of different
  deadlines, so that the indexes have no gap and the array no slot unused.

The generator's part is `Spread`: the deadlines before the current one have their
share of tasks, it has `count`, those after it none; the number of tasks is the
sum. At the end either every deadline has its share, or the share was rounded
to 0, each task has a deadline to itself and there are more deadlines than
handlers.

The sort and the count are recursive, or a choice; as induction is out of reach,
each is unfolded at the least number for which the claim would fail
(`LeastNumber`).

`IInv` of `CpqInv` and of `EdfPassInv` was checked by TLC on the instances of
`Queue_pops` and `Pass_assign` before it was proved, and is not part of those runs.

### Only model-checked

The liveness properties (`EveryJobCompletes`, `Drains`, `LineServed`,
`PendingServed`, `TraversalEnds`): they rest on fairness, which the prover does not
reach. Every refuted claim. All other properties of the runs, and with them
every safety property and every refinement, are proved.

## 6. What is not modelled

- Resource locks inside the scheduler's model: `Exec` is one step there. That a
  handler which holds a lock delays others without breaking what they rely on is
  the subject of `Runtime`, in which handlers have no deadlines.
- `rtic-core` and the `cortex-m` crate, which are not in the repository: modelled
  from their use, as external.
- Token output, syntax trees, logging, tracing (`defmt`, `benchmark`): no state
  the properties are about. The example applications are users; they were read
  for the ways interrupts are raised.
- More than one core; the code has one.

## 7. Plan

The order puts the scheduler first, because everything else exists for it.

1. *Done*: `EdfScheduler`, its properties, invariant and proofs.
2. *Done*: `WaitQueue` and `Cpq` with the refinement; `EdfPass`.
3. *Done*: `EdfMachine`, checked and proved to be implemented.
4. *Done*: `EdfOnCpq`, the composition.
5. *Done*: `Runtime`, its invariant and proofs; `BenchmarkApp`.
6. *Done*: proofs about `Cpq` and its refinement of `WaitQueue`.
7. *Done*: proofs about `EdfPass` and `BenchmarkApp`.
8. *Done*: proof of the composition `EdfOnCpq`.
9. The safety half of the liveness properties, as theorems about steps: what each
   step of a traversal, and of an exit, brings nearer to its end.
