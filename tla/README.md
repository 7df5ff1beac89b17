# TLA+ specification of pytest-rs

pytest-rs runs pytest suites with an engine written in Rust. This directory
holds a specification of its core logic: TLA+ modules translated from the
source, TLC configurations that check them on small instances, and theorems
about them checked by TLAPS. Paths below are relative to
`src/crates/pytest-rs-core/src/` unless they name another directory.
`PROJECT.json` lists every component, run, theorem, hazard and finding, and
names for each definition the source lines it stands for.

## 1. Inventory of the system

| component | source | state it keeps | operations | hard part | correct when |
|---|---|---|---|---|---|
| distributed controller | `dist.rs` | work queue, one owner thread per slot, merge loop | next_blocking, push_batches, stop, crash, the owners' loops | threads and processes that die at any point | every collected test is settled once, the run ends, the exit code tells the truth |
| worker mode | `worker.rs` | collected items, previous module and class, failures counted | configure, collect, run a batch, shut down | stops in the middle of a batch | frames arrive in the order the controller relies on |
| worker IPC | `ipc.rs` | two pipes per worker | the frames of ParentMsg and WorkerMsg | end-of-file in the place of any frame | no frame is lost while its writer lives |
| fixture engine | `fixture.rs`, `session.rs`, `runner/fixtures.rs`, `runner/teardown.rs` | registry, value cache, pending finalizers | lookup with overrides, set-up, teardown of a scope, eviction of parametrized values | set-up that fails half-way, values that outlive their parameter | every value is torn down once, after what was built on it, and none is used after |
| run loop | `runner/mod.rs`, `runner/item/*`, `runner/protocol.rs` | previous module, class and package, failure count | run_items, run_one, scope boundaries | early exits: maxfail, stepwise, pytest.exit; reruns | scopes are torn down where the next item leaves them; every item is reported truly |
| hook dispatch | `hooks.rs`, `runner/hooks.rs`, `engine/hooks.rs` | registered hook implementations | ordering, wrappers, reading back what a hook changed | exceptions in hooks, hooks registered twice | a hook runs once, in its order |
| collection | `collect.rs`, `engine/collect/*`, `python/collecting/*` | items, fixtures found, errors | arguments, walk, import, expand, reorder | many ways to name one file or test, errors half-way | each selected test is collected once, in the documented order |
| parametrization and reordering | `python/collecting/parametrize.rs`, `engine/collect/reorder.rs` | items | expand, number the IDs of a mark, reorder by scoped parameters | IDs that collide, two wide parameters | the IDs of one mark differ; a value of a wide parameter is set up as rarely as promised |
| selection | `engine/selection.rs`, `engine/hooks.rs`, `src/crates/pytest-rs-split` | items, deselected items | --deselect, -k, -m, modifyitems hooks, groups | the order in which they apply | groups partition the tests |
| cache plugin | `cache.rs` | last failures, known node IDs, stepwise position, on disk | modify_items, sessionfinish | files of an older run, an edited project | tests that failed run again; only passed tests are skipped |
| session lifecycle | `engine/session.rs`, `engine/lifecycle.rs`, `engine/reporting.rs` | exit code, stage | configure, start, collect, run, finish | some twenty early returns | every run that began is ended, with an honest exit code |
| shim extraction | `python/mod.rs` | files in a directory shared by all runs | write_shim_file | concurrent and killed writers | no importable file is ever truncated |
| asyncio plugin | `src/crates/pytest-rs-asyncio` | event loops by scope instance | get a loop, close loops | lifetimes across scopes | a loop outlives the fixtures that run on it |
| loop on fail, launcher, configuration, terminal, Python bridge, anyio, coverage, mock, benchmark, shims | see `PROJECT.json` | | | | |

Interactions: the controller forks or spawns one worker process per slot; an
owner thread talks to it over two pipes, shares the work queue with the other
owners and the merge loop under one lock, and sends events to the merge loop
over one unbounded channel. A worker runs the same engine as a sequential run:
its loop calls the run loop's `run_one`, which calls the fixture engine and the
hooks, which call plugins and Python. The controller judges the run from the
reports alone; the workers' own exit codes are ignored. A sequential run goes
through the session's stages; what it leaves in the cache directory and in the
shim directory is what the next run, or one at the same time, starts from.

The hazards that follow, each with its line and the properties that cover it,
are in `PROJECT.json`.

## 2. Modules

### Distributed runs

`WorkQueue` (`dist.rs` WorkQueue, QueueState): the queues, the flags and the
restart budget behind the lock. Each method holds the lock for its whole body
and is one action; the two that wait on the condition variable are actions
guarded by what they wait for. `crash` is three actions, one for each
CrashAction it returns.

`Scheduler` (WorkQueue + its clients): what the controller promises about its
tests. A slot is in one of eight states, an owner holds the unfinished part of
a batch (`held`, the code's `remaining`), and the merge loop pushes a plan or
stops. Which worker runs what, what is requeued and who is blamed is complete;
processes, pipes and reports are abstracted away. This is the abstract
specification of the distributed run.

`Dist` (`dist.rs`, `worker.rs`, `ipc.rs`): the whole distributed run. It has a
program counter per owner thread, with an action per frame or lock operation; a
state per worker process, with an action per stretch of code between two frames
(`Scopes`, `Body` and `Teardown` are the three of an item); both pipes as
sequences of frames; the channel; and the merge loop. The Collection arm of the
merge loop is two actions (`MergeDifferent` and its siblings, then
`MergeCount`), because other threads run between its `stop` and its
`push_batches`; `handle_crash` is two (`Book`, `Tell`), because other owners run
between `WorkQueue::crash` and the reports. `Die` removes a process at any
point; what it wrote stays in the pipe. Dist implements Scheduler
(`ImplementsScheduler == S!Spec`, checked and proved): a test has `ran` when its
teardown report has been sent to the merge loop, and is `crashed` when its crash
has been booked; `pushed` is collections_pending having reached zero, and the
slot's state is a function of the owner's program counter.

`DistBatches`: `build_dist_batches_from_nodeids` as operators, one per family
of `--dist` modes. Node IDs are values; a file function and a group function
stand for what the code parses out of them. `BatchPlan` puts it together with
`push_batches`; `Dist` uses it for the plan it pushes.

### One process and its tests

`FixtureDefs`: the registry, and what the engine computes from it for an item:
which definition a name resolves to (overrides included), autouse, the closure
and its order, cache keys, and which parameters a cached value is bound to. An
item names the nodes it lies in: `cls`, `mod`, `pkg` (the directory, which package
scope is about) and `parent`, the Python package whose `__init__` may have
`setup_module`.

`Runner`: the item loop (`run_items`, or `run_batch` in a worker) over a list of
tests: scope boundaries, set-up of the closure one fixture at a time, the cache,
the one vector of pending finalizers, eviction of parametrized values, the
setup_module of a module and of the package around it, the delayed teardown
hook, the event loops of the asyncio plugin, --maxfail, --stepwise and reruns.
`Request` is `resolve_fixture`: a name that the test's own marks parametrize is
its argument and the fixture never runs; a name already on the stack of fixtures
being resolved means what the innermost of them overrides; any other is looked up.
An argument has no finalizer, so its record has no identity (0), but it is in the
record of what a cached value rests on, since the value goes stale with it.
An action is a call into user code (a fixture
body, a test, a finalizer) with the engine's work up to the next one, so that
each such call may fail.

`FixtureLife`: what the engine promises a fixture with a teardown, in three
actions: a value is set up once, on values that are there; it is finished only
when nothing built on it is left; and at the end a run may leave values behind
that are never finished, together with all that was built on them (`Leave`).
`Runner` implements it (`Implements == Life!Spec`, checked and proved): values
are numbered in the order they are built, the live ones are those that have a
finalizer, and the end (`over`) is when only the teardown of the session is left
to do.

`Outcome`: what one item reports, from its marks, the behaviour of its phases and
the hooks that replace or repeat its protocol.

### A run and the next one

`Generate` (parametrize marks and generate hooks, IDs, fixture parameters, the
reordering by scope), `Collection` (arguments, the walk, modules, classes,
doctests, custom files, errors), `Plugins` and `Conftests` (what is loaded before
collection), `Selection` (--deselect, -k, -m, the modifyitems hooks, the groups
of pytest-split, --lf, --ff, --nf, --sw and what the cache stores): operators.
A plugin is told by the name it is loaded by, as in `load_named_plugins`; a module
with two names (`pytester`, by the fallback to `_pytest.NAME`, and
`_pytest.pytester`) is two plugins there and here.

`Session` puts them together, with Outcome, into runs: boot, plugins, configure,
start, collect, errors, select, run or its replacements, finish, with every way
to leave early. A scenario is a sequence of runs over a project that is edited
between them; the cache of one run is what the next one reads. In a project a
module is a record of what importing it yields, and a test has a set of possible
behaviours of which each attempt takes one. `Lists` holds what these modules do
with lists (filter, sort, extend a record), and `Folding` is a loop over a list,
for any step, with what is proved about it once for all.

### Shared files

`ShimFiles`: the extraction of the embedded Python files by processes that run
at the same time and may be killed at any point. Files hold a number of bytes.

### Checking and proving

`MCScheduler`, `MCDist`, `MCBatchPlan`, `MCRunner`, `MCSession` and
`MCShimFiles` give the constants values. `QueueProofs` (about `WorkQueue` and
`DistBatches`), `SchedulerProofs`, `BatchPlanProofs`, `DistProofs` (with the
refinement), `RunnerProofs` (with the theorems about `FixtureLife`),
`SessionProofs`, `Folding` and `ShimFilesProofs` hold theorems and lemmas.
Operators whose names start with `Mut` are the definition next to them with a
seeded fault (a dropped wait, a missing clear, an off-by-one); `PROJECT.json`
says which property notices each.

## 3. Runs

| run | states | instance | shows |
|---|---|---|---|
| `scheduler` | 4,943 | 2 slots, budget 2, plans of 5 tests in 3 batches or none | ownership, conservation and the inductive invariant under every interleaving of takes, crashes, requeues and stops |
| `batch_plan` | 7,384 | 2 workers, up to 5 items in 3 files and a group, up to 25 without scopes | each mode but `each` partitions the tests, keeps scopes whole and neighbours together |
| `dist_crash` | 105,935 | 2 workers, 3 tests (batches of 2 and 1), 1 crash, budget 1 | refinement; one verdict per test; exit code 0 only when all ran |
| `dist_faults` | 62,374 | a forked and a spawned worker, collections that may differ, 3 deaths, budget 1, spawn failures, failing scope teardowns | the run ends and nobody is left behind; failures surface; mismatches run nothing; one abort is reported |
| `dist_stop` | 85,382 | 2 workers, 3 batches, tests that fail or exit, `--maxfail=2` | no batch after a worker left its loop; interrupts end the run |
| `runner` | 168,029 | 16 lists of 2 to 5 tests, both loops, up to 2 failures anywhere | what a test is given is live, finalizers run dependents first and all of them run; implements FixtureLife |
| `session` | 7,770 | 35 scenarios of 1 to 7 runs | exit codes, the cache, stepwise, order, groups, IDs, closing hooks |
| `shim` | 95,772 | 3 processes, 2 files of 2 and 1 bytes | nobody imports a truncated file |
| `batch_each`, `dist_exit_code`, `dist_budget`, `runner_stale` | | smallest instances | the findings of section 5 |

Why these bounds are enough for what they ask.

*Distribution.* Two slots give every pair of concurrent owners, and nothing in
the queue relates three. A batch of two has a running test and a remainder, the
batch behind it shows whether a requeue keeps its place. A budget of one with
three deaths has a crash that is replaced, one that aborts and one after the
abort. Three tests with `--maxfail=2` let the limit be reached by one worker or
only by the sum of two. For the plans, three files on two workers give one of
them two scopes to order, and 25 items reach a chunk of three and a short last
chunk of either parity.

*Runner.* Each list (`modparams`, `clsparams`, `stale`, `sesparams`,
`overrides`, `packages`, `async`, `refusals`, `widened`, `seswide`, `loose`,
`pkghooks`, `arguments`, `loosearguments`, `chain`, `classloops` in `MCRunner`)
is made for one way lifetimes can cross: parameters of each scope over
dependants of the same, a narrower and a wider one, a file that overrides what
it builds on, a package over two files, loops wider and narrower than the
fixture's scope, requests the engine refuses, parametrizations wider and
narrower than the fixture they are for, setup_module of a package above that of
its modules, arguments of module and of function scope in the place of a fixture
that wider fixtures ask for, an override that comes back to its own name through
another fixture, class loops that plain functions share. Two faults
(`MaxFaults`) let a finalizer fail after a fixture or a test did, and two
finalizers in one scope. `MaxValue` is above what any list builds.

*Session.* A scenario (`MCSession`) is made for one interaction, and the runs in
it are those that interact: two runs show what the cache carries over, a third
what a second edit or a partial run makes of it. Behaviours are enumerated, so
each scenario covers all combinations of outcomes of its two to five tests.
Faults of the lifecycle are enumerated from the code's early returns.

*Shim.* Process IDs are symmetric; a third process sees two others at work on
one file; a file of two bytes can be half written and one of one byte cannot.

`CHECK_DEADLOCK FALSE` stands only where the modelled part may stop: Scheduler
(all owners are home), BatchPlan (one step) and Runner (the list is done). In
Dist and Session the end is an explicit step (`Terminated`, `Over`), and
ShimFiles never stops.

Fairness. Dist (`FairSpec`): weak fairness of each worker process's steps, of
each owner thread's and of the merge loop's. Threads and processes are scheduled
by the operating system; a step of a worker is a test body, so the assumption
includes that tests terminate. Deaths are never fair. Weak fairness suffices
since whatever enables a waiting step (a frame in a pipe, end-of-file, a queue
flag) is only taken away by that thread itself. Runner: weak fairness of its
next-state action, one thread whose calls into user code return. The other
specifications have none, and no liveness property.


## 4. Proofs

TLAPS proves the following for every value of the constants that satisfies the
named assumptions. Where a theorem states a property of a run, the run has
found it true of a small instance first.

### The queue and its clients (`QueueProofs`, `SchedulerProofs`)

For every number of workers, every restart budget (negative ones too) and every
set of plans, from three assumptions:

* `NumWorkersAssumption`: there is a worker; the code comes here only with
  `-n` of at least one.
* `MaxRestartAssumption`: the budget is an integer.
* `PlansAssumption`: a plan names no test twice. It holds of what
  `build_dist_batches_from_nodeids` returns for distinct node IDs
  (`BuildBatchesApart`, and `PlansApart` for the plans of Dist), except under
  `--dist each`, which is outside the theorems.

The theorems: `TypeCorrect`, `Inductive`, `ExclusiveOwnership`, `NeverRunAgain`,
`AbortEmptiesQueues`, `Conservation`, `EveryTestSettled`, `StopIsFinal`.

A slot's pending tests are what its owner holds followed by its queue. Every
operation either moves tests inside one slot (take, requeue), removes them (a
completed or blamed test, a stop), or, once, deals the plan. The lemmas
`TakeMoves`, `CompleteMoves`, `RequeueMoves`, `DropMoves`, `ClearMoves` and
`PushMoves` say of each how it changes the set of pending tests and that no test
appears twice; `ShareUnique` and `ShareCovers` are the arithmetic of the
round-robin shares. `OwnershipKept` combines them: a step that settles a set of
tests and removes it from the pending ones preserves ownership, settlement and
conservation at once.

The invariants are not inductive alone. Push overwrites `plan` and would break
`NothingLost` if anything had been pending before, hence `NothingBeforePush`;
Take overwrites what the owner holds, hence `HeldInWork`; and `AllSettled` needs
that an owner goes home only when its queue is empty, `GoneEmpty`, which holds
because a stop or an abort (`Refused`) is the only other reason to go. `IndInv`
is their conjunction with `TypeOK`; the `scheduler` run checks it.

### The plan (`QueueProofs`, `BatchPlanProofs`)

`BuildBatchesBatches`: whatever the mode, the batches hold collected tests and
none is empty. `GroupedBatches`: the items of one file, scope or group are in one
batch, in collection order. `BatchScopesTogether` carries it over the dealing,
for every collection and every number of workers (`JobsAssumption`: what a job
collects is a sequence of tests). They rest on `InOrderPositions`
(the groups in the order of their first item, `Ranked`, are all groups, each
once, `InOrderOnce`) and `LongestFirstBatches` (sorting by length permutes the
batches). `BuildBatchesApart`: whatever the mode but `each`, no test of a
collection without repetitions is in two batches or twice in one;
`BuildBatchesEmpty`: nothing comes of an empty collection. These two are what
the refinement asks of the plan.

`BatchPartitioned`: whatever the mode but `each`, a test has as many places among
the workers' batches as in the collection, for collections with repetitions too.
The batches are a `Cut` of the collection: each place in a batch stands for a
position of the collection, no two for the same one, and every position has a
place (`GroupedCut`, `ChunksCut`, `LongestFirstCut`). Dealing puts each batch in
one queue (`Dealt`), so the two sets of places have the same number of elements.
`BatchNeighboursTogether`: under `--dist load`, with two tests per worker or more,
a batch is a stretch of the collection of at least two tests, but for the last
test alone, and every worker is given one of two or more (`ChunkRuns`: as many
full chunks fit as there are workers).

### The distributed run (`DistProofs`)

`DistTypes`, `DistNothingLeftBehind` and `DistNoRunAfterLeave`, for every number
of workers, every collection, every pattern of deaths and spawn failures and
every limit, from `DistAssumption`, `NumWorkersAssumption` and
`MaxRestartAssumption`. The invariant is `Types`, finer than `TypeOK` (no batch
is empty; a process at an item has one), with `Protocol`: for each worker,
`Known(w)` says what the owner's program counter tells about the process and the
frames in both pipes. An owner that waits for the collection has sent
nothing but the configuration; one that waits for reports has sent one batch,
which is in the pipe, in work, or answered by the frames still to be read; one
that has gone has seen the end of the pipe. Neither property holds for a reason
found on one side only: the run ends when all owners have left, and that nothing
is left behind follows from what an owner that leaves knows of its process; that
a worker leaves its loop without a batch in its input follows from the owner not
sending after it has read, or will read, the frame the worker leaves with.

### Dist implements Scheduler (`DistProofs`)

`DistImplementsScheduler` (`Spec => ImplementsScheduler`), from the assumptions
of `DistProofs` and `PlanAssumption`: a collection names a test once, and the
mode is not `each`. Duplicate node IDs are thereby outside it.

The initial states map to the initial state (`InitImplements`), and every step
to a step of Scheduler or a stutter (`NextSees`), under the invariant `Types`
and `Ledger`. The ledger has an account of each slot and one of the collections:

* `Tally(w)`: what the owner holds, what the worker has still to run and the
  frames between them fit together. The central clause is `Counts`: the teardown
  reports in the pipe, read in their order, are those of the first tests of
  `held`, in their order. Hence `retain` drops the first test, as Scheduler's
  `Complete` does; at "done" nothing is left, unless the run has stopped; the
  scope report that follows the last test of a scope names none still held; and
  what a dead worker leaves is a suffix of `held` whose first test is the one
  that ran. It needs that a slot's tests are distinct, which is why the
  assumption about collections is there.
* `Awaited`, `Virgin` and `EmptyTold`: `collections_pending` is the number of
  slots that have not collected, plus the collections in the channel, plus the
  one being counted; nothing runs before the push; and a slot without a worker
  sends an empty collection, so that the plan is empty or the run is stopped.
  Hence Scheduler's condition on `Push`.

An owner's step disturbs its own account only (`TallyStays`), so the proof that
the ledger is kept has one lemma per action about one slot, and one per action
of the merge loop.

Scheduler's assumption about its plans is proved here for the plans of Dist
(`PlansApart`), and with the refinement the theorems of `SchedulerProofs` are
theorems of the distributed run: `SP` is the instance of `SchedulerProofs` under
the refinement mapping, `RunsScheduler` that a distributed run is one of its
behaviours, `SchedulerInvariant` that its inductive invariant holds throughout.

On it stand the two verdicts. `DistOneVerdict`: a test has at most one teardown
report or one report of a crash, never both. Scheduler settles a test once; what
is added here is the way of the report: `Once` says that a teardown report is
sent, or on its way to the merge loop, only for what Scheduler has as run, that
there is one of them, and that the crash of a test is told once after it was
booked; a step that sends a second one would settle a settled test.
`DistOkMeansAllRan`: a run that exits with success, was not interrupted and lost
no slot ran all it collected. The exit code is a function of what the merge loop
has counted; `Marks` ties its counters to the queue (a stop or an abort is marked
before the code is computed), so that at the end Scheduler's `AllSettled` applies
and no crash was told.

Two more theorems follow. `DistMismatchRunsNothing`: until the push, and after a
mismatch, no batch is with an owner, in a pipe or at a worker (`Idle`); a mismatch
comes before the push, since one collection is still awaited, and stops the
queue. `DistSilentAfterAbort` is read off the refinement: of Scheduler's steps
only a replacing or an aborting crash blames a test, and neither is possible
after the abort.

### The run loop and the fixture engine (`RunnerProofs`)

For every registry of fixtures, every list of tests, either loop, every
`--maxfail`, `--stepwise` and number of attempts, and every choice of failing
fixtures, tests and finalizers, from `RunnerAssumption` (the options are of their
types) and `SuitesAssumption`: scopes are scopes, no parameter value is the mark
for none, a name is parametrized for a fixture or directly, a parametrization
with a scope sort key is above function scope, a class lies in one module, a
module in one directory and one package, and no module is called like a package.

Each invariant rests on those before it:

* `Types`: finer than `TypeOK` (`RunnerTypes`). An item index beyond the list
  only at the end, teardowns due in four places only, attempts counted from 0.
* `HooksTold` (`RunnerHookSawFinal`): the only hook that may not have seen an
  item's report as it is now is the one held back, and that of the last item
  whose report still says passed is held back. A failing boundary changes the
  report of that item only.
* `Nested`: where things belong. What has a finalizer or is cached belongs to a
  node of the current item, or the teardown of its node is on the agenda
  (`Due`). `ParamsNested` says it of session-scoped parameters in the local loop:
  used by the item, or due after it. At the end the agenda holds the rest, hence
  `RunnerAllTornDown`, with what the loops leave behind said by `LeftBehind`. The
  finalizer of a package's setup_module has module scope, but the package for its
  node (`OfParent`): only the local loop has a teardown that matches it
  (`IsTorn`).
* `LoopsNested` (`RunnerLoopsOutliveFixtures`): the loop of a fixture carries the
  module of the item that made it, which is that of every node the fixture can be
  kept for, so that when the plugin closes a module's loops nothing of it is left.
* `TasksOK`: what can be on the agenda, and that the narrower scope stands before
  the wider one, apart from the module task of a package. `XunitNested`
  (`RunnerXunitReady`): a module or package whose setup_module is recorded has its
  finalizer until the run leaves it for the first time.
* `KeysNested`, `KeptOnce` (`RunnerOneValueAtATime`): the key of a value has its
  scope and node; a value for a parameter carries the parametrization it moves
  with and is kept no longer than any it carries (`Carries`): each has the value
  that the current item has, or the teardown of what carries it is due
  (`BindKept`). What has a finalizer is cached under its key, and the key of a
  fixture being resolved is not cached.
* `RecsOK`, `RestsOK`, `LiveOK` (`RunnerUsesLive`): a record of what a cached
  value rests on tells the truth about it; unless it is hidden, the cached value
  is kept no longer and moves with at least the same parametrizations
  (`RestsBelow`); so a teardown that finishes the one takes the other with it, or
  another that is due does (`Carried`). `DirectOK` is about arguments, which no
  teardown finishes: a cached value that rests on one moves with the
  parametrization of that argument, so it is there only for the items that have
  the same argument (`GoesWith`).
* `Numbered`, `BuiltBelow`, `SessionLast` (`RunnerImplements`): finalizers stand
  in the order their values were made, a value is built on earlier ones, below
  which it is kept, and the session's teardown is the last. `LifeStep`: a body
  with a finalizer is `SetUp` on values that are there (`BuiltAlive`), a finalizer
  is `Finish` (`FinishStep`): a value built on the one that goes would match the
  same teardown (`GoesFirst`) and is younger, but the youngest is taken; and the
  moment only the session's teardown is left is `Leave` (`LeaveStep`). Everything
  else stutters.

`UsesLive` and `OneValueAtATime` speak of the local loop under `ParamsFit` where
they are about parameters; the attempt to prove them without showed the cases
listed in section 5 under fixtures. What the fixture closure of an item is, which
recursion over the registry computes, does not matter to these proofs: they hold
whatever names are set up, in whatever order.

### The abstract engine and shared files

In `RunnerProofs`: types (`LifeTypes`), `LifeNothingMissing` (what a live value
was built on is live) and `LifeOnceOnly`, for every set of values. Since Runner
implements FixtureLife they hold of the fixture engine (`RunnerNothingMissing`).

`ShimFilesProofs`: for every set of processes and files of every length, no
process imports a truncated file (`ShimImportsWhole`) and no file that others may
import is written in place (`ShimNeverTorn`). The inductive invariant adds to
the types what a process has behind it (`Passed`): every file it went past is
whole and stays so. The model assumes what the code's comment does: live
processes have distinct PIDs, nobody else deletes the directory, and a killed
writer leaves a prefix.

### Runs one after the other (`SessionProofs`, `Folding`)

For every project, every options and every behaviour of the tests, from three
assumptions, all of them about the form of the input:

* `ScenariosAssumption`: lists are lists, paths are sequences of numbers,
  directories are finitely many, numbers are what the code has as unsigned.
* `ItemsAssumption`: what collection returns is a list of items, each with the
  node ID of its own file, a list of sort keys, a place in the order of node IDs,
  and the highest scope its keys have. The types say so in the code
  (`Vec<TestItem>`; the node ID is built from the file's path in
  `python/collecting/items.rs`; `top` is the maximum in
  `python/collecting/parametrize.rs:822-845`). It is an assumption because the
  walk over classes and suites recurses, and what a recursive definition computes
  for every input is beyond the installed provers. Everything else that
  collection does (conftests, plugins, arguments, files, errors) is proved about.
* `MaxEventsAssumption`: the bound of TypeOK on the hooks of a run is at least
  the seven a run can have.

A loop over a list is a fold in the model. `Folding` proves, for any step, that a
fold goes through one state per element (`FoldTrace`), that what holds at first
and survives each step holds at last (`FoldHolds`), and that one element more is
one step more (`FoldAppend`); each loop of collection, selection and reordering
instantiates it. Induction over the numbers is a hypothesis there, since an
instance would repeat all of the library it comes from; it is proved as
`NaturalInduction` and cited with each use.

The invariants, each on those before it:

* `HooksOK` (`CleanEndHolds`): which hooks have been called at each stage, which
  are still to come, each once; the position is 0 outside the loop and after it.
  Each of the early returns repeats its own part of the end, so there is a lemma
  per action about what its last hooks make of the list.
* `RunsOK` and `ColOK` (`PluginsOnceHolds`): which run is in progress, and that
  the registered plugins are a list without repetitions. The proof follows the
  registry through everything that loads: the command line, the environment,
  entry points, conftests, and the test files, whose plugins load further
  plugins by themselves.
* `ListsOK` and `LoopOK` (`ExitCodeHolds`): up to the position, every item has a
  verdict; one that failed has a failed report; one that reported nothing has
  stopped the session; a loop that ended early has a code, a failure or a
  replacement to show for it. An error of collection is a failed report before
  the run goes on. So a run that ends with 0 had nothing to hide, with the
  exceptions that `ExitCodeHonest` names.
* `CodesOK`, `CachesOK` (`TypesHold`): a run that ended has a code; the caches
  have their fields, and the last failures are without repetitions, which comes
  from the rule by which `cache.rs` replays the reports (`SavedFacts`).
* `OrderedOK` (`ReorderHolds`): what is run is the reordering of what was
  collected. `reorder.rs` moves items between a queue, the slice it takes and
  what it puts aside, scope by scope (`SliceOK`, `PassesKeep`, `ScopesKeep`):
  every index is in one of the three, once.
* `LfOK` (`LfExactHolds`): what --lf leaves of the items in order; skipping whole
  files without a remembered failure changes nothing of it.
* `DurationsOK` (`SplitHolds`): stored durations are numbers. For the default
  algorithm, cutting by the running sum at increasing bounds gives consecutive
  pieces; for the least-duration one, each item goes to one group and each group
  is sorted again.
* `TruthOK` and `KeptOK` (`LastFailedHolds`): a test that ran has the reports its
  verdict says, a test that did not run has none, and once saved the cache holds
  the replay of the reports. A node is remembered by the replay when some report
  adds it and none after it removes it, or when it was remembered and none removes
  it (`RememberedTells`, an instance of Folding). The verdict is taken from what
  the test reports after its last rerun, the phases of subtests apart
  (`OwnReports`).

### Only model-checked

* Liveness under fairness, which is out of the prover's reach: of Dist
  `Termination`, `InterruptHonoured` and `FailureSurfaces`; of Runner `Finishes`.
* `StepwiseSkipsOnlyPassed`: it relates the cache to what the tests did in any of
  the runs before. The attempt to prove it showed it false in general: the
  behaviours that break it are scenarios of the `session` run, the conditions that
  exclude them are named in the property (runs with unlike options, or a protocol
  hook that raises) and the behaviours are described in section 5.
* `MarkIdsUnique`: an item is what the walk over a module's classes makes of it,
  which recurses. It is about the sets of one parametrize mark. Node IDs as such
  need not be unique: the IDs of stacked marks and of fixture parameters are
  joined without a second look (`IdsProject` in `MCSession` has two marks, and a
  fixture, that give two items one ID).
* `ReorderGroups`, the other half of `ReorderOK`: TLC showed its first form, that
  the items sharing any wide parameter are together, to be false (a slice of a
  wider scope may part those of a narrower one); it now speaks of the widest
  scope in use.

## 5. Where the code and its documentation part

Each of these is a run TLC finds violated, with its trace.

* `batch_each`: `--dist each` does not give every worker every test
  (`dist.rs:889`; said at `dist.rs:20`).
* `dist_exit_code`: the exit code of `pytest.exit(returncode=...)` in a worker is
  overwritten with 2 (`dist.rs:466`; said at `ipc.rs:36`).
* `dist_budget`: a replacement that dies before its collection is not replaced
  and its slot's tests silently do not run (`dist.rs:1604`; said at
  `dist.rs:1360`).
* `runner_stale`: a worker keeps fixtures built on the previous value of a
  module-scoped parameter (`worker.rs:678`; said at
  `runner/fixtures.rs:770-772`).

Noticed while translating, without a run of their own. The modules follow the
code in all that they model.

Distribution:

* The queue is not work-stealing (`dist.rs:2` and `src/docs/DESIGN.md` say it
  is; `next_blocking` pops its own slot's queue), and `--dist load` dispatches
  chunks, not single tests (`dist.rs:18` against `dist.rs:840`).
* A worker that dies between two batches has the first test of the next one
  blamed; an abort that leaves no unfinished test may end with exit code 0 and a
  banner.
* A worker leaves its batch early only for `--maxfail`; after `pytest.exit` it
  runs the rest of the batch (`worker.rs:780`, said at `ipc.rs:36`).
* A worker's last teardown (`worker.rs:539-585`, "mirror run_items") covers
  neither package-scoped fixtures nor session parameters nor the
  `teardown_module` of a package, and no boundary in `run_batch` does: they
  never run under `-n` (`LeftBehind` names them). A worker also counts the
  failed attempts of a rerun toward `--maxfail`.

Fixtures and the item loop:

* A session deadline ends the loop (`runner/mod.rs:578-583`), but
  `finish_session` judges by failed reports only: the exit code is 0 although
  tests did not run. `ExitCodeHonest` leaves this case out by name.
* `finish_session` (`engine/session.rs:455-459`) counts rerun reports, so a test
  that passes on its rerun gives exit code 1, while `runner/mod.rs:444-445` says
  such a report is "never counted as a failure".
* `pytest.exit()` or Ctrl-C inside a fixture is a failed set-up and the session
  goes on (`runner/item/body.rs:288-309` against its comment at 14); a
  `session.shouldstop` is looked at only after the last item.
* Bindings of a cached fixture leave out session parameters, and an override
  that requests the fixture it overrides misses what that one depends on
  (`fixture.rs:282-299`). Leaving the loop early leaves a session parameter's
  instance pending.
* When a boundary teardown reaches `--maxfail`, the next item still runs.
* `finish_session` looks at a requested stop only after it has returned for a
  sessionfinish hook that exits (`engine/session.rs:487-489`), and only with a
  terminal: otherwise the exit code may be 0 although a test reported nothing.
  `ExitCodeHonest` asks about unreported tests only where it looks.
* A function-scoped fixture that `parametrize(indirect=True, scope=...)` widens
  is checked for what it requests by its own scope (`runner/fixtures.rs:699-715`)
  and cached by the wider one (733-750): a narrower fixture it requested is
  finished while the value built on it is still handed out.
* `parametrize(indirect=True, scope="session")` over a fixture that is not
  session-scoped is never torn down: `runner/mod.rs:542-576` looks at the
  declared scope, while `runner/fixtures.rs:733` and 752 speak of the
  parametrization's.
* A parametrization narrower than its fixture's scope, or of different scopes for
  different tests, keeps values built on the previous parameter, or two values of
  one fixture; a test that asks for a parametrized fixture without a parameter
  sets up another value beside it.
* In a worker a package-scoped or session-parametrized value stays when the
  session fixture it was built on is finished, and so does a session-parametrized
  one of the local loop that stops early.
* Failures of claimed (async) fixtures are not cached. A failing lifecycle hook
  leaves a finalizer pending without a cache entry.
* The xunit state lives for the session: coming back to a module, or to the
  package around it, runs its tests after `teardown_module`.
* A fixture built on a directly parametrized argument of function scope is cached
  by its own scope and handed to the next test with the first one's argument
  (`loosearguments` in `MCRunner`; `UsesLive` is about values that are recorded
  with what they move with).
* Plain functions share the loop of class scope with the other functions of their
  file (`src/crates/pytest-rs-asyncio/src/lib.rs` 354-358).
* A loop whose scope is narrower than its fixture's cache is closed before the
  fixture's finalizer. Leases of the anyio plugin share one runner, made for the
  backend of the first.

The cache:

* A strict-less xpass does not take a test off the last failures; a run of a
  duplicated node ID that passes forgets the failure of the other; failures of
  unittest subtests are forgotten.
* With `--sw`, an aborted collection overwrites the resume point;
  `--sw-skip` stores the ignored failure; with `--nf`, or after renaming tests
  without changing their number, tests that never ran are skipped as "already
  passed", as is an item that reported nothing.
* Under `-n` the controller has no items, so `--lf` and `--nf` do not apply.
* A test that failed and whose tear-down report is then xfailed is taken off the
  last failures (`cache.rs:332` replays the reports in order, as pytest does).
* A usage error raised by a protocol hook only asks the session to stop, and an
  internal error ends it without its sessionfinish, so that the cache is not
  saved: a test left unreported by the first, or a --stepwise-reset lost by the
  second, makes a later --stepwise skip tests as "already passed".

Collection and plugins:

* `--ignore` and `norecursedirs` do not apply to the walks for doctests, text
  files and collect hooks (`engine/collect.rs` 617-816).
* A `pytest_collect_file` hook makes all items be sorted by path and line,
  losing the order of the arguments (`engine/collect/reorder.rs:206-210`).
* Reordering keeps the items of the widest scope in use together; a slice of a
  wider scope may part those that share a value of a narrower one, which is then
  set up twice (as in pytest).
* Stacked parametrize marks, or a fixture with two params written alike
  (`python/fixtures.rs` 702-735), can give two items one ID, and the read-back
  after a modifyitems hook pops by ID, so a hook that drops one of two
  duplicates may drop the other's function.
* A collection error in the middle of a module keeps the items before it.
* A nested conftest with `pytest_plugins` is one error per start directory;
  a module loaded under two names registers its hooks twice; a plugin name that
  does not exist is passed over silently; an entry point may
  register the fixtures of a plugin already loaded; `-p no:X` does not block
  plugins named by the environment or by modules.
* `pytest_unconfigure` does not fire when no test was found, without a terminal
  reporter, after an aborted collection or with `--collect-only`.

## 6. Not modelled, and why

`PROJECT.json` has a note per component. In short: configuration and the
terminal's text are parsing and formatting; the launcher starts a process; loop
on fail polls the file system; the anyio, coverage, mock and benchmark plugins
and the embedded Python shims are mostly calls into Python, whose semantics the
source does not hold; `pytester`'s nested sessions are a run inside a run.

In Dist: the Output, Extra, Warnings and Workeroutput frames, which are passed
on; set-up reports that pass; collection errors and skips, which only add
reports; the capacity of pipes (a writer never blocks in the model, so a
deadlock of two full pipes is outside it); file descriptors inherited by forked
workers; collections with one node ID twice. What a worker collects, whether a
test fails and how many teardowns fail are choices from sets. Dist and Outcome
are not composed: an item in a worker has the reports its behaviour chooses.

In Runner: `request.addfinalizer` and `getfixturevalue`, values injected for a
fixture by pytest-bdd, the builtin `pytestconfig`, the setup hooks of classes,
methods and functions (`python/fixtures.rs` 195-258; those of modules and packages
are modelled), doctests in text files, which have no module, and loops told apart
by a loop factory or an event loop policy.
In Session: what a generate hook adds to the fixtures of a test is a given list of
names without repetitions (`ExtraFixtures`); the `test*` directories below a start
directory come in the order of their names (`TestDirs`), where the code takes them
as the file system lists them;
 `--cache-show`, `--cache-clear` and the import modes; doctests and
custom files are items with behaviours of their own, not parsed text.

## 7. What could come next

* `StepwiseSkipsOnlyPassed` as a theorem, and the walk over classes as a function
  on finite depth in place of its recursion, for `MarkIdsUnique`.
* Pipes of bounded capacity in Dist, for the deadlock of two full pipes.
* Outcome inside the workers of Dist, so that reruns and unittest subtests meet
  crashes and `--maxfail`.
