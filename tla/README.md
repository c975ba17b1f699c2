# TLA+ models of the Path64 compiler

The repository is the PathScale Path64 compiler (about 3 million lines, of
which a third is vendored GCC). Most of it is sequential translation: front
ends, optimizers and a code generator that rewrite large trees, where no small
instance keeps what makes the code right or wrong. This project is about the
parts that are small, keep state over many steps and are hard to test:

- the **OpenMP runtime**, `src/src/libopenmp` (about 7000 lines), which is
  concurrent throughout;
- the **compiler driver**, `src/src/driver`, which runs child processes that may
  fail in any way, and cleans up after them;
- the **memory pools** of the compiler, `src/src/common/util/memory.c`, from
  which every other part takes its memory.

## Inventory

| Part | Where | Here |
| --- | --- | --- |
| waiting and waking of threads | `thread.c` 76-166 | modelled, proved |
| team barrier | `thread.c` 706-736 | modelled, proved |
| parallel regions, thread pool, manager | `thread.c`, `team.c`, `manager.c`, `idstack.h` | partly: no binding, stacks, serialized regions, shutdown |
| critical constructs | `lock.c`, `lock.h` | modelled, proved |
| locks of the OMP API, plain and nestable | `omp.c`, `lock.h` | partly: one lock that exists; proved |
| static schedules | `schedule.c`, `loop.c` | modelled |
| run-time schedules, ordered | `schedule.c`, `loop.c` | modelled, for teams of two and more; proved |
| single, copyprivate, threadprivate, copyin | `thread.c` 738-999 | partly: no disabled mode, teams of one, nested regions; proved |
| one run of the driver | `main.c`, `phases.c`, `run.c`, `errors.c`, `file_names.c`, ... | partly: see Driver below; proved |
| memory pools | `memory.c`, `mempool.h` | partly: regular pools; what they implement is proved about |
| everything else | | not modelled, see the end |

`PROJECT.json` lists every part with the reason for what is left out, the source
lines of every definition, and the hazards of the code at their lines.

The release build defines `NDEBUG` (`src/CMakeLists.txt`), so the assertions of
the code are properties here and never guards. StaticLoop is the exception: it
has builds with and without assertions, and those with them end at one that fails.

## Modules

### The OpenMP runtime

**ThreadSync** has the steps of `__pmp_thread_wait` and `__pmp_thread_wake`:
spinning, the exchange IDLE to BLOCKED, `sigwait`; the exchange IDLE to
UNBLOCKED, the store of IDLE, the signal. `wait[t]` and `wake[t]` say where a
thread is in a call, `pending[t]` is the signal. **WaitWake** is its most
general use: threads are created, wait, and anybody wakes a thread that has no
wake-up outstanding (`credit`). **WakeSpec** is a binary semaphore per thread.

**TeamBarrier** is `__pmp_thread_barrier` on top of ThreadSync, **BarrierSpec**
what a barrier promises.

**ForkJoin** is `__ompc_fork` with all it calls. It uses the semaphore
(`token`), which WaitWake is proved to implement. The sections under `idlock`
are single actions; every atomic instruction outside them is an action of its
own, in particular the two of `__pmp_thread_acquire` and those of the creation
of threads. The program is a sequence of team sizes (`forks`): whichever thread
forks next asks for the size at its head.

**Critical** is `__ompc_critical` and `__ompc_end_critical` with the lock under
it, which spins or is a mutex (`lock_spin`), **MutexSpec** mutual exclusion.

**UserLock** is one lock of the program, plain or nestable, in both modes, under
`omp_set_`, `omp_test_` and `omp_unset_`. The exchange, the plain increments of
`lock->nest` and the release are separate steps. `depth[t]` is what the thread
holds by its calls; `levels` is what the recursive mutex has counted.

**PrivateData** is the rest of what a team does together: `__ompc_get_thdprv`
with the race for the table, `__ompc_copyin_thdprv`, `__pmp_thread_single` and
`__ompc_copyprivate`. Its barriers are those of BarrierSpec, which TeamBarrier
is proved to implement. The order of the calls is the one the compiler emits
(`be/com/wn_mp.cxx`): a barrier after a copyin, and after a single without
nowait. Values are numbered: 0 is the static data, 1 what the serial code
stores, k + 1 what the winner of construct k stores.

**Schedules** has the arithmetic of the schedules. **StaticLoop** lets every
thread of a team walk its share, and counts as `__pmp_stop_check` does. A loop
that is empty by more than one step (up from 1 to -8) has a negative size. With
assertions `__pmp_static_init` ends the program there, as does the analyser at a
share of chunk 0, and with loops being checked `__pmp_start_check` cannot allocate
its array (`Stop`); `assertions` and `check` say which build it is. The release
build has neither and runs every loop.
**LoopTeam** is a team that runs a program of loops with the structures of
`team->loops`: claimed, filled, published, found, used, freed and reused. One
action is one access to shared memory: the guided schedule reads `chunk`, reads
`current`, adds to `current` and exchanges `chunk` in four steps. Locals that
the code does not read any more are set to 0, which only merges states.

### The driver

**Driver** is one run over a command line: `main` and its loop over the sources,
`determine_phase_order`, `run_compiler`, `run_phase` with what it does for each
status of a child, the errors of `errors.c` (which are cleared between sources),
the second try of a back end that ran into its limits, the inliner that the
front end may ask for, the Fortran front end whose status is put aside while the
lister runs, the temporary files of `file_names.c` and `run.c`, the link, and
the exit code. `pc` is where the driver is, `order` and `k` the phase at work,
`disk` and `wrote` what the children have left behind. A file is created before
its name is noted for the clean-up, and these are two actions (`OpenTemp`,
`ListTemp`). `open` may fail (`OpenFails`), and is repeated then, for ever if it
has to be. A signal (`Handler`) may come anywhere. `tries`, `failed` and
`blamed` are history.

Assumed of the command line: the GNU front end, no IPA, no `-keep`, `-MD` or
feedback, the driver really executes its commands, sources with distinct names.
Statuses are those of `rcodes.h` that the driver tells apart. Assumed of the
children (`CanReturn`): only front ends ask for the inliner, and the lister fails
when the file it is to list is not there. `ErrorsAreOwn` and `ExitTells` rest on
the second: without the file `run_phase` does not keep the status of the Fortran
front end (`run.c` 516-527), and only the lister's own failure tells of it.
`pass_exit_codes` is set nowhere, so every failure exits with 1.

### The memory pools

**MemPool** is the pools word by word: `MEM_POOL_Initialize`, `Alloc`,
`Realloc`, `FREE`, `Push` and `Pop` with freezing, and `Delete`. The memory is
one line of double words, in which headers really lie, because `FREE` and
`Realloc` decide what an object is by reading the words in front of it, and those
may be left over from something else. `malloc` is external and takes the first
room from one of `Starts` on. Requests are cut from blocks or, if large, are
malloced one by one. An object is what its user holds; some users fill their
objects and some read them as they came. Words that nothing refers to any more
and that were never a header are forgotten, which only merges states.

**PoolSpec** is what the pools promise: a stack of levels, each of which holds
memory. Left out are purify mode, `Malloc_Mem_Pool`, `JUST_USE_MALLOC`,
Valgrind's red zones and the statistics.

A large block of a zeroing pool that shrinks and stays large ends the process:
`memory.c:1352` clears `new_size - old_size` bytes, a huge unsigned number
(action `ReallocCrashes`; the model ends there). `mempool.h:200` promises a block
of the new size.

### The rest

The **MC** modules hold the programs, loops, constructs, command lines and
sequences of calls that TLC tries, the **Proofs** modules the proofs.

Definitions whose comment starts with "Fault" are not used by any
specification. Each is a plausible mistake in the definition that follows it;
put in its place, it breaks the property that `PROJECT.json` names with it.

## Runs

| Run | Instance | Distinct states | Shows |
| --- | --- | --- | --- |
| wait_wake | 3 threads | 26371 | no wake-up lost or doubled; a semaphore |
| barrier | 3 members, 3 barriers | 8129 | nobody leaves early, no stale wake-up, all leave |
| fork_join | pool of 5, depth 2, 4 programs of up to 3 regions | 64136 | ids and teams, one wake-up per wait, join, pool restored, all regions end |
| critical | 3 threads | 2766 | mutual exclusion, no use of a freed lock |
| user_lock | 3 threads, 2 levels | 662 | one holder, `nest` is its depth, a free lock is taken |
| static_shares | 9 bounds, 4 increments, 3 chunks, teams of 2-4 | 37719 | shares partition the loop, one last iteration |
| loop_team | 3 members, 5 loops, 2 structures, 4 ids | 95591 | structures are reused safely, each iteration is run once, order of ordered regions, all loops end |
| private_data | 3 members, 6 singles | 127223 | one table, copies made once and delivered, each single run once |
| driver | 9 command lines of 1-3 sources | 53196 | errors charged to their source, exit code, inputs of phases, no file left, the driver ends or is creating a file |
| mem_pool | 2 pools, 24 words, 8 sequences of calls | 203658 | objects keep their contents, large blocks are told from others, nothing lost, a stack of levels |

Several properties are conjunctions of what belongs together: `PoolInv` is the
types, the conservation of threads and the restored pool, `WakesSound` that a
thread is woken into its team and once per wait, `AssignSound` that no team is
empty, that ids are exclusive and that the assertions of the assignment hold.

### Bounds

Three threads are the fewest for a waker, a woken thread that runs ahead and one
that lags; three barriers let the reset of one meet the entry of the next twice.
Three regions of two need four threads, and a fifth lets a thread be created in
excess; the other programs of fork_join ask for one thread, for all and for more
than there are. Five loops against two structures make each be reused, and with
ids modulo 4 the last loop has the id of the first; the loops are static,
dynamic, guided and runtime, upward and downward, and the two ordered ones are
handed out in pieces of one and of several iterations. The loops of
static_shares include empty ones of size 0 and of negative size, ones shorter
than the team, downward and strided ones. Two levels of a nestable lock are the fewest at which giving it up
one level too early shows; `MaxLevels` of UserLock is how far a recursive mutex
counts, beyond which its error is ignored, as in the code. The six singles have
two copyprivate one after the other, so that an offered pointer could be taken
for the next one, and two nowait in a row, so that members are several
constructs apart.

Three sources are the fewest at which a decision or a status of the first could
come back after a second that has none; the command lines have each order of
phases, missing sources, standard input, and end after the back end, the
assembler or the linker. In mem_pool a block has room for two of the smallest
requests or one of the next size, so that blocks fill up, are left and are
returned to; requests of three and four words are large. Three objects, of
which one is freed and its memory reused, are the fewest for a left-over header.
The sequences fix which call comes next and leave its arguments open (the pool,
the size, the object, freezing): all sequences of that length would be too many.
`Rounds`, `MaxDepth`, `MaxNest`, `MaxLevels` of MemPool and the lengths of the
programs bound the runs only.

### Deadlock and fairness

Runs with CHECK_DEADLOCK FALSE are those in which the program ends when all has
been done, or, in wait_wake, in which all threads may be waiting. That nothing
stops before is what the liveness properties show (StaticLoop and MemPool are
sequential computations). The driver has an action for having ended, and its
run checks deadlock.

In the runtime fairness is weak fairness of each thread's steps: the kernel
schedules runnable threads, and the spin loops call `__pmp_yield`. No fairness
is assumed of what the program chooses (forking, nesting), except that work
functions, bodies of loops and critical sections come to an end. Critical only
claims that somebody enters, and UserLock that a free lock is taken: the locks
are not fair, as the comment in `lock.h` says. In UserLock fairness is only
assumed of threads that are in a call: a program may keep a lock forever. In
Driver fairness is that children end and that the driver goes on when they have;
none is assumed of signals, and none of `open`, which depends on the file system.
So `DriverEnds` says that the driver ends or stays for ever in the loop of
`create_temp_file_name`, and nowhere else.

### Disagreements with the code

Two runs are expected to be violated.

- **fork_limit** (`TeamNotEmpty`): `__pmp_thread_acquire` takes all it needs and
  puts the excess back in a second step. At the thread limit a second fork in
  between reads a negative count and ends with a team of no threads, against
  `assert(nthreads > 0)` in `team.c`. In fork_join the same counts are read, but
  the threads that seem to be missing can be created, and the loop of the acquire
  makes up for them; there `TeamNotEmpty` holds.
- **loop_nested** (`NotFirst`): a nested region leaves `loop_count` of its master
  at the value of the inner region. The next loop of the outer team is then taken
  for one that somebody else has started, and the thread may wait forever.

More were met and have no run:

- `__pmp_static_init` asserts `size >= 0` (`schedule.c:220`), and the size of a loop
  that is empty by more than one step is negative; in check mode such a loop ends
  in `__pmp_fatal` (`loop.c` 45-48). That the loop is only empty is taken care of
  a few lines on ("the entire set of iterations falls out of the loop bounds"), and
  without assertions and checks `EachIterationOnce` holds of it.
- In check mode an evenly shared loop of size 0, and with `static_fair` any thread
  without iterations, gets to the loop analyser with chunk 0, against its assertion
  (`schedule.c:109`); and `__pmp_stop_check` warns of an empty loop that its last
  iteration was not seen once.
- `create_temp_file_name` repeats `open` after any error (`file_names.c` 158-164):
  with a full or unwritable directory the driver does not end. Temporary objects,
  made with `mkstemp`, end in an error instead (`file_names.c` 99-103).
- The first guided chunk comes from the range of the loop, not from its trip
  count as the comment at `schedule.c:327` says.
- The chunk of `OMP_SCHEDULE=guided,n` is announced as the minimum chunk
  (`utils.c:663`) and not used as such (`schedule.c:315`).
- In mutex mode a nestable lock is locked once per level and unlocked once
  (`lock.h` 211-216), so that it is never free again after nesting;
  `FreeLockIsTaken` is stated for the other three kinds, and everything else in
  UserLock for all four.
- `has_errors` (`errors.c:197`) forgets errors that were cleared twice, against
  `errors.h:72`; the exit code is right all the same, because `error_status` is
  kept (`ExitTells`).
- The shrinking large block above (`memory.c:1352`).

## Proofs

Theorems hold for every value of the constants that their module's assumptions
allow, in particular for any number of threads.

- **WaitWakeProofs**: `WakeInv` says of every thread that it is undisturbed, or
  that exactly one waker is on its way to it with the state that waker has left,
  or that the wake-up is delivered (UNBLOCKED, or a pending signal). The
  assertions of `__pmp_thread_wake` and the refinement of the semaphore follow.
  The assertions alone are not inductive: they do not say who is between the
  store of IDLE and the signal.
- **TeamBarrierProofs**: `BarrierInv` adds the count (`barrier_count` is the
  number of members missing from the current barrier), that there is at most one
  waker, and what it still owes to whom. Nobody leaves early (`NoEarlyExit`), no
  wake-up is left over, and the refinement of BarrierSpec follow. Assumed: a team
  of two or more, numbered from 0.
- **CriticalProofs**: `CriticalInv` says that an installed lock is
  live and never replaced and that its owner is the thread inside. Mutual exclusion
  and the absence of a use after free follow. Assumed: None is not a thread.
- **UserLockProofs**: `LockInv` says that whoever holds the lock, by its calls or
  in the middle of one, is the owner, that `lock->nest` is its depth and that the
  mutex has been locked at least as often as that. It is inductive as it stands;
  the refinement of MutexSpec follows, because two holders would both be the
  owner. Mutual exclusion alone is not inductive: it does not exclude a count
  that reaches zero too early. Assumed: None is not a thread, and the program
  nests no deeper than the mutex can count.
- **PrivateDataProofs**, with the invariant in **PrivateDataInv**: any team and any
  program of singles. BarrierSpec only counts barriers, so `BarrierInv` gives them names: a
  barrier is a construct and a stage of it, and the count of a member is the
  number of barriers it has passed. From this comes `Arrival`: a barrier that one
  member has passed, everybody has reached. The rest of `PrivateInv` stands on
  it. `CountInv` and `RunsInv` give each single to one member. `WinnerInv` keeps
  the winner of a copyprivate in its construct until all have copied, so
  `copyprivate_src` still points to its data (`SourceInv`). `TableInv` says that
  one table is in use and that the others are freed or about to be, `DataInv`
  which value each copy has at which place. `EachSingleOnce`, `OneTable`,
  `CopiesDelivered` and `InitializedOnce` follow. None of them is inductive: that
  a member copies the right value depends on where all others are. `Moving` says
  once where a step can take a member, and most lemmas use it instead of the
  actions. Assumed: the threads are numbers, 0 among them, and NULL is none.
- **LoopTeamSlots** and **LoopTeamProofs**, with the invariants in
  **LoopTeamInv**: any program of loops with any bounds, increments and schedules,
  any team of two or more, any number of structures and any range of ids that is a
  larger multiple of it. Members may be in different loops, with no barrier in between.
  - `SlotInv`: a structure holds one loop of the program, the one its id names,
    until the last member has left that loop; `looping_threads` counts the members
    who have not; and a loop that somebody has reached is being claimed, in its
    structure, or over for everybody. `RightLoop` is the heart of it: ids come
    round again, and a member that finds its id has still found its own loop,
    because the loops with that id are more than `MAX_LOOPS` apart and nobody can
    have got that far ahead. `StructureIsMine` follows
    (`StructuresAreNotShared`). It is not inductive: it says nothing of the
    structures nobody is in, where a late member will look for its loop.
  - `WorkInv`: each iteration of each loop is in exactly one place. It is in the
    pool (not yet handed out by `loop->current`, or its loop has not started), or
    owed by exactly one member (in the piece it holds, or in the part of its block
    that it has not taken yet), or it has been executed once. `DataInv` is what
    makes the steps do this: a structure describes the loop it holds and its
    `current` is the value of some iteration; a piece starts at an iteration, ends
    inside the loop and is off the rest of its block; and nobody has left a loop
    with something in the pool. `EachIterationOnce` follows
    (`IterationsAreExecutedOnce`): when everybody has left, nothing is in the pool
    or owed. The lemmas count iterations by number (`At`, `Trip`) and show that
    the blocks of the static schedules, fair and not, cover a loop
    (`BlocksCover`) without overlapping (`BlocksDisjoint`).
  - `OrderInv`: what has been let into the ordered regions of a loop is a prefix of
    its iterations, and `now_serving` is the next one, or the last one let in
    while that is still inside. With `WorkInv` two members are never at the same
    iteration, and `OrderedInSequence` follows (`OrderedRegionsRunInSequence`).

  Hypotheses of the theorems: `NoRegionBetween`, that no member forks a nested
  region between two loops (loop_nested shows what happens otherwise), and for the
  last two `PositiveChunks`: the code asserts only that a chunk is not 0, and takes
  that of `OMP_SCHEDULE` as it is. The instance of loop_team satisfies both.
- **CompilerProofs**, the driver: any set of command lines. `DriverInv` has the types, that the
  lister stands right behind the Fortran front end and nowhere else, that a
  source has no error while a phase of it is at work (but for a Fortran front end
  that waits for its lister, whose status is put aside), that a child is the
  first or the second of its phase, and that what is on the disk is listed for
  one of the two clean-ups or about to be. Its last part, `HandOverInv`, is about
  what the phases pass on: in every order that `determine_phase_order` can build
  a phase stands behind those it reads from (`FedInOrder`), the temporary files
  all carry the number of the source at work, and what its earlier phases had to
  write has been written and not yet deleted. `ExitTells`, `ErrorsAreOwn`,
  `InputIsOwn`, `RetriedOnce` and `NothingLeft` follow, each as a theorem.
  `InputIsOwn` needs all of it: which file the back end reads depends on whether
  the inliner ran, which the front end may decide, and on what a clean-up for the
  source before has removed.
- **CompilerProofs**, the memory pools: in PoolSpec no cell is held twice (`HeldOnce`), for any
  pools and any memory. That MemPool implements PoolSpec is model-checked only.

Proved and not checked by a run of its own, because another property implies it
or the theorem has it already: the assertions of `__pmp_thread_wake`
(`WakeAssertions`), `NoStaleWake` (`WakeOnce`), `OneLiveLock` (`CriticalSafe`),
`RetriedOnce` (`BackEndIsRetriedOnce`).

Only model-checked:

- all liveness, which the prover cannot do;
- ForkJoin: the hand-over of threads between pool, creator and team is not proved
  about;
- StaticLoop, whose properties count with the cardinality of sets of iterations
  and with sums over the members (the shares themselves are proved about in
  LoopTeamSlots);
- the properties of MemPool and its refinement of PoolSpec: the searches of lists
  of blocks are recursive.

`PrivateInv`, `DriverInv` and the three invariants of LoopTeamInv were
model-checked before they were proved, the first two on the instances of their
runs, the last with the quantifiers over `Nat` bounded by the lengths of the
loops.

## Not modelled

- **Of the runtime**: start-up and the reading of the environment (one pass,
  before there is a second thread), the handlers around `fork(2)`, shutdown,
  stacks, CPU affinity (system calls that do not touch the state modelled), the
  atomic operations themselves (taken as atomic). In the parts that are
  modelled: serialized regions, teams of one and the disabled mode, which leave
  the synchronisation out; several user locks, and their creation and
  destruction; nested regions in PrivateData. The loops are counted in
  mathematical integers: overflow of loop bounds is not examined.
- **Of the driver**: the options, which are tables read in one pass; IPA,
  feedback, archives, `-E`, `-M`, `-keep`, and the choice of a command's
  arguments.
- **Of the memory pools**: purify mode, `Malloc_Mem_Pool`, `JUST_USE_MALLOC`, the
  red zones for Valgrind, the statistics and traces.
- **The profile runtime** and the **huge page runtime**: the one is sequential,
  registering, counting and writing at exit; the other wraps `mmap` and the
  dynamic linker.
- **The Fortran libraries**: formatting and file access. The unit table with its
  locks could be modelled and is not.
- **Front ends, inliner, IPA, optimizers, code generator, OpenMP lowering,
  printers of the intermediate representation, symbol tables**: sequential
  rewriting of large trees and graphs. What makes it right is a relation between
  programs before and after; there are no protocols in it, and an instance small
  enough for TLC has none of the cases that are hard. The lowering is read for
  the order in which compiled programs call the runtime.
- **Mathematics libraries**: floating point, out of the tools' reach.
- **GCC, libelf, libdwarf, bfd**: vendored.

This is nearly all of the repository by lines, and little of it by state that
outlives a call.
