# Verification of Chromite

TLA+ models, TLC runs and TLAPS proofs for Chromite, the tools that build
ChromiumOS. Chromite is large (2,700 files, most of them wrappers of git,
portage, gsutil and other programs, or static configuration). What can go wrong
in ways that a unit test hardly reaches is concentrated in a few files: the
process pools, the state that build stages share, the locks, a master's wait for
its slaves, and the update of a device's partitions. This project models those.

Paths below are relative to `src/`.

## 1. The system

A builder (`scripts/cbuildbot.py`) runs a *builder run*: a sequence of stages,
some of them side by side in forked processes. The stages share run attributes,
use process pools for their own work, call external programs through
`cros_build_lib.run`, keep downloads in disk caches, and report to CIDB. Release
builds generate update payloads (*paygen*) and guard each build with a lock file
in Google Storage, because several servers look for work. A *master* builder
schedules *slave* builders and waits for them. The `cros` command line and the
Build API use the same libraries from a developer's machine or a recipe.

| component | source | state | operations | hard behaviour | what makes it correct |
|---|---|---|---|---|---|
| background steps | `lib/parallel.py` `_BackgroundTask`, `ParallelTasks`, `RunParallelSteps` | a process, an output queue and two events per step; a shared semaphore | start, run, Wait, Kill, `_KillChildren` | polling races with exits; three kinds of time-out; escalating signals; children that die anywhere | success is only reported if every step succeeded; errors are not lost; the parent ends and leaves no process |
| task pools | `lib/parallel.py` `TaskRunner`, `BackgroundTaskRunner`, `RunTasksInProcessPool` | a managed queue, an output queue, per-worker errors | put, take, sentinel, exit handler | killed workers leave manager threads that still take items; failing bodies and handlers | every input is accounted for; every worker finds its sentinel; results are complete |
| parallel run attributes | `cbuildbot/cbuildbot_run.py` `RunAttributes` | a managed queue and a re-entrant lock per attribute | Register, SetParallel, SetParallelDefault, HasParallel, GetParallel | a get takes the value off before it locks | the value is neither lost nor doubled nor replaced by an older one |
| Google Storage lock | `lib/paygen/gslock.py` over `lib/gs.py` | one object with a generation; the generation each client remembers | Acquire, Renew, Release, as a context manager | lost answers and retries, time-outs, takeover of expired locks, crashes | exclusion up to the time-out; no lock is forgotten; orphans are reclaimed |
| disk cache | `lib/cache.py` `CacheReference`, `DiskCache` over `lib/locking.py` | an entry and two lock files per key | Acquire, Assign, SetDefault, Exists, Remove, Release | locks are on inodes and paths change; two locks nested in two orders; failing inserts, crashes | nobody changes an entry under a reader; nobody waits for ever |
| download cache | `lib/paygen/download_cache.py` | a purge lock and one lock per file | set-up, GetFileObject, Purge | locks that wait and locks that give up; a crash in the middle of a fetch; readers that keep each other from fetching | an open file is never written again; purging excludes users; every call ends |
| slave status | `cbuildbot/build_status.py`, `lib/builder_status_lib.py`, `lib/timeout_util.py` | completed, scheduled and missing builds; two clocks | UpdateSlaveStatus, ShouldWait, WaitForSuccess | builds that end between two calls of one poll; lost answers; calls that hang | stops as completed only when every important slave is; cancels nothing that runs; gets out in time |
| device imager | `cli/device_imager.py` | the partitions, the priority of the slots, flags of the updaters | install in parallel, retry, revert, reboot, verify | flags set in forked children and read in the parent; commands that outlive the steps that started them; errors of reader threads | nothing is still being written when the update has succeeded; a failed one is reverted |
| retries, time-outs | `lib/retry_util.py`, `lib/timeout_util.py` | one interval timer | GenericRetry, Timeout, WaitForSuccess | nested timers | the outer time-out still fires |
| build specs | `cbuildbot/manifest_version.py` | a remote git repository | publish, push with retries | lost answers, races between builders | one spec per version |
| everything else | see `PROJECT.json` | | | pure I/O, static data, generated or third-party code | |

Interactions. `RunParallelSteps` is what the task pool is built on; the device
imager (which has it run its updaters) and the stages run in it, and its `Kill` is what takes a process away in
the middle of a `GetParallel` or of a cache operation. Paygen takes the
Google Storage lock and then starts a task pool, whose workers read through the
download cache. Caches are shared between processes of a machine, the Google
Storage lock between machines. A master and its slaves share nothing: it asks
Buildbucket about each of them.

## 2. Modules

| module | what it is |
|---|---|
| `StepRunner` | abstract: what `RunParallelSteps` promises |
| `ParallelTasks` | `_BackgroundTask` and the `ParallelTasks` context manager |
| `TaskPool` | `TaskRunner`, `BackgroundTaskRunner`, `RunTasksInProcessPool`, on top of that promise |
| `AttributeRegister` | abstract: a register shared by the stages |
| `RunAttributes` | one PARALLEL attribute, one manager call per step |
| `LeaseLock` | abstract: a lease that may be taken over once it is expired |
| `GsLock` | the Google Storage lock, its clients and the server |
| `DiskCache` | one key of a disk cache, its two lock files, lockf |
| `DownloadCache` | the directory of downloaded files, its purge lock and file locks, flock |
| `SlaveStatus` | a master's wait for its slaves, call by call, over Buildbucket and the clock |
| `DeviceImager` | the partition updaters, on top of `StepRunner`, and what the parent does after them |
| `...MC` | the constants of the TLC instances |
| `...Proofs` | inductive invariants and theorems, checked by TLAPS |

Every process has a program counter whose values name the place in the code
where it can be interrupted; an action is what happens between two such places.
The definitions keep the names of the methods where they could, and
`PROJECT.json` maps each to its lines. Definitions whose comment begins with
"Mutant" are plausible bugs (a dropped guard, a swapped order, a missing reset);
they are not part of the specifications, and each shows that a property can tell
the code from such a variant.

### ParallelTasks

`pc`, `w`, `alive`, `got`, `errs` are the local variables of `ParallelTasks`,
`Wait` and their callers; `sig`, `kset`, `todo` those of `_KillChildren`;
`child`, `res`, `sent`, `started`, `killing` and `permits` are the child
processes, their queues and events, and the semaphore. `is_alive()` and the look
at the queue are two steps (`Poll`, then `GetResult` or `GetNothing`), and a
child may put its result and exit between them. A child passes
`ready, run, done, put, release, exit` and may die of itself at any of the
places after it has begun. `SIGTERM` may kill the process, raise in its step, or
be ignored; `SIGKILL` always kills. Time is abstracted: a time-out of the parent
may expire whenever what it waits for can take that long. The one assumption is
about `STARTUP_TIMEOUT` (five minutes): it expires only for a child that finds no
permit, because nothing else in front of `_started.set()` takes time.
`MayHang` and `MaySilent` say which steps may exceed the other time-outs.

### TaskPool

The queue is first-in first-out and the parent puts its sentinels last, so it is
given by three counters (put, sentinels put, taken). Workers run, drop inputs
after a failure, take a sentinel, call the exit handler. A worker killed in
`queue.get` becomes a *robber*: its thread in the manager process takes one more
item and nobody gets it. A worker may also be killed when its `TaskRunner` has
returned already, because its process may hang at exit until `EXIT_TIMEOUT`.
`took` remembers which inputs left the queue for which worker, so that
`Accounted` can say that each of them has its result, is being run by the worker
that took it, or left it for a worker that will not end well *itself*.

Of `ParallelTasks` the module uses what `StepRunner` states: the parent goes on
once all workers have ended and raises if one failed. `ImplementsStepRunner`
makes this precise: `Judged` gives the result that each worker's step has, with
them every step of the pool is one of `StepRunner` or leaves its state unchanged.
That `ParallelTasks` keeps the same promise is proved too (section 4), so the two
fit together, and nothing about the layer below is assumed.

### RunAttributes

`queue`, `rlock` are the `LockableQueue`; `hand` is the local `value` of
`GetParallel`; values are numbered in the order in which setters put them, which
makes "older" and "newer" visible. `Take` is the `queue.get` outside the lock,
`Drain`/`DrainEmpty` one `get(False)` of a loop inside it, `PutNew` and `PutBack`
the `put`. `Kill` is the step runner's SIGKILL. The thread of the manager that
serves a process killed in its `get` or while it asks for the lock still does so
(`ServeDead`): it takes a value that reaches nobody, or the lock for good.

### GsLock

`file` is the object; `generation` is `Lock._generation`; `age` counts ticks
since each client's last write, up to one more than the time-out, which is
all that `_LockExpired` can see. A gsutil command is atomic at the server, but
its answer may be lost (`...Unheard`), after which it is run again or given up.
The code compares generations for equality only, so a number that no variable
holds may be used again; this keeps the state finite without a bound on calls.
Clients and servers share one clock, as the class comment says. `Cat` and the
`Stat` that would follow it are one step: the branch in which the `Stat` happens
is never taken (finding 3).

### DiskCache

A process uses one reference after another, as `with cache.Lookup(key) as ref`.
`entryFd` and `lockFd` are the inodes that its two lock objects have open;
`entryPath` and `lockPath` those that the paths lead to, so that `Remove`
unlinking a path while another process has the file open is what it is in the
file system. The entry lock is held from `body` to `leave`, the key lock as
`lockMode` says. `Assign`, `SetDefault`, `Exists`, `Remove` are the values of
`op`; the code they share is shared in the model (`Body`, `Reopen`, `LockWrite`,
`Clear`, `Fill`, `LockRead`). An insertion may raise, a process may die, and the
kernel then closes its files.

### DownloadCache

The two kinds of lock follow from where a process is: `PurgeShared`,
`PurgeExclusive`, `FileShared`, `FileExclusive` are the places inside the
respective `with`. A non-blocking request (`SetupCache`, `TryPurge`, `TryFetch`)
takes one of two branches at once; a blocking one (`LockPurge`, `LockFile`) is
enabled when the lock can be granted. `file` is "partial" while it is fetched and
"torn" once the fetching process died; `got` is a caller's open File object,
which outlives all locks and also the purging of its file. The purge after a
fetch (`PurgeGrown`) changes nothing, because its `flock` goes through a second
open file and is refused by the shared lock that `GetFileObject` itself has.
`Crash` closes what a process had open; another process takes its place.

### SlaveStatus

A poll is two rounds of calls about the important builds: `GetBuild`, then
`GetBuildProperties` and `GetBuildStatus`, the two calls of the Python
`GetBuildStatus`. Builds start and end between any two calls. `sched`,
`succ` are what the first round saw, `ended` what the second did; `completed`
gathers both. The second round knows a build only by the output property
`cbb_config` that its recipe reports while it runs (`named`, `usable`): the answer
about a build without it is kept under no name and not counted, though nothing
was lost. `_Completed` and the start-up deadline compare numbers, as in the
code. The two calls of the constructor come before `looping`. `Tick` advances the
clocks; `Alarm` is SIGALRM of `WaitForSuccess`, which may interrupt a call, in
the main thread only (`MainThread`).
`EndBuild` has the final statuses of Buildbucket ("FAILURE" stands for CANCELED
too), and `Translated` is those that `BB_STATUS_DICT` knows.

### DeviceImager

`Install` is an instance of `StepRunner`: its steps are the updaters.
`command` is what the device does for an updater: a step starts a command
(`StartWrite`, `StartSwitch`) and ends after it, but when the step fails or is
killed the command goes on (`Write`, `WriteEnds`, `Switch`) until it is done or
the device gives it up (`CommandStops`). A partition may be left `"short"`: the
exceptions of the reader threads are lost, and no pipeline has `pipefail`, so the
step goes on as if all had been written. `part` and `active` are on the device, so what a forked updater does to them
stays; `_finished` and `_ran_postinst` are Python attributes, so what it does to
them is gone with its process, and in the parent `RanPostinst` is false. One
attempt is modelled because `RetryException` waits for an `Error` while
`RunParallelSteps` raises a `BackgroundFailure`.

## 3. Runs

Runs that pass:

| run | instance | distinct states | properties |
|---|---|---|---|
| `steps` | 3 steps, no limit or `max_parallel=1`, both values of `halt_on_error`, one step may be silent for ever, one may hang at exit, one child may crash, the caller's block and `task.start()` may raise | 840,000 | `NoSilentLoss`, `NoFalseAlarm`, `AllErrorsReported`, `PermitsBounded`, `Termination`, `ImplementsStepRunner` |
| `pool` | 3 inputs, 3 workers, 2 kills, body and exit handler may raise | 377,000 | `Accounted`, `CollectFindsAll`, `SentinelForEach`, `ImplementsStepRunner`, `WorkShrinks`, `Termination` |
| `attr` | a setter and two readers (one sets defaults, one tests), 2 calls each, one kill | 317,000 | `OneValueAtMost`, `NeverLost`, `ReaderServed`, `RegisterForOneReader` |
| `gslock` | 3 clients that ask for ever, time-out of 1 tick, 1 network error, 1 crash | 828,000 | `HoldersExclusive`, `NoLockForgotten`, `OrphanReclaimed`, `ImplementsLease` |
| `cache` | 2 processes that use one key for ever in every way, 1 failing insertion, both may die | 347,000 | `DefaultKeepsEntry`, `ReadersKeepEntry`, `NoCircularWait`, `NeverStuck` |
| `dcache` | 3 processes that use and purge one file for ever, 2 attempts each, 1 crash | 46,000 | `PurgeExcludes`, `ReadersKeepFile`, `SetupBeforeUse`, `KeptWhileUsed`, `GetEnds` |
| `slaves` | 2 important builds and an experimental one, a time-out of 3 ticks, start-up deadline after 1, in the main thread | 2,646,000 | `StopsWhenDone`, `DeadlineSparesRunning`, `EndedAreCounted`, `LoopEnds` |

Each also has a `TypeOK`. Five runs end in a counterexample; each is a place
where the code does not do what its comments say:

1. `attr_stale`, `RequeuesUpdatedValue` (`cbuildbot/cbuildbot_run.py:468`). A
   reader that flushes the queue "accepts the updated value", but what it finds
   may be an older one that another reader re-queued. The newest value is then
   lost for good.
2. `steps_starved`, `NoOrphans` (`lib/parallel.py:213`). With `max_parallel` a
   child waits for its permit before it sets `_started`, and the parent allows
   five minutes for that. A step behind a longer one makes the parent raise
   `AssertionError` and leave both processes behind.
3. `gslock_unrecognised`, `OwnLockRecognised` (`lib/paygen/gslock.py:155`). The
   branch for "it's possible for us to already own it" compares bytes with a
   string. After a lost answer the client is refused by its own lock, and
   everybody waits for the time-out.
4. `cache_unlinked`, `ReadLockMaintained` (`lib/cache.py:130`). `Remove` unlinks
   lock files that others have open or wait for; then two inodes are locked
   independently and an entry is replaced under a reader.
5. `imager`, `FailedInstallReverted` (`cli/device_imager.py:297`). "If one of the
   partitions failed to be installed, revert all partitions": `Revert` asks for a
   flag that `Run` set in another process. A device whose root file system was
   installed and whose other partition failed keeps the priority at the new slot.
   (The property speaks only of updaters whose own step had ended well, so that
   no command of theirs is left, and of the case that no Revert raises.)

Why the bounds are enough. Two is the number of parties in all the races found;
three clients, workers or readers add a bystander. In `steps` a third step is
needed so that one can be finished, one waited for and one still to come. The
second call of each process in `attr` meets what the first left behind. `gslock`
and `cache` have no bound on calls at all, only on errors and crashes; each
lost answer or crash leaves at most one orphan or one forgotten lock, and one
suffices for every branch. `Inodes` and `Generations` are large enough that there
always is a fresh one. In `dcache` one file is enough, because file locks of different
files are independent and the purge lock covers all; three processes can be one
that fetches, one that sleeps and one that purges; of two attempts one is
repeated and one is the last. In `slaves` two builds can be one that runs and one that is
late, and a third status (experimental) that must not count; with these
time-outs each of the four outcomes is reached, and any number of ticks may
pass within a poll. `gslock` was also tried by hand with two clients, a
time-out of 2 and three errors, and with three clients, a time-out of 0 and two
errors.

`CHECK_DEADLOCK FALSE` is used where a run really may stop: in `attr` the
processes have made their calls or are killed, in `cache` both may be dead, in
`slaves` and `imager` the wait or the update is over.

### Fairness

* `ParallelTasks`: the operating system schedules the parent and the children
  (weak fairness of each), except that a step in `MaySilent` may run, and a
  process in `MayHang` may exit, for ever. The silence of a child is measured by
  the clock, which goes on whatever polls happen in between: strong fairness of
  `SilentTimeout`.
* `TaskPool`: parent and workers are scheduled, and tasks end (those that do not
  are killed by the context below). Kills are not fair.
* `RunAttributes`: a process finishes the calls it makes. Nothing makes it call.
* `GsLock`: time passes, and each client goes on and asks again (Method 2 of the
  class comment, a loop). Network errors, crashes and `Renew` are not fair.
* `DiskCache`: a process goes on with an operation, and a reader ends some time.
  New operations, failing insertions and crashes are not fair. lockf is not
  assumed to serve waiters in any order, so `NeverStuck` says that *some*
  operation gets to its end, not that each does.
* `DownloadCache`: a process goes on, fetches end, sleepers wake (weak fairness).
  One that waits for a lock is woken at each unlock, and so gets it if it is free
  again and again: strong fairness of the two blocking requests. Nothing makes
  processes call, purge or die.
* `SlaveStatus`: only that time passes and that the alarm is delivered. No call
  need ever return, and `LoopEnds` holds nevertheless, in the main thread: in
  another one `WaitForSuccess` sets no alarm and may hang, as its comment says.
* `StepRunner` and `DeviceImager` state no liveness.

## 4. Proofs

TLAPS checks the following for every value of the constants: any number of
steps, workers, clients, processes, builds, kills, errors, any time-outs. The
assumptions are the `ASSUME`s of the modules (types of the constants, finite sets
where they are counted, "no client" not being a client). Two theorems have
hypotheses of their own: `WaitIsFinite` that the master sleeps between its polls
(`SLEEP_TIMEOUT` is a minute) and waits in the main thread, `ClientsNeverStuck` that there are more generation
numbers than can be remembered at once, of which Google Storage has no shortage.

| module | theorems |
|---|---|
| `ParallelTasksProofs` | `TypeCorrect`, `SuccessIsReal` (`NoSilentLoss`), `NoFinishedStepDied` (`NoFalseAlarm`), `EveryErrorIsReported` (`AllErrorsReported`), `LimitIsKept` (`PermitsBounded`), `NobodyLeft`, `KeepsItsPromise` (`ImplementsStepRunner`), `ParentNeverStuck`, `ParentIsFinite`, `ChildrenAreFinite` |
| `TaskPoolProofs` | `TypeCorrect`, `InputsAccounted`, `SuccessIsComplete` (`CollectFindsAll`), `EveryWorkerStops` (`SentinelForEach`), `PoolIsStepRunner` (`ImplementsStepRunner`), `PoolIsFinite` (`WorkShrinks`), `PoolNeverStuck` |
| `RunAttributesProofs` | `TypeCorrect`, `OnePlaceBuffer`, `ValueNeverLost`, `RegisterKept` (`RegisterForOneReader`), `ReadersNeverStuck`, `CallsAreFinite` |
| `GsLockProofs` | `TypeCorrect`, `Exclusive`, `NothingForgotten`, `Implements` (refinement of `LeaseLock`), `ExpiredIsReclaimed`, `ClientsNeverStuck` |
| `DiskCacheProofs` | `TypeCorrect`, `DefaultsSafe`, `ReadersSafe`, `WaitsEnd` (`NoCircularWait`), `OperationsAreFinite` |
| `DownloadCacheProofs` | `TypeCorrect`, `PurgeAlone` (`PurgeExcludes`), `FilesNotModified` (`ReadersKeepFile`), `UsersFindDirs` (`SetupBeforeUse`), `NoUntimelyPurge` (`KeptWhileUsed`), `CallsAreFinite` |
| `SlaveStatusProofs` | `TypeCorrect`, `CompletedIsTrue` (`StopsWhenDone`), `DeadlineIsFair` (`DeadlineSparesRunning`), `NothingOverlooked` (`EndedAreCounted`), `WaitIsFinite` |
| `DeviceImagerProofs` | `TypeCorrect`, `Quiet` (`QuietWhenInstalled`) |

Each proof has an inductive invariant `IInv`, one lemma or step per action, and
a last step by PTL. Why the strengthenings are needed:

* `ParallelTasks`: that the parent returns normally says something about the
  *past* of its loop. `JudgedInv` says that every task before `w` was judged:
  it has an error or its result was seen; `PollInv` and `AlarmInv` relate `alive`,
  which is as old as the last poll, to the child: one seen dead will put nothing
  any more. `ReportInv` is the same for the case without `halt_on_error`, where
  the loop never ends early. `PermitsBounded` counts: `Holders` gains a child
  only when the semaphore loses a permit, and a child that dies only makes the sum
  smaller. That no other permit is lost is the harder half: `LossInv` counts each
  missing permit against a child that crashed or that the parent killed. For the refinement, `LeftInv` says which children must be gone (or be
  about to be signalled) at each point of the parent, `SlainInv` that nobody is
  killed unless there is an error, and `AssertionInv` that the start-up assertion
  needs a limit; the lemmas about `Result` then turn each step of a child or of the
  parent into `Complete`, `Fail`, `Return`, `Raise`, `PassOn` or a stutter.
* `TaskPool`: `SentinelInv` gives the position of the queue when a worker leaves
  its loop well: nothing but sentinels is left, so all inputs were taken, and
  `Accounted` says where they are: with the worker that took them, and none of
  the workers is spoilt. `Balance` counts the sentinels taken and the
  workers that still need one; robbers spend what a killed worker no longer needs.
  `PoolIsStepRunner` needs that a step fails only before the pool is judged: kills
  end with the parent's wait, and that is over only when every worker has ended.
* `RunAttributes`: `LockedRegion` (who is inside the lock) and `CallInv` (which
  calls are at which places) are what makes a `put` meet an empty queue. The
  `get` outside the lock only makes the queue shorter. For the register,
  `Fresh` says what one reader relies on: its value is the newest, or a newer one
  is on the queue or about to be put there, where the reader's own drain loop
  will find it. With two readers this is what breaks (finding 1).
* `GsLock`: exclusion is not inductive, since a client inside may not own the
  file any more. `Known` says that what a client remembers is either the file's
  generation, and then it is the owner or about to replace an expired lock, or
  one that will never match; `Overtaken`, that a client inside that is not the
  owner has overstayed.
* `DiskCache`: everything rests on `Linked`: as long as nothing was unlinked, all
  processes have the same two inodes open. Only then does "lockf excludes on an
  inode" (`EntryExclusive`, `LockExclusive`) become exclusion on the key.
  `EntryKnown` is what a process inside knows about the entry.
* `DownloadCache`: `Move` sums up what all actions have in common: one process
  moves, and it gets to a place with a lock only when the lock is granted. The two
  exclusions follow from that alone. `Downloads` ties a partial file to the process
  that fetches it, so that no open file is one; `DirsKnown` says who may rely on
  directories that somebody else is still making.
* `SlaveStatus`: everything that is counted has ended and stays so (`Counted`),
  hence statuses of different moments may be added up. From sets of important
  builds with equal numbers follows their equality (`CompletedAll`,
  `UncompletedScheduled`), except for the double count named below. That a poll
  overlooks nothing (`SuccessesFound`, `NamedFound`) rests on `EndedFixed`: what had
  ended as it began can gain neither another status nor a name meanwhile.
* `DeviceImager`: `EndedQuiet` says that an updater whose step ended well has no
  command on the device, and `StepRunner` that all steps did when
  `RunParallelSteps` returned.

All safety properties of the passing runs are proved. Only model-checked: the
liveness properties (`Termination` twice, `ReaderServed`, `OrphanReclaimed`,
`NeverStuck`, `GetEnds`, `LoopEnds`), because ENABLED and fairness are out of the
prover's reach. What is proved of most of them is the argument itself, in two
halves that are safety properties:

* *Somebody can go on.* The guards of the actions are written out as state
  predicates, and an invariant says that one of them holds until all is over:
  `PoolNeverStuck` (no worker blocks in `queue.get`, the parent does not block on
  `out_queue`), `ParentNeverStuck` (the one child that the parent waits for can take
  the next step towards it, or has a time-out), `ReadersNeverStuck` (only a killed
  process can have taken the lock or the value away), `WaitsEnd` (no circle among
  those that wait for locks), `ClientsNeverStuck` (each command is executed or
  refused).
* *Nobody goes on for ever.* A number, or a tuple in lexicographic order, that the
  steps make smaller: `PoolIsFinite` counts all steps of a pool. `ParentIsFinite`
  orders the phase, the tasks left, the place in `Wait`, the signals left of
  XCPU, TERM and KILL, and the tasks that have not got the present one; what does
  not shrink it is one round of polling a process that is alive, and
  `ChildrenAreFinite` bounds the steps of those. `CallsAreFinite` and
  `OperationsAreFinite` bound the steps of one call of a process whatever the others
  do: nobody can make a setter's drain loop longer, send a cache operation back, or
  cost `GetFileObject` more than `FETCH_RETRY_COUNT` attempts of a few steps each.
  `ExpiredIsReclaimed` counts the steps of a client under an expired lock: at most
  eight, one of which removes or replaces it, even if the client believes at first
  that it holds the lock or is about to replace an older one. `WaitIsFinite` has
  the ticks until the alarm and then the calls of one poll.

What TLC adds is that the scheduler's fairness, with these two, gives the end.

The theorems on `DeviceImager`, `NobodyLeft`, and those of the two halves except
`PoolIsFinite` and `WaitsEnd` have no run of their own; `NobodyLeft` is the part of
`NoOrphans` that does hold.

## 5. What the models assume or leave out

* A child of `ParallelTasks` does not die before it has begun its step; nested
  pools (whose grandchildren a kill does not reach) are not modelled. Output
  capture matters only through the silence time-out.
* Managed queues are first-in first-out, and a manager call is atomic.
* All clients of a Google Storage lock use one time-out; `dry_run` is left out.
* A process uses one cache reference at a time and one key. lockf locks belong to
  the process; the kernel's deadlock detection never has to act, which is part
  of what `NeverStuck` shows. Insertion is one rename: the partial entry that a
  move across file systems can leave behind is not modelled, nor are the ages
  by which `DeleteStale` chooses.
* `Purge` of the download cache may remove any files, not only old or large
  ones. A process asks for one file at a time. A file that its process left behind
  torn stays in the cache, and `ReadersKeepFile` has to admit it.
* Slaves are scheduled through Buildbucket; the
  paths for those that are not, and the retrying of builds, are left out.
  Important builds do not become experimental meanwhile.
* The threads and pipes of the image's transfer to the device (but for what can
  go wrong unnoticed in them), the progress watcher and the choice of partitions
  are left out of the device imager.

Weaknesses that were met while reading and that no run shows:

* `GetParallel(timeout=0)` raises although the attribute is set while another
  reader holds the value; `SetParallelDefault` tests and sets in two critical
  sections and may replace a value that was set meanwhile.
* `Release` of the Google Storage lock tests `not self._LockExpired()`, the
  negation of a pair, and so never raises. A holder that was overtaken may
  `Renew` as if nothing had happened (`HoldersExclusive` allows it: it has
  overstayed).
* An exception of `task.start()` leaves the tasks that were started running
  (`StartFails`; `ImplementsStepRunner` excepts it).
* A process that dies while it downloads leaves a torn file and no lock; every
  later caller takes it for whole (`lib/paygen/download_cache.py:250`). The purge
  that follows a download never happens, because `GetFileObject` keeps its own
  shared lock.
* A slave that ends before its recipe has reported `cbb_config`, one that was
  cancelled before it started for instance, is never counted as completed
  (`lib/buildbucket_v2.py:741` and `743`), and the master waits for its time-out.
  `EndedAreCounted` has this as its exception.
* A partition that was cut short while it was read, compressed or sent counts as
  written (`cli/device_imager.py:577`), its slot gets the priority, and the update
  succeeds. Commands that the device executes for an updater that failed go on
  while the others are reverted.
* A stage that is killed while it waits for the lock of an attribute may be given
  it afterwards; nobody can use the attribute from then on.
* `BB_STATUS_DICT` has no `INFRA_FAILURE`: a slave that ends so never counts as
  completed, and the master waits for its time-out.
* A build that is scheduled in the first round of a poll and has ended in the
  second is counted twice, and past the deadline the master may then cancel a
  build that runs (`cbuildbot/build_status.py:345`). `DeadlineSparesRunning` has
  this as its exception; a state in which a running build is cancelled is reached
  in the instance of `slaves`.
* The first round of a poll catches `BuildbucketResponseException`
  (`lib/builder_status_lib.py:465`, "log the error and continue with other
  builds"), while a failing call raises a `ProtocolError`: it ends the wait. The
  constructor's poll is under no time-out.
* `_VerifyBootExpectations` expects the other slot also when no root file system
  was updated, so that such an update raises after the reboot. The retry of the
  updaters never happens (it waits for another exception class). The post-install
  step of one updater gives its slot the priority while others still write.

### Not modelled

`PROJECT.json` lists every other component with the reason. Most of them run
external programs one after the other, hold static data, or are generated; their
state is in git, SQL, Buildbucket, ssh or the file system, and what they do
concurrently they do through the modules above. Of those with a hard behaviour of
their own: publishing of build specs is a race decided by a git server (a push
whose answer was lost makes every later attempt fail,
`cbuildbot/manifest_version.py:452`), CIDB statements that are executed again
after a lost connection may insert twice (`lib/cidb.py:539`), and nested
time-outs share one interval timer (`lib/timeout_util.py:101`).

## 6. Plan

What is left to do, in the order of its worth:

1. Nested pools: a second `ParallelTasks` inside a step, whose parent is killed
   (`lib/parallel.py:298`), with the grandchildren that stay behind.
2. `Timeouts`: nested `Timeout`s over one interval timer as a state machine,
   against the reference "each block ends by its own deadline or an outer one".
3. Build specs: two builders that publish, pushes whose answers are lost.
4. `DiskCache` with partial entries, and with ages for `DeleteStale`.
