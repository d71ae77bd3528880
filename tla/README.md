# TLA+ models of the POSIX.4 example programs

The repository is the example code of a book on POSIX.4 programming: small,
self-contained C programs, most of them benchmarks of one means of interprocess
communication. What makes them worth modelling is what the book teaches with
them: signals that arrive anywhere, processes that end at any moment, names
shared by processes that know nothing of each other. This directory holds TLA+
modules of the programs, the TLC configurations that check them, and TLAPS
proofs of their main properties.

The listings are typeset text rather than compilable files (`\en` for `\n`,
`PORT_READ`, `sigemptyst`, an undeclared `i`, `flags` or `lockfile`,
`SA_SIGACTION`, a `sigprocmask` with two arguments). They are modelled as the
program they evidently stand for.

## 1. Inventory

| part | source | state | operations | what is hard |
|---|---|---|---|---|
| signal ping-pong | `sigs_sent_swtch.c` | per process: counters, blocked and pending signals, where it is; the alarm | start-up, fork, both loops, `null_handler`, `alarm_handler`, `child_terminate` | signals before `sigsuspend`, the alarm between any two steps, merging |
| queued-signal ping-pong | `sigs_sent_swtch.p4.c` | the same, plus signal queues and values | the same with `sigqueue` and `handler` | interrupted handler, `EAGAIN`, order of values |
| pipe ping-pong | `fifo.c` | counters, two bounded pipes, `chpid` | both loops, the shared `alarm_handler` | large messages, abandoned child, `kill(0)` |
| signal flooding | `sigs_sent_noswtch.c`, `sending_sigs.c` | `nsigs`, pending signals | loops and four handlers | merging, blocked signals, nested handlers |
| self-signalling | `sending_sigs_self.c`, `sending_recving_sigs_self.c` | counters, pending signals | loop, handlers | the alarm between `kill` and the counters |
| loop benchmarks | `switch.c`, `noswitch.c`, `cpubench.c` | counters | `sched_yield` or counting loop, alarm | the child's end |
| synchronous copy | `iopipe.c` | buffer | read, write | short reads and writes, errors |
| asynchronous copy | `aiopipe.c` | two control blocks, two buffers, `aio_to_go`, queued completions | mainline, `aioread_done`, `aiowrite_done` | lost wake-ups, chain counting, overlapping transfers, failing calls |
| mutual exclusion benchmarks | `shmmutex_sem.c`, `shmmutex_semembed.c`, `shmmutex_flock.c` | names, regions, semaphores or locks | set-up, loop, alarm | several runs at once, killed holders, emptied regions |
| semaphore tools | `mksem.c`, `rmsem.c` | the name `/my_sem` | create, remove | interplay with the benchmark |
| shared memory and exec | `shm.c` | region, name, child, text in the region | set-up, fork, exec, wait, cleanup, the image executed | cleanup on abnormal ends, names taken by other programs |
| message queues | `msg.c` | queue name | set-up (the rest of the listing is the pipe version) | left-over names |
| virtual scheduling | `vsched.c`, `atprio.1.c`, `atprio.2.c`, `atprio.3.c` | policy and priority of a process | get, set, adjust | read-modify-write races, -1 as a priority |
| jitter | `jitter.p4.c` | ring of timestamps, jitter buffer | two handlers | `prev` never set, full buffer |
| periodic timers | `periodic_timer.c`, `periodic_timer.p4.c` | interval | normalise, arm | boundary values |
| load generators | `cpubound.c`, `iobound.c` | none shared | endless loops | nothing to check |

How they interact. The ping-pong and flooding programs fork: parent and child
share nothing but signals or pipes and what was inherited. A 60-second alarm
in the parent ends the experiment and `SIGUSR2` (or a second `SIGALRM`) ends the
child. Runs of the mutual-exclusion programs and of `shm` meet through the names `/my_shm`,
`/my_sem` and `lockfile`, those of `msg` through `/mq_one`; `mksem` and `rmsem` act
on semaphore names. `aiopipe` interacts with the kernel's asynchronous I/O, the
timer programs with a kernel timer, and runs of `atprio` with each other through
the scheduling of the shell they come from. The correctness of each part is in
section 4; every hazard is in `PROJECT.json` with the line where it bites.

## 2. Modules

```
Baton            the promise: one ball between two players, counted rallies
ForkedPair       two processes: status, mask, pending signals, handlers, alarm
  SigSwitch        sigs_sent_swtch.c          implements Baton
    SigSwitchProofs
  SigQueueSwitch   sigs_sent_swtch.p4.c       implements Baton
    SigQueueSwitchProofs
  FifoBench        fifo.c                     implements Baton
    FifoProofs
  SigFlood         sigs_sent_noswtch.c, sending_sigs.c, sending_sigs_self.c,
                   sending_recving_sigs_self.c, switch.c, noswitch.c, cpubench.c
    SigFloodProofs

Copy             the promise: the output is a beginning of the input
CopyProgram      standard input and output
  IoPipe           iopipe.c                   implements Copy
  AioPipe          aiopipe.c
    CopyPrograms     a run of either          (MCCopyPrograms)
      CopyProofs

Mutex            the promise: one process under a lock
SharedRegion     the name /my_shm, truncation, alarm
  ShmMutexSem      shmmutex_sem.c, mksem.c, rmsem.c   implements Mutex
    ShmMutexProofs
  RegionContents   what lies at the beginning of a region
    ShmMutexEmbed    shmmutex_semembed.c
    ShmMutexFlock    shmmutex_flock.c                 implements Mutex
    ShmExec          shm.c
    MsgSetup         msg.c, the set-up
      SharedNames      runs of all four       (MCSharedNames)
        SharedNamesProofs

VSched           vsched.c
  Atprio           atprio.1.c, atprio.2.c, atprio.3.c, vsched_setprio (MCAtprio)

IntervalTimer    the interval and the kernel's timer
  PeriodicTimer    periodic_timer.c, periodic_timer.p4.c
  Jitter           jitter.p4.c
    TimerPrograms    a run of any of the three (MCTimerPrograms)
RealTimeProofs   of Atprio and TimerPrograms
```

**ForkedPair** gives each process a `status`, a program point `pc`, the handler
`hnd` it is in, its `mask` and its pending signals `pend`, its counters and the
`report` it prints. `StartUp`, `ForkChild`, `ArmAlarm`, `KillPeer`, `Increment`,
`AlarmHandler` and `TerminateChild` are the pieces of code the programs have in
common. One action is one system call or one update of a counter, so that a
signal can come between any two of them. `Blocked` says which signals a process
does not take now: its mask, or, in `sigsuspend`, the suspended mask; in a handler,
the handler's `sa_mask`. A handler that masks everything (`null_handler` of
sigs_sent_swtch.c) is one step; one that may be interrupted (`handler`, the
handlers of the flooding programs) is entered and carried out in two. `kill` to a
process that has exited but has not been waited for succeeds without effect;
`Reap` is the shell's or init's wait.

**SigSwitch**, **SigQueueSwitch** and **FifoBench** add the two
loops. `SigQueueSwitch` has queues of values, and `sigqueue` may fail at any
time. `FifoBench` has byte counts for pipes: a write of at most `PipeBuf` bytes is
atomic, a longer one goes in in pieces (`Pieces`), and a read returns what is
there; the message size `nbytes` is chosen at the start among `Sizes`, and
`bystander` is any other process of the group.

**SigFlood** is the family of seven programs that repeat one call and count it
until the alarm: `program`, chosen at the start, selects the loop
(`be_the_parent`, `send_sigs_self`, `switcher`, `iterate`), the mask and the
handlers. A signal that a process sends to itself is taken before `kill`
returns unless it is blocked (`send_sigs_self`).

**Baton** says what a ping-pong benchmark promises: the ball is in play with one
player or on its way, rallies go up when it comes back, and play may stop for
good. `Ball` in each program is the refinement mapping.

**CopyPrograms** is a run of `iopipe` or `aiopipe`, both of which work in blocks;
whether calls may fail is chosen at the start (`mayFail`). **Copy** says that the
output is at any time a beginning of the input, and all of it when the program
ends without an error. In **IoPipe** a read gives between one block and a
buffer of them; a short write ends the program. In **AioPipe** `op[a]` is the
operation of control block `a` (idle, flying, done), `curr[a]` its
`curr_offset`, `sigs` the queued completion signals by kind. `Submit` is
`aio_read` or `aio_write`, `Transfer` the kernel. The mainline's test of
`aio_to_go` and its `sigsuspend` are separate steps (`pc` is `tested` between
them), so that a signal could come in between if it were not blocked. Whether
standard output can be read is chosen at the start (`readable`). One
handler runs per `sigsuspend`; running both completions in one suspension gives
the same states, since nothing happens between them but the test of the loop.
A transfer is one step: torn data of concurrent transfers is not modelled.

**SharedRegion** has the state of any number of runs (`Users`) of a program. An
object is named after the process that created it; `shmName` is what the name is
bound to. `shm_open` empties the region under its other users (`page` is the set
of regions that have their size), and `Access` ends a process by SIGBUS when it
touches an emptied one. **ShmMutexSem** adds the named semaphore. One action is
one call. `iterations` is left out: it is only printed. The history variable
`endedAtWork` is the set of processes ended under their lock, as opposed to anywhere else:
what a killed process leaves behind depends on it, and nothing in the program does.

**Mutex** says what the mutual exclusion benchmarks promise of any number of locks: a
process is under at most one, a lock has at most one process under it, and a
process that has been ended never comes back. `Robust` is the difference between
the two kinds of lock: what becomes of one whose process is ended under it. A
record lock of `shmmutex_flock` is free again, a semaphore of `shmmutex_sem` stays
locked for good. `Under`, `Locked` and `Gone` at the end of **ShmMutexSem** and of
**SharedNames** are the refinement mappings: the locks are the semaphores or the
lock files, named after the processes that made them, and `Locked` is what the kernel
knows, a count of 0 or an owner.

**SharedNames** puts runs of `shmmutex_semembed`, `shmmutex_flock`, `shm` and `msg`
side by side; `Mixes` says which. The first three call their region
`/my_shm` and disagree on what is in it, so `head[r]`, the first bytes of region
`r`, is a count to one program and a text to another (**RegionContents**: a value
above 100 is a text, which a semaphore operation takes for a large count).
`shmmutex_sem` calls its region the same, but keeps its lock elsewhere and is
checked in `ShmMutexSem`. In **ShmExec** `pc[p]` is where the parent is, `child[p]`
where its child is, before and after `exec`; `Signal` is SIGINT or a signal without
a handler, to either. In **MsgSetup** the queue of an earlier run is there at the
start.

**VSched** keeps no state: `sched` is the kernel's. In **Atprio** each of the `Runs`
gets a job (program, whom it affects, delta or absolute) and each system call is a
step, so that runs with the same target (`Shell`) interleave, and another
program may `Reschedule` the shell once. The two error returns of `vsched_getprio` are not
steps of their own: their -1 would be taken for a priority, but the call that sets it is on
the same process and is refused as well, which `Set` allows at any time. The history variables `base` and `touched` say
what a run's target was when the run started and whether another run or
`Reschedule` has changed it since.

**TimerPrograms** is a run of one of the three. `Second` is the number of fractions
in a second, so that the normalisation of intervals is the code's with smaller
numbers; a fraction is a nanosecond for the POSIX.4 timers of `periodic_timer.p4.c` and
`jitter.p4.c`, a microsecond for the `setitimer` of `periodic_timer.c`. In **Jitter** time goes by in `Clock`, a signal that is
already pending absorbs the next (`Expire`), and Control-C comes at any moment
(`Interrupt`).

Throughout, error exits keep their control (which call may fail, who ends, who is
left behind) and not their message. Failing set-up calls whose results the
shared-memory programs do not look at are not modelled.

## 3. Runs

| run | bounds | distinct states | shows |
|---|---|---|---|
| `SigSwitch` | `MaxSends = 4` | 1,400 | the inductive `IInv` (one signal in flight, none lost), reports agree, refinement of `Baton`, the exchange does not dry up, the alarm ends both |
| `SigQueueSwitch` | `MaxSends = 3` | 1,800 | the same with queues that may be full: values in order, reports agree, refinement, the child ends unless the parent gave up |
| `FifoBench` | messages of 2, 3 and 5 bytes, `PipeBuf = 2`, `Capacity = 4`, three messages | 2,700 | small messages arrive whole, reports agree, the alarm ends both, refinement for all sizes, what comes to rest and how |
| `FifoGroup` | as above | | disagreement 1 of section 6 |
| `CopyPrograms` | four blocks, a buffer of two for `iopipe`; output readable or not, calls that may fail or not | 3,400 | `iopipe` implements `Copy`; chains counted, one signal per operation, blocks disjoint, none written twice, termination |
| `CopyRest` | as above | | disagreements 2 and 3 |
| `ShmMutexSem` | two runs, one `mksem`, one `rmsem` | 9,700 | the inductive `IInv` (one holder to a lock, no newcomer finds one in use), refinement of `Mutex` (a killed holder included), names go away, every process ends |
| `SharedNames` | six mixes: three `semembed`; two `flock` and a `semembed`; a `shm` with two `semembed`, with a `flock`, with another `shm`; three `msg` | 275,000 | what each program is sure of in the company of the others, how many a reset of a semaphore lets in, refinement of `Mutex` by `flock`, whatever the others do |
| `SigFlood` | `MaxCalls = 3` per process, seven programs | 1,900 | at least one signal and at most all are counted; where they are blocked, nobody receives one; all end |
| `Atprio` | two runs with any two of seven jobs, three settings, minima 1 and 3 | 72,000 | undisturbed runs adjust exactly, commands run at the right priority (in `AtprioInv`), lost updates invent nothing |
| `TimerPrograms` | four fractions to a second, seven requests; `HZ = 2`, buffers of two, time up to 14 | 5,500 | the interval is the one asked for or exactly the bad ones are refused, ticks go on, no signal before its time |
| `JitterMeasured` | as above | | disagreement 4 |

Why the bounds are enough. `MaxSends` (`MaxWrites`, `MaxCalls`) caps the loops, which
have no state besides their counters; two rounds already show every combination
of program points of the two processes, and the proofs hold for every bound. A
message of exactly `PipeBuf` bytes, the largest that is atomic, a longer one that
still fits into a pipe, and one that not even an empty pipe can hold are the cases
`fifo.c` can tell apart. A
size of 0 is left out: nothing waits for anything then. Four input blocks are two
per chain: a first, a follow-up and the end of file; they also give `iopipe` full
and short reads. Three runs of a mutual-exclusion program are the first of which
two share an object that the third does not. The mixes of `SharedNames` have every
pair of programs that share a name; `shm`, which brings a second process itself, gets
two partners where one is to take its name away and the other to bind it again. For `ShmMutexSem` there are
four processes of three kinds, and the proofs cover any number of each.
In `Atprio`, two runs are the first that lose an update, and different minima
let the wrong one be noticed. The requests of
`TimerPrograms` are negative, 0, below a second, exactly one or two seconds and
beyond; `MaxTime` is three and a half seconds, seven expirations, which is enough to
fill and wrap buffers of two if they were ever filled.

Some of these programs really stop, and a self-loop states where:
`Terminated` (every process over), `Ended` (a copy or timer program over),
`Abandoned` (a child left in `sigsuspend` or in `read` for ever), `Sleep` (`aiopipe` with
an operation that failed to start), `Asleep` (no timer ticking, or none due). Deadlock
is therefore checked everywhere.

## 4. Properties

Each is stated with its code above its definition. `IInv` of a module is its
inductive invariant, a conjunction of the type invariant, safety properties of
their own name and what the induction needs besides; it is checked and proved.
`Inv`, in the two modules that have one, adds safety properties that follow from
it. The main ones:

* `OneToken`, `NoSignalLost` (theorems, from `IInv`): at most one signal is pending,
  being handled or about to be answered, and none disappears. This is what the
  blocking of the signal before the fork buys, and why merging does not hurt.
* `ReportsAgree`, `ReportsFit`: counters of the two processes, or of the sending
  and the receiving half of one, agree but for what is in flight, whenever the alarm
  strikes.
* `ValuesInOrder`, `WholeMessages` (in `IInv`): what arrives is what was sent, in the
  order it was sent; for pipes, only up to `PIPE_BUF` bytes.
* `ImplementsBaton`: every step of either process is a step of the abstract game:
  there is exactly one ball, and it never jumps from one player to the other.
* `ChildStopped`, `AlarmEndsBoth`, `Ends`, `ComesToRest`: the alarm ends both
  processes, or, where the code gives up on an error, what stays behind.
* `SomeArrive`, `NobodyReceives` (in `IInv`): merging never silences the child, and a blocked
  signal is never handled.
* `ImplementsCopy`: whatever fails, `iopipe`'s output is a beginning of its input.
* `NothingOverwritten` (action property): no step writes a block of the output twice or
  takes one back, although nothing in `aiopipe.c` looks at what is there; its two
  chains write past each other in any order, holes included. With an output that is empty at
  first only the first two blocks ever get written (disagreement 3).
* `CountsChains`, `OneSignalPerOperation`, `DisjointBlocks`: `aio_to_go` is the number
  of chains that have not ended, so that exit does not cut off an operation, no
  result is collected twice, and the chains never work on the same block.
* `ImplementsMutex`, of `shmmutex_sem` and of `shmmutex_flock`: mutual exclusion for
  those who share the semaphore or the lock file, as steps of the abstract lock: it
  is taken when free, given up by its owner only, and lost or freed when the owner is
  ended. `SameSemaphoreExclusion` (a theorem) and `HeldAtWorkOnly` (in `IInv` and a
  theorem) are the states' side of it, and `LockComesFree` says that a file lock does come free.
* `ExactWhenAlone`: with a semaphore in the region, a run that has the region to
  itself, whatever lay in it before, finds it locked exactly while it is at work.
  `OneMorePerReset` speaks of runs that share one among themselves: those at work and those
  the semaphore would still let through are never more than the runs that have reset it.
* `LockedByHolder`, `ClosedToNewcomers` (in `IInv`): a semaphore of `shmmutex_sem` is at 0
  exactly when one process is at work under it or was ended there, never two; and nobody
  who comes later gets the region of a run past its `shm_unlink`, or the semaphore of one
  in its loop. That is all the two names guarantee: exclusion is per semaphore, and two runs
  set up at the same time may share the region with a semaphore each (section 6).
* `OwnRegion`, `SeesChild`, `CleansUp`, `WaitEnds`: the image `shm` executes gets its
  parent's region unless the parent has been ended or another run has taken the name
  away, the parent sees what it wrote there, leaves no name behind, and never waits for ever.
  `OwnRegion` says nothing of an image that finds no region at all.
* `LeftoverGone` (in `IInv`): no run of `msg` fails to create its queue because of an
  earlier run's.
* `AdjustsExactly`; `CommandPriority`, `NothingInvented` (theorems, from `AtprioInv`): a run
  whose target nobody else changes sets exactly the priority asked for; a command runs at
  the priority counted from the one inherited; concurrent adjustments may be lost but
  the result is always the sum of some of them, and of one at least.
* `PeriodAsAsked` (in `IInv`), `TicksForever`: the interval set is the one asked for, or it
  is refused; refused are exactly the negative ones and the whole numbers of seconds. The
  interval is in the unit of the usage lines (`nsecs`, `usecs`), which for
  `periodic_timer.p4.c` is not that of the comment on `-t` (disagreement 5).
* `SignalsFit`: `jitter` counts no signal before its interval has passed.
* `NamesGoAway`, `AllEnd`: nothing stays behind for ever.

Fairness. Each process is weakly fair as a whole: the scheduler runs it, and no
preference among its own steps is assumed. Taking a pending, unblocked signal is
weakly fair: the kernel delivers it before the process returns to user mode.
Expiry of the alarm is weakly fair (time passes) in `SigQueueSwitch`, `FifoBench`,
`SigFlood` and `ShmMutexSem`. It is left open in `SigSwitch`, so that `KeepsGoing`
speaks of exchanges that no alarm ends, and `Ends` there says "once the alarm has
gone off"; and in `SharedNames`, where runs of `flock` and of `shm` are fair and
signals from outside need not come, so that `LockComesFree` and `WaitEnds` hold by the
programs' own steps. The kernel completes every asynchronous operation it has
accepted, and an armed timer keeps expiring (`Tick`). `Atprio` checks safety only
and has none. `AllEnd` does not need `sem_wait` to be fair to waiters: the alarm ends a
process that waits for ever.

## 5. Proofs

Every component has its inductive invariant, `IInv` (`AtprioInv` in `Atprio`, which
shares a proof module with another component), which TLC checks as an invariant
of the component's run and TLAPS proves for every value of the constants. In each proof module `Invariance` is that proof: one step per action,
and under it one per conjunct the action can disturb. Everything else follows
from it. The assumptions are the named ones of the modules and no other: bounds
are natural numbers, sets of processes are disjoint and `None` is not one of them,
units and sizes are positive.

`SigSwitchProofs`, of `sigs_sent_swtch.c`, for every `MaxSends`, hence for runs of
any length: `TypeCorrect`, `Invariance`, `NeverTwoNeverNone` (`OneToken`),
`SignalsConserved` (`NoSignalLost`), `ReportsConsistent` (`ReportsAgree`),
`ChildNeverEndsIt` (`ChildStaysToTheEnd`) and `Refinement` (`ImplementsBaton`).
`OneToken` alone is not inductive. `IInv` adds where each process can be
while the other is unborn, running or gone (`Lifecycle`), that SIGUSR1 is blocked
from before the fork (`Masked`), that nothing is on its way before the first
`kill` (`Quiet`), the counting argument (`Conserved`): signals sent are signals
received plus those pending plus the one not yet counted, and that a report shows
the counters of a process that is over (`ReportsCurrent`). `Delivery` isolates
the one delicate step, a signal taken in `sigsuspend`.

`SigQueueSwitchProofs`, of `sigs_sent_swtch.p4.c`, likewise: `TypeCorrect`,
`Invariance`, `QueueInOrder` (`ValuesInOrder`), `ReportsConsistent` (`ReportsAgree`) and
`Refinement` (`ImplementsBaton`). The invariant has the same parts, with the queue in
place of the pending signal; since the conservation of signals leaves at most one
signal in a queue, the order of values comes down to its first element, and
`ValuesCount` ties `val` to the counters.

`FifoProofs`, of `fifo.c`, for all message sizes, pipe capacities and bounds:
`TypeCorrect`, `Invariance`, `MessagesWhole` (`Inv`, with `WholeMessages` and
`AlarmEndsBoth`), `ReportsConsistent` (`ReportsAgree`) and `Refinement`
(`ImplementsBaton`). `OneMessage` is the core: the message is at the parent, on its
way to the child, at the child or on its way back, and each of the four cases says
how many bytes are in either pipe, how many the writer still holds back, and how
the four counters compare. With more bytes than `PipeBuf` the same four cases hold
until the first partial read, which ends the game.

`SigFloodProofs`, of the seven programs that repeat a call, for every `MaxCalls`:
`TypeCorrect`, `Invariance`, `BlockedIsNeverReceived` (`NobodyReceives`),
`FloodIsHeard` (`SomeArrive`) and `ReportsConsistent` (`ReportsFit`). Signals merge here,
so there is an inequality in place of the conservation (`NoneInvented`), an equation
only where a process sends to itself (`SelfCounted`).

`CopyProofs`, of the two copying programs, for every input and buffer size:
`TypeCorrect`, `Invariance`, `ChainsApart` (`Inv`), `ChainsCounted` (`CountsChains`),
`BlocksWrittenOnce` (`NothingOverwritten`) and `Copies` (`ImplementsCopy`). `CopySoFar` says for each place in `iopipe.c`'s
loop how much of the input is in the output, and is at the same time what the
refinement of `Copy` needs. For `aiopipe.c`, `Queued` says that the queues hold
exactly the operations that are done, each once, so that taking a signal ends
exactly one operation; `InStep` that chain `a` is at a block of its own parity,
which keeps the chains apart; `Counted` compares `aio_to_go` with the operations in
being, with an inequality where calls may fail: a chain that could not start is
counted for ever, which is why `aiopipe` may sleep for ever (`Sleep`) but never
exits over a chain that is still going. `Behind` is what `NothingOverwritten` needs: a
chain has written nothing further on than the block it is at, and that one only if
its write has been carried out; with `InStep`, the block of a write on its way is
therefore still to be written (`Unwritten`).

`ShmMutexProofs`, for any sets of runs of `shmmutex_sem`, `mksem` and `rmsem`:
`TypeCorrect`, `Invariance`, `MutualExclusion` (`SameSemaphoreExclusion`),
`OnlyUnlockedHaveNames` (`BoundMeansUnlocked`), `NoStrayLock` (`LockedByHolder`: a semaphore
somebody has is at 0 if and only if somebody is at work under it or was ended there, and it
is never two),
`NoSigbusAlone` (`SigbusOnlyWhenShared`), `NothingLeftBehind` (`NamesGoAway`),
`Refinement` (`ImplementsMutex`) and `ExcludesAsMutex`, which reads the exclusion off the
abstract lock. The argument: a process creates its objects before anyone can have them (`Fresh`);
nobody works with a semaphore that still has a name, since its own unlink came
first (`Opened`); so no newcomer can get hold of a semaphore in use, and the value
counts those at work and those ended at work, by `endedAtWork` (`Counted`, `ClosedToNewcomers`). Whoever binds a name, somebody past the open and
before the unlink is left to take it away, and no alarm is ticking yet to stop
them (`Unlinkers`). A region that has been emptied has a second user (`Mapped`).
Each step of a run is then one of `Mutex` or changes none of its three variables: a
`sem_wait` that succeeds is `Enter`, `sem_post` is `Leave`, and the end of a process,
by alarm or SIGBUS and wherever it is, is `End`. Opening a semaphore must not look like
entering or leaving a lock; that a process has none before `sem_open` had to be added to
`Opened` for it.

`SharedNamesProofs`, for any number of processes and any mix of the four programs
that meet through names: `TypeCorrect`, `Invariance`, `SemaphoreExactWhenAlone`
(`ExactWhenAlone`), `LockHeldAtWorkOnly` (`HeldAtWorkOnly`), `FileLockExcludes` (that
therefore two runs are never at work under the lock of one file), `ParentSeesChild`
(`SeesChild`), `ImageFindsRegion` (`OwnRegion`), `NameRemoved` (`CleansUp`), `NoLeftover`
(`LeftoverGone`) and `Refinement` (`ImplementsMutex`): only the steps of `flock` move the
abstract lock, a failing `fcntl` included (`FlockRefines`), and the ends of the
others leave it alone. The invariant says besides who can have a region yet
(`Fresh`, `Opened`), how far parent and child of `shm.c` can be from each other
(`Forked`), that a name nobody has removed is bound to the region of every run of
`shm` (`Named`), and what the child of an undisturbed one has left there
(`ChildText`).

`RealTimeProofs` has two parts. Of `Atprio`, for any number of runs with any jobs, any
priorities, and any rescheduling from outside: `AtprioTypeCorrect`,
`AtprioInvariance`, `CommandsAsAsked`
(`CommandPriority`), `ExactAdjustment` (`AdjustsExactly`) and `SomeAdjustments`
(`NothingInvented`). The first half of the invariant follows a run from call to
call: what its local variables hold at each, as long as nobody else has touched its
target (`AsFound`), and that nobody else touches a run that affects itself
(`Undisturbed`). The second is about runs that overlap: what an adjustment under way
has read is the sum of some that had come to their end (`Reading`), so that its
call adds one delta to such a sum. For that the proof needs to know what a sum
over a set is. `Total` is a recursive function over subsets; `SumsUnique`,
`TotalStep` and `TotalAdds` show what it computes, by induction in the form that
needs no operator as a parameter: of the finite sets that lack the property, a
smallest one is taken (`SmallestSet`, from the library's `WFMin`).

Of `TimerPrograms`, for any unit, set of requests, `HZ`, buffer sizes and time:
`TypeCorrect`, `Invariance`, `PeriodCorrect` (`PeriodAsAsked`) and `NoSignalEarly`
(`SignalsFit`). `Normalised` is the loop
invariant of the normalisation: it moves whole seconds about without changing
the length, and leaves at least a fraction. `Ticking` is the arithmetic behind
`SignalsFit`: intervals counted, pending and under way fit into the time since the
start.

Three things came out of the proofs. The mapping `Ball` of `FifoBench` was a CASE
with two arms that can hold at once, for messages a pipe can hold but does not take
in one piece: its value was left open there, TLC took the first, and no
size that a run had could tell. It is an IF now, and the run has such a message.
`Inv` of most modules was not inductive: the parts named above are what was
missing. And the refinement of `Mutex` showed that the invariant of `ShmMutexSem` let a
process have a semaphore before it had opened one, which no run could reach.

Only model-checked:

* liveness (`KeepsGoing`, `ChildStopped`, `Ends`, `ComesToRest`, `AllEnd`,
  `LockComesFree`, `WaitEnds`, `Terminates`, `TicksForever`), which is out of the
  prover's reach;
* `OneMorePerReset`, which counts processes: for every set of `Users` it would need the
  cardinality of sets that may be infinite, and it says nothing for those;
* the first four disagreements of section 6, which are counterexamples.

`OneToken`, `NoSignalLost`, `BoundMeansUnlocked`, `SameSemaphoreExclusion` and `FileExclusion` follow from the
invariants and have no run of their own.

## 6. Where code and comments disagree

1. `fifo.c:134`, `FifoGroup`. The comment says "Parent--kill child too", but the
   child, whose `chpid` is 0, passes the same test and its `kill(0, SIGALRM)`
   reaches its whole process group.
2. `aiopipe.c:42`, `CopyRest`. "turn around and write it out" writes `buf1`,
   also when the block was read into `buf2`.
3. `aiopipe.c:65`, `CopyRest`. "Fire up another aio_read" reads from standard
   output: only the first two blocks are ever copied. One trace shows both: of
   the blocks 11, 12, 13, 14 the output gets 11, 11.
4. `jitter.p4.c:178`, `JitterMeasured`. "Jitter wasn't measured on the first signal"
   (line 157), nor on any other: `prev` starts at -1 and is assigned only where it is
   not negative, so no time stamp is ever compared with the one before.
5. `periodic_timer.p4.c:12`. The comment on `-t` says "specify time interval in usec", but
   line 62 takes the number for nanoseconds, as the usage line (24) says. There is no run
   of its own for this: `PeriodAsAsked` is about the unit of the usage lines. The same
   comment is right in `periodic_timer.c:12`, from which it seems to have been copied.

Also seen, and part of the models, where no comment speaks of it or it speaks of
something else:

* `aiopipe` sleeps for ever when `aio_read` or `aio_write` fails (`Sleep`), and a failing
  `sigqueue` or an error exit of `fifo`'s parent leaves the child behind (`Abandoned`).
  `fifo` takes the first partial read of a message above `PIPE_BUF` for an error and
  exits (`AnySize` of `FifoBench` fails), although it announces reads and writes of any
  size.
* Two runs of `shmmutex_sem` started together may share the region and
  not the semaphore, or the other way round, since two names are bound and removed
  one after the other; a second run of `shmmutex_semembed` may reset a semaphore that is
  held, and `shmmutex_flock` or `shm` overwrite it. These programs say in their headers
  that there is one process only, so their exclusion properties are stated per lock,
  for a run on its own, and by the number of resets (`OneMorePerReset`).
* `cleanup` of `shm.c` removes whatever the name is bound to by now, another run's
  region included, and does not run for signals other than its three; the image
  executed uses `SHMNAME` where a comment says its argument (`shm.c:98`).
* Two runs of `atprio` adjusting one shell may lose one of the adjustments.
  `vsched_getprio` returns -1 for an error and for nothing else a caller could tell, so
  that a shell put under `SCHED_OTHER` between the two looks of `atprio` is adjusted from
  priority -1. Likewise a policy that has changed between the `sched_getscheduler` and the
  `sched_setscheduler` of `vsched_setprio` is put back. `AdjustsExactly` speaks of runs that
  nobody disturbs, and so of neither. `vsched.c:76` says that the system call will return an error for other
  policies: not for priority 0. `vsched_initialized` is never set, so the
  limits are asked for in every call, which does no harm.
* `periodic_timer*.c` refuse an interval of any whole number of seconds, and never tick
  with 0. `jitter.p4.c`, whose report is not modelled, adds a second where it should borrow one, reads microseconds
  as nanoseconds, reports a time since 1970 when Control-C comes before
  `clock_gettime`, divides by 0 with a single signal, and, where `HZ` is beyond 31622,
  has an interval of 0.
* The comments of `sending_recving_sigs_self.c:29` (SIGUSR1 is blocked), `switch.c:55`
  and `noswitch.c:35` (a `sigsuspend`) are left over from other programs.

## 7. Not modelled

* The loops and the alarm handler of `msg.c`: they are those of `fifo.c`, on descriptors
  the listing does not declare or open, beside the queues it creates and never uses.
* `cpubound.c` and `iobound.c`: endless loops that share nothing and count nothing.
* Printed rates (and their overflow, `fifo.c:133`), wording, usage errors; the contents of
  `jitter`'s report, elapsed time included; the error returns of `vsched_getprio` as steps
  of their own (section 2); `O_DSYNC`; torn data of
  concurrent transfers; results of set-up calls that the shared-memory programs ignore.

## 8. Plan

Done in this order: ping-pong with signals (the richest interleaving), its
abstract specification and proof; queued signals and pipes against the same
specification; asynchronous I/O; mutual exclusion and its proof; flooding and the
loop benchmarks; the synchronous copy and its specification; the programs that meet
through names; priorities; timers; the abstract lock and its refinements.

The inductive invariant of every component, the safety and action properties the runs
check and the refinements of `Baton`, `Copy` and `Mutex` are proved (section 5).

What could follow is a transfer of part of a block: `aiopipe` writes as many bytes as it
has read, at an offset that counts whole blocks, and here a block is always whole.
