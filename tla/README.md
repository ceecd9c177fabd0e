# Verification of the concurrency course tasks

The repository holds the solved tasks of a course on concurrency in C++: locks,
condition variables and what is built from them, a thread pool, atomics in
assembly, coroutines and fibers, an echo server, and a few warm-ups. Each
directory under `src/tasks` is a program of its own. This directory holds TLA+
models of the ones with behaviour worth checking, the TLC configurations that
check them, and proofs of their main properties for TLAPS.

Paths below are relative to `src/tasks`.

## Inventory

| Part | State | Operations | What is hard | What makes it correct |
|---|---|---|---|---|
| `condvar/thread-pool/tp/static_thread_pool` | work counter, worker threads | Submit, Join, Shutdown, Work, destructor | the counter and the queue are updated apart; tasks submit tasks; Join and Shutdown race with late Submits | the counter is exact, Join runs what it promised and returns, Shutdown starts nothing more, nobody sleeps beside work |
| `condvar/thread-pool/tp/blocking_queue` | queue, closed flag, waiters | Put, Take, Close, Cancel | lost wakeups, closing under takers | as above |
| `condvar/thread-pool/tp/helpers` | a task counter and its waiters | ExecuteHere; Increase, DecreaseAndCheck, WaitForNoTasks | only the decrease to 0 notifies, and tasks begin again at once | nobody sleeps without a task whose end wakes him |
| `mutex/mutex` | one 32-bit flag, the kernel's wait queue | Lock, Unlock | check-then-park, the transient value in Unlock | mutual exclusion, no lost wakeup, progress |
| `mutex/spinlock`, `coroutine/mtf/support` | one word, the store buffers | Lock, TryLock, Unlock | a plain store as release | mutual exclusion and visibility on x86 |
| `mutex/try-lock` | two ticket counters | Lock, TryLock, Unlock | TryLock acts on two loads of different moments | exclusive, no stranded ticket, no deadlock of its users, TryLock does not wait |
| `mutex/livelock` | the number of threads at the lock | Lock, Unlock | everybody steps back (the exercise is to show it) | exclusive, and whoever contends alone gets in |
| `intro/mutexed` | an object and its mutex | Lock, the reference's `*` and `->` | `*` returns a copy, `->` the object | updates through `->` are exclusive |
| `condvar/condvar` | 32-bit notification counter | Wait, NotifyOne, NotifyAll | Wait must be atomic; the counter wraps | no lost notification |
| `condvar/semaphore` | counters; buffer; tokens | Acquire, Release; Put, Take; tokens and guards | three semaphores in one queue; a permit returned before its token is checked | permits conserved, bounded FIFO, no deadlock |
| `condvar/barrier` | counter, flag, two condition variables | Arrive | threads of two rounds at once | nobody laps, nobody sleeps through |
| `mm/atomic` | one word per atomic | Load, Store, Exchange with orders | store-load reordering, an exchange of two moves | sequential consistency of SeqCst, atomic exchange |
| `intro/dining` | forks, plates | EatThenThink | a ring of hold-and-wait; plates shared by two seats | plates exclusive, somebody always eats |
| `coroutine/mtf` | the current coroutine, contexts; current fiber; event loop; stack pools | Resume, Suspend; Spawn, Yield, Dispatch; Submit, Join; Acquire/ReleaseStack | a fiber is resubmitted before it has left its stack; fibers move between threads | one dispatcher at a time, every fiber destroyed once, Join loses none |
| `fibers/coroutine` | coroutine and pool of `coroutine/mtf`; the fibers are stubs | Resume, Suspend, Trampoline; Submit, Join | exceptions that climb through nested Resumes on stacks of their own | the switches are those of nested coroutines; an exception is neither lost nor thrown twice |
| `fibers/mutex`, `fibers/channel` | the thread pool; everything else is a stub | Submit, SubmitContinuation, Join | tasks submitted while Join runs | what was promised runs before Join returns |
| `asio/echo` | acceptor, sessions, their buffers | accept, read, write | completion handlers, one buffer, clients that stop reading or reset | a session echoes what it reads, in order; one client does not hold up another |
| `intro/deadlock`, `intro/jump`, `intro/aplusb` | - | - | exercises about tools and C++ | - |

How the parts meet. The pool's Submit and Work call the queue; the queue blocks
in a condition variable; Join parks on the pool's counter. The philosophers of
the try-lock stress test call Lock and TryLock of neighbouring ticket locks. The
spin locks and the atomics of `mm` are sequences of machine instructions over
store buffers. Fibers are coroutines whose Dispatch is a handler of an asio
event loop that the pool's threads run. Everything else is called by test code
only. The primitives of twist (`twist::stdlike`), asio, wheels and the context
switch come from libraries outside the repository and are modelled from their
use.

## Modules

| Module | Models |
|---|---|
| `UnboundedBlockingQueue` | the task queue: `queue_`, `is_closed_`, and the waiters of `is_empty_`. Every method is one step, since it holds the mutex from its first access to its last; a wait ends the step, and a woken thread evaluates its loop again |
| `StaticThreadPool` | the pool over that queue. `pc` follows each worker through `Work`, `owner` follows the thread that stops the pool through Join or Shutdown and the destructor, `pending` marks a Submit between the increment and the Put. `status` and `early` are history variables: what became of each task, and which tasks Join must run |
| `CountingTasks` | the task counter of the helpers, with threads that begin and end tasks and threads that wait for none |
| `Mutex`, `AbstractLock` | the futex mutex and the lock it implements |
| `X86TSO` | memory with store buffers; `Load`, `Store` and `LockedStore` are `movq`, `movq` and `xchgq` |
| `CriticalSection` | what threads do under a lock in the stress tests: read a plain counter and write it back plus one |
| `TASSpinLock`, `TrickyLock`, `Mutexed`, `AtomicSpinLock` | the locks that spin: those of `mutex/spinlock` and `coroutine/mtf/support`, of `mutex/livelock`, of `intro/mutexed` (whose mutex is external), and of the stress test of `mm/atomic` |
| `SpinLocks` | their composition: the variable `lock`, chosen initially, says which of the five the threads use |
| `Atomic` | Load and Store of `mm/atomic` by memory order, and Exchange in its two instructions |
| `PetersonMutex` | the mutex of the `mm/atomic` stress test over those stores |
| `TicketLock`, `ForksTable` | the ticket lock's steps, and the philosophers of its stress test as the threads that take them |
| `DiningTable` | the philosophers of `intro/dining`, at tables of several sizes; `AccessedPlate` is the plate each one touches |
| `CyclicBarrier`, `AbstractBarrier` | the two-phase barrier and the barrier it implements |
| `BoundedQueue` | an abstract bounded blocking queue, which two programs implement |
| `Semaphore`, `BlockingQueue` | the counting semaphore, and the queue that takes a slot or an item, the buffer's mutex, and gives back the other |
| `TaggedSemaphore` | tokens and guards over `Semaphore`, with users that also release and drop them wrongly; a failed assert ends the program |
| `CondVar`, `CondVarQueue`, `Robot` | the futex condition variable and the two programs of its stress test: a queue that notifies with and without the mutex held, and a robot whose legs share one condition variable |
| `Coroutine` | what coroutines promise: the current coroutine of each thread, and who waits in Resume for each |
| `EventLoopPool` | the asio thread pool: `post` queues a handler at once, `defer` when the present handler has returned, and the loop stops when the work outstanding, the guard included, is over |
| `Fibers` | fibers over both: `Dispatch` in its steps on each worker, the routine's choices (yield, spawn, resume a coroutine of its own, return, throw), the stack pools of the threads, Join. `life` is a history variable |
| `CoroutineTasks` | the same coroutine code one level down: contexts, `current`, `last`, `caller_context_`, `exception_`. `executing` is the context a worker is in, `at` where the code of each context stands, `raised` the exception that passes through it. It implements `Coroutine` |
| `TaskLoop` | the pool alone, as `fibers/mutex` and `fibers/channel` have it, the same file in both, with tasks submitted from outside and by tasks, before and during Join |
| `EchoServer` | the acceptor and one session per client as chains of operations and handlers; the clients and the kernel's buffers are external |
| `Mutex_proofs`, `CyclicBarrier_proofs`, `StaticThreadPool_proofs`, `SpinLocks_proofs` | theorems about the module of that name; that of the pool is also about `CountingTasks` |
| `Semaphores_proofs`, `CondVars_proofs`, `Tables_proofs`, `EventLoops_proofs` | theorems about `BlockingQueue` and `TaggedSemaphore`; about `CondVarQueue`; about `DiningTable` and `ForksTable`; about `TaskLoop`, `EchoServer`, `Fibers` and `CoroutineTasks` |
| `MC...` | instances for TLC; where two or more programs share one, a variable chosen in its initial predicate says which one runs, and only that one moves |

A step is one access to an atomic, one futex call, one machine instruction on
shared memory, one handler's access to shared state, or one critical section of
a mutex, whichever the code uses. A condition variable is the set of the threads
waiting in it; waits may return spuriously, and so may futex calls. The mutants,
operators with a "Mutant of" comment, are plausible bugs: substituted for the
definition they name they make one property fail, which shows that the property
sees that code.

## Runs

| Run | Instance | Properties |
|---|---|---|
| `pool` | `MCTaskPools`: 2 workers, 2 clients, 3 tasks of clients and 1 submitted by a task; or 2 runners with up to 2 tasks each and 2 waiters | `WorkConserving`, `CounterAccounting`, `JoinCompletes`, `AbortsOnlyAfterRefusal`, `ShutdownDropsQueued`, `StopCompletes`; `SleepersHaveATask` |
| `mutex` | `Mutex`: 4 threads, unbounded | `MutualExclusion`, `NoLostWakeup`, `ImplementsLock` |
| `barrier` | `CyclicBarrier`: 4 threads, 3 rounds | `OneRoundAtATime`, `NobodySleepsThrough`, `ImplementsBarrier` |
| `tas_tso` | `SpinLocks`: five locks, 3 threads, 2 critical sections each | `MutualExclusion`, `SectionsSeeEachOther`, `ExclusionFailsOnlyByOverlap`, `SomebodyEnters`, `SoloEnters` |
| `forks` | `MCTables`: 3 philosophers with ticket locks; or 2, 3 and 5 with mutexes; unbounded | `ForksExclusive`, `WaitersServed`; `PlatesExclusive`, `SomebodyEats` |
| `queue` | `MCSemaphores`: 3 producers, 2 consumers, capacity 2, two values; or 3 users of 2 tagged semaphores with a permit each; unbounded | `PermitsConserved`, `NobodyOversleeps`, `ImplementsQueue`; `TokensConserved` |
| `condvar` | `MCCondVars`: 2 producers, 2 consumers, capacity 1, two values; or the robot; unbounded | `NobodyOversleeps`, `ImplementsQueue`; `TurnsTaken` |
| `fibers` | `MCEventLoops`: 2 workers and 3 fibers, one with a coroutine of its own, 3 yields or resumptions in all | `OneDispatcher`, `HandlersOwnFibers`, `CallersNest`, `StacksAccounted`, `JoinLosesNothing`, `JoinEnds` |
| | or 2 workers and 3 coroutines, 3 resumptions in all | `ImplementsCoroutines`, `ExceptionsClimb`, `JoinEnds` |
| | or 2 workers and 4 tasks | `PromisedTasksRun`, `JoinEnds` |
| | or 2 echo clients, one of which need not read, 3 bytes each | `EchoConserved`, `ReadersServed` |
| `pool_join` | the pool of `pool` | `JoinAlwaysReturns` fails: Join may never return |
| `pool_destructor` | the pool of `pool` | `DestructorAssert` fails |
| `ticket_trylock` | the ticket forks of `forks` | `TryLockNeverWaits` fails: TryLock may wait |
| `peterson_tso` | 2 threads, unbounded | `MutualExclusion` fails: Peterson's mutex admits both |

### Bounds

* *Pool.* Two workers suffice for one to sleep while the other takes, and for a
  last decrement to race with Join; the fourth task is submitted from inside the
  pool, and two clients can be late independently. `MaxRunning` (2) lets the task
  counter go to 0 and up again while waiters wake.
* *Mutex.* Four threads let two sleep while one unlocks and one barges in.
* *Barrier.* Four participants and three rounds (`Rounds`) allow two threads to
  be fast and two slow at both ends of a round.
* *Spin locks.* With two critical sections per thread (`Rounds`) every handover
  has a release still buffered; a buffer of two (`BufferSize`) holds the data
  store and the release behind it. Once two exchanges of the `atomic` lock have
  overlapped, nobody calls Lock again (a guard of `Calls`): what follows has no
  property.
* *Forks.* Three seats are the smallest cycle of hold-and-wait that is not
  mutual; a fork never has more than two tickets out, so ticket numbers may wrap
  at three (`TicketRange`; `size_t` in the code) without two of them meeting. The
  table of two of `intro/dining` is the case where both neighbours are the same;
  five has waiting chains that do not meet.
* *Queue and tokens.* Two producers can wait while a third inserts and both
  consumers take; capacity 2 lets two items be announced in one go, which is
  where a semaphore that notifies too rarely goes wrong. Of three users one can
  wait for a token that another returns into the other semaphore of the tag.
* *Condition variable.* The notification counter wraps at `CounterRange` or
  `SignalRange`, 3; `Laps` keeps it from being incremented all the way round
  between the load and the futex call of one Wait: the wrap that the task's
  readme admits is outside the model. The robot needs no such bound, since its
  turns alternate.
* *Fibers.* Two workers can hold one fiber's dispatch and its next one; three
  fibers let one be spawned from inside while another has returned to a pool;
  `Budget`, 3 yields and resumptions in all, lets a fiber be dispatched four
  times, or two of them yield twice and once.
* *Coroutines and tasks.* Three coroutines nest three deep or run on both
  workers; the three resumptions (`Resumptions`) let an exception climb through
  two routines to a task. Of four tasks two can be submitted by a task, one
  before and one after Join has been called.
* *Echo.* Messages of three bytes with a buffer and a wire of two
  (`kBufferSize`, `WireSize`) are read and written in parts, and a client that
  does not read blocks its session; one accept may fail (`MaxAcceptErrors`).

Where the system may really stop (no client submits again, all rounds are over,
the program has been joined) the configuration turns the deadlock check off; it
is on for `mutex`, `forks`, `queue` and `condvar`.

### Fairness

Threads that are inside an operation take their next step (weak fairness),
critical sections end, tasks end, buffered stores drain. No thread is obliged to
call Lock, Arrive, Submit, Join or Shutdown, to get hungry or to send, and
spurious wakeups are never owed. Barging is allowed, so the mutex promises that
some waiting thread gets it, not each; the ticket lock serves each. The queues
promise that some waiting Put or Take goes on, not each. The philosophers of
`intro/dining` take forks that may be snatched away, so somebody eats, not each.
In `condvar` the mutex itself, a library's, is assumed to starve nobody (strong
fairness): otherwise spurious wakeups could keep it busy forever.

The programs of `fibers` are finite: routines have a budget, coroutines a number
of resumptions, tasks and bytes are finitely many. There one weak fairness
condition suffices: somebody who has something to do goes on (`FibersGoOn`,
`CoroutineTasksGoOn`, `TaskLoopGoesOn`, `EchoGoesOn`). It asks for no more than
that the threads of the pool run, that Join returns once they have left, and
that the event loop and the clients in `Readers` do what they can. `JoinEnds`
excepts a task that throws, which ends the program.

## Disagreements between code and documentation

* `pool_join`: `Join` calls `FutexWait(0)` while the counter is not 0. The call
  parks only if the counter *is* 0, so Join spins while there is work, and when
  the last worker decrements and notifies between Join's check and its call,
  Join sleeps on the very value it waits for, forever
  (`static_thread_pool.cpp:33-36`, against `static_thread_pool.hpp:24-26`).
  `StopCompletes` shows that this call is the only place where Join gets stuck.
* `pool_destructor`: a Submit refused by the closed queue has already counted
  its task; the destructor's assertion fails. `AbortsOnlyAfterRefusal` shows
  that nothing else makes it fail.
* `ticket_trylock`: `TryLock` calls `Lock`, and waits when somebody took the
  ticket in between; the task's readme forbids both. The `forks` run shows what
  survives: exclusion, and (by TLC's deadlock check and `WaitersServed`) that the
  philosophers never all wait.
* `peterson_tso`: `AtomicStoreSeqCst` is a plain `movq`, so SeqCst stores pass
  later SeqCst loads, and the test's mutual exclusion fails.

Two more facts the models record without a run that fails. The exchange of
`mm/atomic` is a load and a store (`atomic_ops.S:49-52`), so the spin lock of
its stress test does not exclude; `ExclusionFailsOnlyByOverlap` shows that it
does as long as no exchange reads a 0 inside another one. And `operator*` of a
`Mutexed` reference returns a copy (`mutexed.hpp:25-28`): what is done to it is
lost, which `TakesCopy` models; `SectionsSeeEachOther` is about `->`.

## Proofs

The theorems hold for every value of the constants that the named assumptions
of the modules admit: any finite set of threads, users, tasks, fibers and
semaphores, any relation of who submits what, any capacity, buffer and wire, any
number of rounds, tables of any sizes. Finiteness is there because the
invariants count. Two assumptions say more. A pool of the event loop has a
worker (`EventLoopAssumption`): without threads Join returns at once and leaves
the handlers, as the code would. The range of tickets exceeds the two users of a
fork (`TableAssumption`): with fewer tickets two waiting threads would hold the
same one, as with 2^64 threads in the code.

*Mutex* (`Mutex_proofs`). The inductive invariant `IInv` is the type invariant,
"a parked thread stands at `park`", mutual exclusion and the wakeup invariant.
Mutual exclusion needs the equivalence "flag is 0 iff nobody holds": a
compare-exchange or exchange that reads 0 finds no holder. The transient 1 that
`fetch_sub` leaves belongs to a thread still counted as holder. `Refinement`
maps each step to a step of `AbstractLock` or a stutter.

*Pool* (`StaticThreadPool_proofs`). The counter is a sum over tasks in the code
and a cardinality in `CounterAccounting`; the invariant ties both to the places
where a task can be: the Submit that counted it (`pending`), the queue, the
worker that runs it (`current`), each task in one place only. `JoinCompletes`
rests on: while Join waits, a task promised to it is counted, so Join cannot
pass its check before it is done; once the queue is closed by Join every task in
it is still taken, and a worker exits only when the queue is empty.
`WorkConserving` (`NoIdleWorker`) compares the queue with the number of workers
that are awake and about to take: a Put that finds somebody asleep wakes one of
them, and nobody falls asleep over a queue that is not empty. The task counter of
the helpers (`SleepersWait`) is the number of pairs of a runner and one of its
unfinished tasks, and somebody sleeps only while it is not 0.

*Semaphores* (`Semaphores_proofs`). `PermitsConserved` is three equations between
a counter, the length of the buffer and how many threads stand at certain
places. It is inductive with the types alone (`IInv`): a thread that goes from
one place to another changes each count by at most one (`PlacesMove`), and a
step whose permits, items and counts add up to nothing keeps the equations
(`BalancedMove`). From them follow the bounds of the type invariant, that a Take
at `front()` finds an item (`ItemThere`) and that an insertion finds room
(`RoomThere`), which is what `Refinement` needs to map each step to a step of
`BoundedQueue` or a stutter. `NobodyOversleeps` has its own invariant: while
somebody sleeps in a semaphore, each permit has one of the others at the door
(`Covered`). The tokens are counted one by one, the permits as pairs of a
semaphore and a number: no step, a Release of a token that is not valid
included, changes the three counts of `TokensConserved` in different amounts
(`BooksKept`).

*Condition variable* (`CondVars_proofs`). A thread in Wait is `Fresh` as long as
nobody has notified its condition variable since it loaded the counter; by the
bound `Laps` the counter has not come back to the loaded value otherwise, so the
futex call parks fresh threads only. Who is parked or fresh has found the queue
full, or empty, under the mutex (`Found`). From then on each removal, or
insertion, is matched by a notification that is still to come or by a thread that
has been woken and not yet looked (`RoomCovered`, `ItemsCovered`). The latter has
to tell the producers that have yet to insert from those that have yet to notify,
since the latter may notify after they have let go of the mutex.

*Barrier* (`CyclicBarrier_proofs`). The counter is the number of threads inside,
and all threads agree on the last round they have seen opened (`SameRound`),
which an arrival does not change and the opening changes for everybody at once.
So whoever arrives last finds all others waiting for the opening, and whoever
departs last finds all of them out: no count is of two rounds
(`OneRoundAtATime`), and the flag changes only when nobody is left who waits for
its old value (`NobodySleepsThrough`).

*Tables* (`Tables_proofs`). A ticket lock that is a fork has two users. `Fit` lists
the five ways in which its two counters and the stages and tickets of the two go
together; each step of a philosopher leads from one to another, whatever the
tickets are, as long as three in a row differ. `SeenBusy` says that a `TryLock`
between its two loads cannot find the fork free that it holds. In `intro/dining`
the invariant says which forks a philosopher holds at each place of his round; it
does not depend on who begins on which side. Who accesses a plate holds the fork
of that number, and a fork has one holder.

*Spin locks* (`SpinLocks_proofs`). For the locks of locked instructions somebody is
busy from the entry until the last store of the section has left its buffer.
`Shape` says what a buffer can hold: nothing, the counter, or the counter and
behind it the release, which only the plain store of `mutex/spinlock` puts there.
`Word` says that the lock's word is 0 only when nobody is busy (of the
`TrickyLock`, that it counts the threads at the lock); so one is busy at a time,
and what he sees of the counter, in the buffer or in memory, is the number of
sections done (`DataSeen`). For the lock over the exchange of `mm/atomic`, `Owner`
is who has read the 0 or has its release in the buffer. Until two exchanges
overlap there is one owner, and its 1 is in memory or on the way there
(`Owned`); in its buffer releases and 1s alternate (`Alternate`), since buffers
keep their order.

*Event loop* (`EventLoops_proofs`). `PoolFits`, the fact that Join rests on: the
outstanding work is the number of queued handlers, running handlers and the
guard; so the loop stops only when nothing is queued, runs or is deferred. With
"a promised task has run, runs, or is where a worker will find it" (`LoopInv`)
follows `PromisedTasksRun`. The echo server's invariant is `EchoConserved` with
one fact about the buffer: it is empty when a read begins (`BufferFree`).

*Fibers* (`EventLoops_proofs`). `FInv` has five parts. `FiberPool` is `PoolFits` of the
dispatches. `Handlers`: a live fiber has one handler, and a second one only
between its Yield and the end of that dispatch, where it is deferred by the very
worker that dispatches the fiber, so no other worker can take it; this is why
`SubmitContinuation` must defer. `Callers`: below a fiber no coroutine waits, and
below a coroutine of a fiber's own only that fiber. `Ends` relates the stop of the
loop to Join. `StackInv` adds where each stack is: with one live fiber or in one
pool. It gives that no stack is lost or used twice, and that there are never more
stacks than fibers.

*Coroutines* (`EventLoops_proofs`). `CInv` says how contexts, pointers and tasks
fit. `Claims`: a coroutine is resumed by one context at a time, and stands where
that context's place lets it stand. `Handed`: it has one handler, and none while
it is resumed. `Linked`: the context saved in a coroutine that is in progress is
the one that waits for it in Resume, nobody executes that one meanwhile, and
`current` and `last` name the same contexts as the saved ones. `Homes`: each
context belongs to the worker on whose stack of Resume calls it is, so a switch
out of a coroutine leads to a context of the same worker. With these, each
`SwitchesTo` is a `Resume` of `Coroutine`, each switch out of a coroutine a
`Suspend` or `Complete`, and every other step a stutter (`CoroutinesAreNested`,
all of `ImplementsCoroutines`). For `ExceptionsClimb` two more facts: a coroutine
throws once (`Exceptions`), and `exception_` counts as long as somebody waits in
Resume for the coroutine (`Carriers`).

Refinements are proved for the mutex, both queues, the barrier and the
coroutines.

Only model-checked: liveness (`StopCompletes`, `WaitersServed`,
`SomebodyEnters`, `SoloEnters`, `SomebodyEats`, `TurnsTaken`, `JoinEnds`,
`ReadersServed`, the progress half of the refinements), which the prover does
not reach. Every invariant that a passing run checks is proved. The type
invariants are proved and are not among the runs' properties.

## Not modelled

* `WaitQueue` (`mutex/mutex/wait_queue.hpp`), which no code uses, and the
  exercises `intro/deadlock`, `intro/jump` and `intro/aplusb`.
* The method bodies of `fibers/mutex` and `fibers/channel` other than the pool's,
  and of the fibers of `fibers/coroutine`: they are "Not implemented". `Schedule`
  of that copy is modelled as the Submit it is.
* The copies of `stacks.cpp` and the spin lock in `fibers/coroutine`, byte for
  byte those of `coroutine/mtf`, which are modelled there.
* Task bodies other than what they submit, throw or resume; `Current()` beyond
  the fact that a task finds its pool; the lifetime of a lock that is destroyed
  by its next owner; what a compiler keeps in registers across a context switch;
  wrap-around of 32-bit and 64-bit counters other than tickets and notification
  counters; performance requirements of the readmes (spinning, allocation).

`PROJECT.json` lists every part with its status.

## Plan

Done: every part with behaviour of its own has a module and a run. Proved: the
safety properties of the mutex, the thread pool and the task counter, the
barrier, the semaphores with their queue and tokens, the queue of condition
variables, the spin locks, both tables, the event loop with its tasks, the echo
server, the fibers and the coroutines: every invariant that a run checks.

What is left is liveness, which stays with TLC, and the hazards without a
property (see `PROJECT.json`).
