# BloCxx: TLA+ models and proofs

This directory holds TLA+ specifications of the concurrent and the failure-handling parts
of BloCxx 2.3.0, the TLC configurations that model-check them, and theorems about them that
TLAPS checks. File names without a directory are under `blocxx-2.3.0/src/blocxx/`.

BloCxx is a C++ framework library. Most of it is sequential (strings, arrays, dates,
file helpers) and is well served by unit tests. What tests reach badly is the part where
threads and processes meet: the thread pools, the locks and queues built from a mutex and
condition variables, thread cancellation, lazy initialisation, shared objects, child
processes and their reaper, the select loop, and the files and sockets that processes share.
The models are about those, and about the few sequential classes whose state spans many calls.

## 1. Inventory

| Component | State it keeps | Operations | What is hard | Status |
|---|---|---|---|---|
| Thread pool (`ThreadPool.cpp`) | work queue, `m_queueClosed`, `m_shutdown`, `m_threads`, three condition variables, `m_workingThreads` | `addWork`, `tryAddWork`, `waitForEmptyQueue`, `shutdown`, the worker loop, constructor, destructor | every call blocks and is interleaved with the workers and with a shutdown in four phases; the dynamic pools start threads in the middle of a call and lose them to a timeout | modelled |
| Thread (`Thread.cpp`, `ThreadImpl.cpp`) | `m_id`, `m_isRunning`, `m_cancelRequested`, `m_cancelled`, `m_joined` | `start`, `join`, `timedWait`, the three cancellations, `threadRunner`, `doneRunning` | cancellation races the end of the thread; a Runnable may deny it; the new thread may run before its parent has its identifier | modelled |
| Read/write lock (`GenericRWLockImpl.hpp`, `RWLocker.cpp`) | a read and a write count per locker, `m_numReaders`, `m_numWriters`, `m_canRead`, two condition variables | acquire and release of both locks | recursion, upgrade of a reader, timeouts that undo a wait, writer preference | modelled |
| MTQueue (`MTQueue.cpp`, `MTQueue.hpp`) | the deque, two counters of blocked calls, one condition variable | `pushBack`, `popFront`, `shutdown` | pushers and poppers share one condition variable that is notified one thread at a time | modelled |
| ThreadBarrier (`ThreadBarrier.cpp`) | two sub-barriers with a count each | `wait` | re-entry by a fast thread | modelled |
| ThreadCounter (`ThreadCounter.cpp`) | the count and its limit | `incThreadCount`, `decThreadCount`, `waitForAll`, `setMax` | two kinds of waiters on one condition, a relative timeout that starts anew | modelled |
| Semaphore (`Semaphore.hpp`) | a count | `wait`, `timedWait`, `signal` | a timeout in the moment of a signal | modelled |
| `callOnce`, LazyGlobal, GlobalPtr (`ThreadOnce.hpp`) | a flag and a pointer | `get`, `set`, destruction | flag and pointer are read without the mutex, the factory may throw | modelled |
| COWReference (`COWReference*.hpp`, `COWIntrusive*.hpp`) | an atomic count per object | copy, `getWriteLock`, destruction | the last other reference goes during the clone | modelled |
| Process, ZombieReaper (`Process.cpp`) | the pid, the cached status | `processStatus`, `waitCloseTerm`, `release`, destructor | three timeouts and increasingly severe signals; a pid may be signalled only before it has been waited for | modelled |
| WaitpidThreadFix (`WaitpidThreadFix.cpp`) | a queue of plain pointers, one worker thread | request and reply | exceptions, callers that are cancelled | modelled |
| SelectEngine, Select (`SelectEngine.cpp`, `Select.cpp`) | the table of callbacks, a stop flag | `go`, `stop`, add, remove | callbacks change the table that is being walked | modelled |
| Timeout, TimeoutTimer (`TimeoutTimer.cpp`) | start and loop time | `start`, `loop`, `resetOnLoop`, `expired`, conversions | a wait is capped, interrupted and resumed; rounding | modelled |
| Exec (`Exec.cpp`) | per process the input that waits and the open pipes | `processInputOutput` | three streams at once, limited pipes, callbacks that append input, timeouts | modelled |
| Launch of a program (`PosixExec.cpp`) | the pipes between parent and child | `spawnImpl`, `init_child`, `close_child_ends` | the parent learns of a failed exec from a pipe that other children inherit; a daemonized child is forked twice | the pipe, the timeout and the processes; not what the child does to its signals and descriptors |
| Logging (`MultiProcessFileAppender.cpp`) | the open file; the files and their backups | append, rotate | several processes, a crash between renames | this appender; formatting is not |
| Server socket (`ServerSocketImpl.cpp`) | the socket's name, its lock file, whether it is active | `doListenUDS`, `close` | servers that want the same name, those that crashed, a lock that belongs to a file and not to its name | Unix domain sockets; TCP is not |
| TempFileBuffer (`TempFileStream.cpp`) | one buffer with a get and a put area, a file, two positions | `overflow`, `underflow`, `rewind`, `getSize`, `reset`, `releaseFileAndReset` | the areas share the buffer, and change over between memory and file in the middle of a stream | modelled |
| UTF-8 (`UTF8Utils.cpp`, `String.cpp`) | two pointers into one buffer | the conversions, `toLowerCase` | boundaries of the encoding; a string that shrinks while it is mapped in place | the conversions and `toLowerCase`; the other text functions are not |
| UUID (`UUID.cpp`) | last time, a count, the state of the generator | the default constructor | more identifiers than clock ticks, a clock that is set back | the generator; parsing is not |
| Condition, NonRecursiveMutex | the POSIX objects | wait, timed wait, notify | spurious wakeups, timeout against notification | as the wait sets of the modules above |
| IPCMutex, other sockets, SSL, file system, other strings, dates, parsing, random numbers, digests | none of their own, or byte strings | - | input and output, or sequential data | not modelled |

How they interact. A pool owns `Thread` objects. Its workers and its callers share state
only under `m_queueLock`, except for `m_threads`: `shutdownThreads()` walks that array
without a lock. A worker tells the shutdown which Runnable it runs through
`m_currentRunnable`, under a lock of its own. `Thread` in turn uses a barrier for its
start and a condition for its end. `Process` hands what its destructor cannot finish to a
`ZombieReaper` in a pool of its own, and its system calls, where `waitpid()` needs it, to the
thread of `WaitpidThreadFix`. `Exec` waits in `Select` for the pipes of a `Process`, with a
`TimeoutTimer`; so do all timed waits, those on a `Condition` included. The locks, the
queue, the counters and the references are leaves: they use a mutex and conditions or an
atomic count, and are called by anyone.

What makes each component correct:

- pool: accepted work is started, in order, once, by a bounded number of threads; a closed
  pool accepts nothing; a finishing shutdown finishes; nobody sleeps through what it waits
  for; the object outlives its threads; every call returns;
- thread: it ends once, and tells so once; who waits for it learns of its end; the object
  outlives it; no cancellation blocks for ever;
- read/write lock: a writer is alone; the counters that decide are exact; nobody sleeps
  while the lock would admit it; every acquire ends;
- MTQueue: the bound holds; a push wakes a popper and a pop wakes a pusher; a shutdown
  releases everyone;
- barrier: nobody passes before the generation is complete, and then everybody does;
- counter and semaphore: the count is exact whatever times out, nobody is admitted above the
  limit, nobody waits for what is there;
- lazy objects and references: one object, seen by everyone; a value of one's own after a
  write; deleted once, and by the last;
- processes: no zombie stays, no other process is signalled, each measure waits for its turn;
- select loop: what is ready is called, once, on an entry that exists;
- input and output of a child: every byte, in order, to the end, and then the call ends;
- launch: what the parent is told of the program is true, and it is told without a timeout;
- server socket: the name leads to the server that is active, and who has the lock can bind;
- stream in a temporary file: the bytes come out as they went in, wherever they have been;
- identifiers: none is made twice;
- text: code points are found again in their encoding, and a change of case changes no others;
- log: lines in order, none lost but the oldest, whoever crashes.

`PROJECT.json` lists the hazards line by line, with the properties aimed at each.

## 2. Modules

```
PoolService                 what ThreadPool.hpp promises (abstract)
   ^ implemented by
CommonPool                  CommonPoolImpl, the worker loop, Thread as the pool uses it
   ^            ^
FixedPool     DynamicPool   FixedSizePoolImpl; DynamicSizePoolImpl, DynamicSizeNoQueuePoolImpl
   ^     ^        ^    ^
   |     |        |    MCDynamicPools       both dynamic pools side by side
   |     |        MCDynamicPool
   |     MCPoolsLiveness                    a fixed and a dynamic pool side by side
MCFixedPool

RWLock                                      GenericRWLockImpl
MTQueue  <-  MCMTQueue                      MTQueue, MTQueueBase
ThreadBarrier  ThreadCounter  Semaphore  LazyGlobal  Thread  WaitpidThreadFix
   \_ all of these side by side: MCThreads

COWReference  TempFileBuffer (implements ByteStream)  Process  Exec  Spawn
SelectEngine  MultiProcessFileAppender  TimeoutTimer  UUID  ServerSocketImpl  UTF8Utils
   \_ all of these side by side: MCSystem
```

The proofs are in modules of their own, each of which extends what it is about:

```
CommonPool     <-  CommonPoolProofs         what the actions of every pool preserve
                     ^          ^
FixedPool  <-  FixedPoolProofs  |
DynamicPool     <-  DynamicPoolProofs  <-  PoolsProofs (with MCDynamicPools)
MCThreads       <-  ThreadsProofs           lock, queue, barrier, counter, semaphore
                     ^
                    LifecycleProofs         lazy objects, Thread, WaitpidThreadFix, and all of
                                            MCThreads together
MCSystem        <-  DataProofs              streams in files, log files, UTF-8
                     ^
                    SystemProofs            the other components of MCSystem, and all together
```

`MCThreads` and `MCSystem` put components that do not share state side by side, to check
them in one run: `subject` says which of them moves in a behaviour, the others keep their
initial state. So their states add up and do not multiply, and every property is about one
component.

In all modules one action is one stretch of code that holds the component's mutex, up to the
wait, the unlock or the return that ends it; outside a mutex one action is one access to
shared state or one system call. A thread that waits on a condition variable is a member of a
set (`waiting`, `sleeping`, `dozing`, ...). A notification, a timeout or a spurious wakeup takes
it out, and it then competes for the mutex again: every `while` around a wait is in the
model, so is every `if`.

### The pools

Which condition variable a thread waits on follows from where it is.

| Code | Model |
|---|---|
| `m_queue`, `m_queueClosed`, `m_shutdown`, `m_threads`, `m_workingThreads` | variables of these names |
| `getWorkFromQueue()` | `SleepForWork`, `QuitOnShutdown`, `TakeWork`, `WaitForWorkTimesOut` (dynamic) |
| `run()` of the worker, `runRunnable()` | `BeginRun`, `FinishRun`, `CancelledInRun`, `ExitThread`, `DecrementWorkerCount` (dynamic) |
| `addWork()` of the fixed pool | `BlockOnFullQueue`, `AddToClosedQueue`, `PushWork`, `AddWorkTimesOut` |
| `addWork()` of the dynamic pools | the same with `ReapDeadThreads` in front, then `NotifyOneWorker`, `NoNewThread`, `StartNewThread` (which may fail) |
| `waitForEmptyQueue()` | `WaitForEmptyQueue` |
| `finishOffWorkInQueue()` | `CloseQueue`, `DrainQueue`, `DrainTimesOut` |
| `shutdownThreads()` | `NotifyWorkers`, `NotifyAdders`, `CooperativeCancel`, `DefinitiveCancel`, `JoinThread`, `EndLoop` |
| constructor and destructor | `StartThread`, `StartFails`, `Constructed`, `Destroy`, and `Return` when the owner's shutdown ends |

`status` is a history variable: what became of each Runnable. `PoolType` selects the pool,
and `StartCanFail` whether `Thread::start()` may throw in the dynamic pools (in the fixed
pool it always may).

What is abstracted, and why it may be:

- Time. A timeout is infinite or finite, a finite one may expire in any state where its
  wait still sleeps. `shutdown()` takes two timeouts; the value "definitive" stands for
  both finite, "finite" for the first only.
- The calls of `doShutdown()` on the Runnables in progress are left out: they are
  callbacks that change nothing in the pool. `doCooperativeCancel()` is kept as far as it
  may throw: `Deniers` is the set of Runnables that deny.
- The loops over `m_threads` go through the array in index order; here in any order.
- `definitiveCancel()` ends with `pthread_cancel()`: the thread ends at its next
  cancellation point, which the model places in `work->run()`. Output of log messages is
  not taken to be a cancellation point. With a C++ runtime that unwinds the stack of a
  cancelled thread, the `catch (...)` of `runRunnable()` makes that fatal instead (listed
  under the hazards, not modelled).
- A null `RunnableRef` is a failed assertion and changes no state.
- In the dynamic pools the identity of a reaped thread is used again by a later one, so
  `Workers` is the set of slots, not of threads ever started.
- Each Runnable is offered once, which makes `status` a function of the Runnable.

`PoolService` has four variables and no threads: a line of accepted work, the fate of each
Runnable, closed and stopped. The pools implement it under the mapping of `CommonPool`
(`line <- m_queue`, `closed <- m_queueClosed`, `stopped <- m_shutdown`,
`fate <- status` with "offered" read as "new").

### Locks, queues and counters

- `RWLock`. An id is a locker (`RWLocker` passes the calling thread). `readCount` and
  `writeCount` are the fields of `LockerInfo`, both 0 for an id that is not in the map. A call
  that throws and has changed nothing (a release of a lock not held, the `DeadlockException`
  of a second upgrade) is a stuttering step. `MaxHeld` bounds how often an id nests its
  locks: the code has no such bound.
- `MTQueue`. `count` is the number of items: nothing in `MTQueueBase` depends on which they
  are. `m_pushesBlocked` and `m_popsBlocked` count a thread from the start of its wait until
  it has the mutex again, thus also threads that were notified already. `NotifyOneIf` wakes
  any sleeper.
- `ThreadBarrier`. The generic implementation. `m_curSubBarrier` and `m_waitingCount` are the
  code's; `generation`, `calls` and `joined` are history. A waiter may be cancelled
  (`CancelledAtBarrier`) before its generation is complete.
- `ThreadCounter`, `Semaphore`. A timed wait is "relative" (its time starts anew with every
  `timedWait()`), "absolute" or "infinite"; `expiry` and `late` say whose moment has passed.
  `MaxCalls`, `MaxSignals` bound what is counted in history variables.
- `LazyGlobal`. `pending` holds the stores of the initialising thread that others do not see
  yet; `StoresInOrder` says whether they become visible in order. `Class` selects LazyGlobal
  or GlobalPtr. `MaxObjects` bounds how many objects a behaviour creates.
- `COWReference`. Each reference has a thread of its own. Each access to a count, each copy,
  write and deletion of an object is an action of its own.

### Threads and processes

- `Thread`. One object with its owner, who starts and destroys it, the thread itself and
  several controllers. `tpc` is where `threadRunner()` is, `ending` how `run()` was left, `opc` where
  the owner is, `ctl` where each controller is. `RunIsKilled` is `pthread_cancel()` taking
  effect, with or without unwinding. `DenyCancel` and `DenyKill` are exceptions from the
  virtual functions.
- `WaitpidThreadFix`. An item is named by its caller. `alive` holds the items that exist,
  `m_signal` and `m_err` are fields of the items.
- `Process`. The child is "running", a "zombie" or "reaped"; `yieldsTo` is the set of measures it
  ends for, chosen at the start, and `permitted` whether `kill()` works. Time is counted in
  sleeps of `terminatesWithin()`; `elapsed` and `deadline` are the timers. `misdirected` is
  history: a call has named a pid after the child was waited for.
- `Exec`. One child and its three pipes, of a limited capacity. The bytes of the input are
  numbers, so that a byte skipped or sent twice shows. `inputs` and `availableDataLen` are the
  code's. The child reads, writes, closes and ends as it likes.
- `SelectEngine`. `m_table` maps a descriptor to the events it is registered for, `selObjs` and
  `available` are the array of one round. `wild` is history: an iterator that points at nothing
  was used. `UsesEpoll` selects the variant of `selectRW()`.
- `MultiProcessFileAppender`. A file is an inode with the lines written to it; `directory` maps
  the names to inodes, `m_log` is what each process has open. `Crash` may strike between any
  two system calls, and drops the lock.
- `TimeoutTimer`. Time is in ticks, of which a second has several, so that rounding is seen.
  A timer is a record, `timer` that of the caller and `inner` that of the `selectRW()` or
  `timedWait()` it is in; the conversions are operators with the names of the code. `caller` says
  who waits: `selectRW()` called by itself, the rounds of `processInputOutput()`
  ("gatherOutput"), which hands over what its own timer had left when the last round ended, the rounds
  of `SelectEngine::go()` ("go"), which hands over the whole timeout anew, or `timedWait()`. Time
  passes in a wait and in the work before it (`Work`, at most `MaxWork` ticks). `expiry` is history:
  when the timeout of the call is over. With a relative timeout that is `m_start` plus the
  timeout, and `resetOnLoop()` moves it for E_RELATIVE_WITH_RESET only; in `go()` every round moves
  it, as the engine's own timer is never asked.
- `Spawn`. A spawner is a thread of the parent that calls `spawn()`. `writers` holds the processes
  that have the write end of its pipe `EXEC_ERR` open, `message` says whether an error is in it;
  `fork()` copies, exec and the end of a process close. `Daemonizers` are the calls whose
  PreExec has `m_daemonize`: `Child(s)` is then the intermediate process and `Daemon(s)` runs the
  program. The PreExec is one that lets no descriptor through, as `StandardPreExec` does.

### Files, sockets, identifiers and text

- `TempFileBuffer`. The pointers of the streambuf are offsets into `m_buffer`; `getting` and
  `putting` say which of its areas is there. `Write` is `sputc()` with the `overflow()`s it
  needs; reading is `ReadBuffered`, or `underflow()`: `Underflow` from input mode, `SwitchToInput` from
  output mode, `ReadAtEnd` once `m_isEOF` is set. A byte is the number of the write that put it
  there. `ByteStream` is the abstract stream: the data, what is left to read, and whether the
  end was read. It is implemented under `data <- streamData` (the file with the pending part of
  the buffer over it), for callers that `Careful` keeps out of four cases (see below).
- `ServerSocketImpl`. A server is a process with one object. A lock file is an inode: `lockFile` is
  the one that has the name, `m_udsFile[p]` the one that p has open, `lockedBy` who has locked each.
  `socketFile` is whose socket has the name. `Vanish` is a crash in any state, and the end of a
  server after an exception. `CloseRaces` FALSE keeps `close()` and `doListenUDS()` of two servers
  apart.
- `UUID`. `MakeUUID` is the constructor, under `g_guard`. Time is in units of 100 ns, of which the
  system clock advances `Resolution` at once; the random start of the clock sequence is its
  zero. `MaxIds` bounds the identifiers made, and is at most `Resolution`: more of them between
  two ticks would run into the next, which the code does not prevent.
- `UTF8Utils`. The conversions of one character are operators with the names of the code, on
  sequences of bytes that end with 0. `Type` makes the string an element at a time, and
  remembers what was put in (`text`) and where (`starts`). The loops over a string are steps:
  `ConvertCharacter` is a round of `StringToUCS2()`, `MapCharacter` and `PassOver` are the rounds of
  `transformInPlace()`, with its pointers `from` (p) and `output`, `FallBack` is the return of
  FALSE from it, and `TransformCharacter` is a round of `transform()` on the copy; `rval` is what a
  loop has made so far. `Lower` has three entries of the table of mappings, one of equal length
  and two that shrink; `Bad` among the elements is a stray byte. `StringToUCS2()` is the
  version that throws: the other one (`StringToUCS2ReplaceInvalid()`) goes on behind the end of
  a text that is cut short, where its result is undefined. A character that the end of the
  string cuts short is met by the conversions of one character only (`TextSurvives`); no text
  that a loop walks ends in one.

## 3. Runs

Every property of a passing run has a mutant: a definition ending in `_<Something>`, the way
the code might plausibly go wrong, under which TLC finds that very property violated. All
mutants of the model are preceded by a comment `Variant:`. A property that joins several
components has one for each of them.

| Run | Configuration | What it shows |
|---|---|---|
| `fixed_pool_safety` | 2 threads, 2 clients, 3 Runnables, queue of 1, all timeouts | types, no lost wakeup of a client or a worker, the pool outlives its threads, a finishing shutdown finishes, `PoolService` is implemented |
| `dynamic_pools_safety` | 2 threads, 2 clients, 3 Runnables; `DYNAMIC_SIZE` with a queue of 1, and `DYNAMIC_SIZE_NO_QUEUE`; threads may fail to start | the same for the dynamic pools; every live thread is in `m_threads`; queue and busy threads together stay within the limit, and the subtraction in `queueIsFull()` does not wrap |
| `pools_liveness` | 2 clients, 2 Runnables; a fixed pool of 1 thread with all timeouts, and a dynamic one of 2 threads with infinite timeouts | accepted work is started; `addWork()` and `shutdown()` return. For the dynamic pool this is so while there is a slot for every Runnable: see finding 4 |
| `threads` | lock: 3 ids, nesting up to 2; the others: 3 threads, or 2 controllers or callers | each of the components of `MCThreads`: exclusion, exact counters, no lost wakeup, one object, one end of a thread, and that every call ends |
| `system` | a child against every choice of times in {0, 1}; pipes of 2 bytes; 2 descriptors; 2 processes that log 6 lines and crash twice; timeouts of 0, a quarter, a half and 2¼ seconds; 3 references; 2 launches, one daemonized; 3 servers with 4 lock files; a buffer of 2 bytes and 6 bytes written; 4 identifiers and 3 ticks; texts of 2 characters out of 10 and a stray byte | each of the components of `MCSystem` |
| `fixed_pool_discard` | 1 thread, 1 Runnable | finding 1 |
| `fixed_pool_denied` | 1 thread, 1 Runnable that denies | finding 2 |
| `dynamic_pool_late_thread` | 1 thread, 1 Runnable | finding 3 |
| `dynamic_pool_stranded` | 1 thread, 2 Runnables | finding 4 |
| `mt_queue_standstill` | 3 threads, bound 1 | finding 5 |
| `exec_replies` | 2 bytes of input and 1 of reply | finding 6 |
| `uuid_set_back` | 4 identifiers, 3 ticks of 4 units | finding 7 |

Why the bounds are enough for the interesting cases.

- Pools. With a queue of one and three Runnables the queue is full while a second `addWork()`
  waits and a worker runs the third, so adders block, are woken by a pop, and are overtaken. Two
  clients are enough for a shutdown to race an `addWork()`, a `waitForEmptyQueue()` or another
  shutdown, since one client alone can close the pool. Two workers are enough for one to sleep
  while the other takes the work it was woken for, and for the loops of the shutdown to have
  passed one thread and not the other. The liveness runs use one thread less, because symmetry
  reduction is not sound for them. Symmetry in the safety runs: workers, Runnables and the
  clients other than the owner are interchangeable there.
- Three ids of the lock are one that holds and two that wait, or two upgrading readers and a
  writer. Three threads at a barrier are a fast one, the one that completes the generation and
  one that is left behind, for three generations: both sub-barriers are used again. Three at
  the counter are one admitted, one that waits for a place and one that waits for all. Three
  references are the writer and two that may vanish or clone meanwhile.
- Two controllers of a thread are one that kills and one that waits. Two callers are one whose
  work is done and one in the queue.
- Two descriptors are the one whose callback runs and one whose result is still to be looked
  at. Two processes are one that rotates and one that has the old file open; six lines fill
  the log file, both backups and begin again; two crashes interrupt a rotation and its
  repetition.
- A pipe of two bytes is full, half full or empty. The input of two bytes comes in one or two
  portions. (An input larger than the pipe: see below.)
- Two launches side by side are the one that is judged and the one whose children have inherited
  its pipe; one is daemonized, so that an intermediate process is among them. Three servers
  are an active one, one that tries, and one that crashed or closes; with four lock files there is
  always one that nobody has open. A buffer of two bytes is empty, half full or full, and six
  bytes fill it three times, thus past the moment the file is opened and after a change to
  reading and back. Four identifiers of one reading exhaust the units of a tick.
- The code points are those at which the length of the encoding changes, the last one of all, and
  those that the mappings need; a text of two has one that may shrink and one behind it.

`CHECK_DEADLOCK FALSE` is used where the system may stop: a destroyed pool, Runnables
that are used up, a thread that has ended, a bound that is reached.

### Fairness

- Pools: weak fairness of each worker and of each call in progress. That is the scheduler
  running every thread that can run, every Runnable returning, and (dynamic) the
  one-second wait of an idle worker ending. Nobody is obliged to call anything. A finite
  timeout expires in the end. In the runs on `FairSpec` nothing forces a spurious wakeup.
- Lock: weak fairness of each call in progress, and of `Release`: whoever holds a lock gives
  it back. `AcquiresReturn` speaks of behaviours in which no new calls are made from some
  time on: the lock prefers writers only among those who wait, and with an endless supply of new
  callers neither side is promised anything. The same holds for the counter (which is
  not fair to anyone either), for lazy objects and for the log.
- Queue, semaphore, lazy objects, WaitpidThreadFix: weak fairness of calls in progress only, and
  of a timer that runs. Work of WaitpidThreadFix comes to an end.
- Barrier: the threads keep calling, which is what its users promise.
- Thread: the owner, the new thread and the controllers go on where they can, and timers
  expire; `run()` may go on for ever.
- Launch: a call goes on, and its timeout expires; nothing is assumed of the children.
- Process: time passes, the object and the reaper run, and a child that has been given a signal it
  cannot resist ends. Nothing is assumed of any other child.
- Exec: the parent runs and time passes; nothing is assumed of the child.
- Engine: `go()` runs; nothing is assumed of the descriptors.

### Findings

1. **Discarded work hangs `waitForEmptyQueue()`.** A shutdown with
   `E_DISCARD_WORK_IN_QUEUE` (or whose drain times out) leaves the queue filled and notifies
   nobody who waits for it to empty. A call before or after it never returns.
2. **A denied cancellation frees a pool in use.** `cooperativeCancel()` is called
   without a handler in `shutdownThreads()`; the exception skips the joins, `m_shutdown` is
   set, so the destructor skips its shutdown and the members go away under the worker.
3. **A thread is added behind the shutdown.** The dynamic `addWork()` re-acquires the lock
   after its notification and starts a thread without looking at the close again, while
   `shutdownThreads()` walks the array without a lock.
4. **Stranded work.** A dynamic worker whose wait expired leaves without looking at the
   queue, yet stays in `m_threads`. If `addWork()` pushes in between and the array is full, no
   thread is started, and the work waits for a next `addWork()` that may never come.
5. **MTQueue can stand still.** A `notifyOne()` meant for a pusher may wake a popper,
   which finds nothing and sleeps on. The run shows it with bound 1 and three threads; the
   same happens with bound 2 or 3 and six threads, while bound 2 with four and bound 3 with
   five threads are free of it, which is why small tests pass.
6. **Replies of an OutputCallback corrupt the input of the child.** What it appends to its
   `inputBuffer` is not counted in `availableDataLen`, from which the offset of the next write
   is computed.
7. **A clock that is set back repeats identifiers.** `UUID::UUID()` saves the time it has just
   read from the state back to the state, instead of the new one. So the saved time is always 0, the clock
   is never seen to go backwards, and the clock sequence never changes.

### What else the models say when asked

The following are no runs of their own; each is one change of a constant away.

- `Exec` with `InputSize` larger than `Capacity`: `ProcessingEnds` is violated. `write()` waits
  for a child that waits for its own output to be read.
- `Exec` with a timeout of type "relative": it may never expire. `resetOnLoop()` lets the rest
  become negative without a look at `expired()`, and a negative time is none to `poll()`.
- `Exec`: `SelectAsserts` is reachable. An InputCallback that closes the pipe (as
  `SingleStringInputCallback` does when it has nothing left) while a rest is still to be
  written makes the next `selectRW()` fail its assertion.
- `TimeoutTimer` without `RoundingAdds` in `TimesOutOnTime`: violated. Where the fraction of a relative
  timeout, or of what is left of it, is half a second or more, `asTimespec()` and `asTimeval()`
  round the seconds up and then add the fraction, so that the wait is a second too long.
  `test/unit/TimeoutTimerTestCases.cpp` allows 1 % on top of the timeout and does not
  show it: the fractions among its values are small, or 1 % of them is more than that second.
- `TimeoutTimer` with the claim that every wait has an end: violated. Who begins to wait when
  the timeout is over hands a negative time to `epoll_wait()` or `poll()`, which waits for ever, or to
  `select()`, which fails. `processInputOutput()` gets there with a timeout that output does not reset:
  its rest is as old as the last round, so that output may come after the end of the timeout, and
  nobody looks at `expired()` then. `selectRW()` and `go()` get there with an absolute
  timeout that is over when they are called; `asTimeval()` alone makes it a wait of no time.
- `SelectEngine` with `Careful` FALSE: `IteratorsArePointed` is violated; nothing tells callbacks
  not to remove the entry of another descriptor.
- `MultiProcessFileAppender` with two threads per process: `LogIsKept` is violated,
  as `fcntl()` locks do not keep threads of one process apart.
- `LazyGlobal` with `StoresInOrder` FALSE: `GetsTheObject` is violated. The barrier is before the
  first look at the flag, not between the two stores.
- `TempFileBuffer` with `Careful` FALSE: `ImplementsStream` is violated, and so it is with any single
  rule of `CallerIsCareful` dropped. After `rewind()` of a file, `m_writePos` counts only the bytes that were
  pending, and the next write overwrites the middle (`TempFileStream.cpp:314`). Reading an
  empty stream in memory returns a byte that was never written (line 228). `getSize()` counts the
  bytes before a change to reading and back twice (line 294). `releaseFileAndReset()` while a
  stream in memory is read writes none of it to the file (line 354).
- `ServerSocketImpl` with `CloseRaces` TRUE: `NameLeadsToServer` is violated. `close()` unlocks the lock
  file before it removes its name: a second server locks the file that is about to go, a
  third one makes a new file, locks that, and takes the socket away. Besides,
  `doListenUDS()` sets the new address before it calls `close()`, which then removes the files of
  that address; the model has one address only.
- `Spawn` with `SecondForkFails` TRUE: `ResultsAreTrue` is violated. When the intermediate process of a
  daemonized child cannot fork, it ends as if it could, and the parent reports a process.
  (Independently of that, a daemonized launch that times out kills the intermediate
  process only; `ResultsAreTrue` exempts it.)
- `UTF8Utils` without the condition `Decodable` of `TextSurvives`: violated from U+100000 on, as
  `UTF8toUCS4()` keeps two bits of a lead byte that has three (`UTF8Utils.cpp:187`).
- `UTF8Utils` without the condition of `CaseIsMapped` on the characters that shrink: violated.
  `transformInPlace()` returns false at the first character after one that has become shorter
  (which `UTF8Utils.hpp` says does not happen), and `String::toLowerCase()` then maps a copy of
  the half-mapped buffer, in which the rest of the longer character is still there: U+0130 and
  "A" become the bytes 69 B0 61.
- `Thread`: a controller that `definitiveCancel()` has told "true" may have found the thread
  cancelled by another controller, not cleanly ended.

## 4. Proofs

TLAPS proves the following for every value of the constants: any number of threads, clients,
ids, references and Runnables, any size of a queue, any limit, any depth of nesting.

| Theorem | States |
|---|---|
| `FixedPoolProofs!TypeCorrect` | `Spec => []TypeOK` |
| `FixedPoolProofs!WorkersStayAwake` | `Spec => []WorkersAwake` |
| `FixedPoolProofs!ClientsStayAwake` | `Spec => []ClientsAwake` |
| `FixedPoolProofs!PoolOutlivesThreads` | `Spec => []OnlyThreadLeft`, if no Runnable denies its cancellation |
| `FixedPoolProofs!PoolImplementsService` | `Spec => ImplementsService`: the fixed pool refines `PoolService` |
| `FixedPoolProofs!ShutdownFinishes` | `Spec => FinishMeansFinished` |
| `DynamicPoolProofs!DynamicPoolInvariant` | `Spec => []PoolInv`, the inductive invariant, for either kind of dynamic pool |
| `DynamicPoolProofs!DynamicPoolImplementsService` | `Spec => ImplementsService` |
| `DynamicPoolProofs!DynamicShutdownFinishes` | `Spec => FinishMeansFinished` |
| `PoolsProofs!BothTypeCorrect` | `MCSpec => []TypeOK`, for the composition of both kinds that the run checks |
| `PoolsProofs!BothClientsAwake` | `MCSpec => []ClientsAwakeInBoth` |
| `PoolsProofs!BothThreadsBounded` | `MCSpec => []ThreadsAreBoundedInBoth` |
| `PoolsProofs!BothKindsImplementService` | `MCSpec => BothImplementService` |
| `PoolsProofs!BothShutdownsFinish` | `MCSpec => FinishMeansFinished` |
| `ThreadsProofs!LockInvariant` | the read/write lock keeps `LockInv`: `Spec => []LockInv` |
| `ThreadsProofs!Exclusion` | the lock keeps `LockIsExclusive` |
| `ThreadsProofs!Counters` | the lock keeps `TypeOK` and `CountersAreExact` |
| `ThreadsProofs!NoLostWakeup` | the lock keeps `WaitersArePending` |
| `ThreadsProofs!QueueIsCounted` | the queue keeps `QueueWithinBound` |
| `ThreadsProofs!GenerationsApart` | the barrier keeps `BarrierKeepsGenerationsApart` |
| `ThreadsProofs!AdmitsRightly` | the counter keeps `CounterAdmitsRightly` |
| `ThreadsProofs!SignalsConserved` | the semaphore keeps `SignalsAreConserved`, which includes that nobody is parked in vain |
| `LifecycleProofs!OneObjectLives` | LazyGlobal and GlobalPtr keep `OneLiveObject`, where stores are seen in order |
| `LifecycleProofs!ThreadsEndOnce` | `Thread` keeps `ThreadEndsOnce` |
| `LifecycleProofs!AnswersReachTheirCallers` | `WaitpidThreadFix` keeps `AnswersAreTheirs` |
| `LifecycleProofs!ComponentsKeepTheirPromises` | `MCSpec` of `MCThreads` keeps `ComponentTypesOK` and every safety invariant of the run |
| `SystemProofs!ReferencesAreValues` | references keep `ReferencesActLikeValues` |
| `SystemProofs!NameLeadsToTheServer` | the server socket keeps `NameLeadsToServer` |
| `SystemProofs!IdentifiersDiffer` | `UUID` keeps `IdsAreUnique` |
| `SystemProofs!PidStaysTheChilds` | `Process` keeps `PidIsTheChilds` |
| `SystemProofs!MeasuresAreDue` | `Process` obeys `MeasuresWaitTheirTurn`, an action property |
| `SystemProofs!SpawnTellsTheTruth` | `Spawn` keeps `SpawnIsTruthful` |
| `SystemProofs!CallbacksCalled` | `SelectEngine` keeps `CallbacksAreCalled`, with epoll and with poll |
| `SystemProofs!StreamsStayWhole` | `Exec` keeps `StreamsAreWhole` |
| `SystemProofs!WaitsEndOnTime` | `TimeoutTimer` keeps `TimesOutOnTime` |
| `DataProofs!LogStaysWhole` | the appender keeps `LogIsKept` |
| `DataProofs!TempFileImplementsStream` | `TempFileBuffer` obeys `TempFileIsStream`: it refines `ByteStream` |
| `DataProofs!TextStaysConverted` | the conversions of `UTF8Utils` and `toLowerCase()` keep `TextIsConverted` |
| `SystemProofs!SystemKeepsItsPromises` | `MCSpec` of `MCSystem` keeps `ComponentTypesOK` and all of the invariants above |
| `SystemProofs!MeasuresWaitInTheSystem` | `MCSpec` of `MCSystem` obeys `MeasuresWaitTheirTurn` |
| `SystemProofs!TempFileImplementsStreamInTheSystem` | `MCSpec` of `MCSystem` obeys `TempFileIsStream` |

The theorems about one component speak of its own specification, in the instance in which
`MCThreads` or `MCSystem` has it. The compositions follow from the same inductive
invariants: `OneSubjectMoves` says that a step is one of the subject's and nothing to the
others, so the invariants of all components hold side by side.

Assumptions. For the pools `PoolAssumption`, `FixedAssumption` and `DynamicAssumption` (the
constants have their types, there are finitely many workers, the owner is a client, no client
is a worker, `NoWork` is not a Runnable), for the lock `LockAssumption` (finitely many ids). TLC
evaluates these in every run. The other theorems state what they assume of the constants:

- `QueueAssumption`, `CounterAssumption`: finitely many threads, a size in `Nat`, integers as
  limits. A barrier has the threshold of the number of the threads that use it. The semaphore's
  initial count is an integer; it may be negative, as in the code.
- `COWAssumption`, `UdsAssumption`, `LogAssumption`: what stands for "none" is no object, server,
  file or process; references and processes are finitely many; the limits of the log are in
  `Nat`, and a file holds at least one line.
- `ProcAssumption`, `ExecAssumption`, `EngineAssumption`: times, sizes and numbers are numbers.
  `Spawn`, `Thread` and `WaitpidThreadFix` assume nothing.
- `IdsAssumption`: no more identifiers are made than a step of the clock has units, without
  which `IdsAreUnique` is not even meant to hold.
- `TempAssumption`: the buffer has at least one byte.
- `TextAssumption`: the code points are those of Unicode, without 0, which ends a string.
- `TimerAssumption`: times are in `Nat`, and a second has at least one tick.
- `PoolOutlivesThreads` assumes `Deniers = {}`, and finding 2 shows that it must.

The instances carry the restrictions under which the run checks them: `StoresInOrder` for the
lazy objects, `Careful` callbacks, no race of a `close()` with a `listen()` (`CloseRaces` FALSE),
no failure of the second fork, one thread per process that logs, no replies from an
OutputCallback. Section 3 says what happens without each of them.

The inductive invariants, with which TLC agreed before they were proved:

- `SharedInv` (CommonPool) is what all pools have in common: types, `CallsFitPool`, which says
  that whoever shuts the pool down has closed the queue, and past the drain has set `m_shutdown`,
  and `ClientsAwake`. `ClientsAwake` needs `CallsFitPool`
  for the drain: a client that drains has closed the queue, so nobody can refill it between
  the last pop and the wakeup. `CommonPoolProofs` has one lemma per action of `CommonPool`; the
  two kinds of pool add their `addWork()` and their worker.
- `AwakeInv` (FixedPool) adds `WorkersAwake`, which is not inductive alone: a step of a client in
  "notifyWorkers" may end the excuse for sleeping workers, and only `CallsFitPool` says that
  no later push relies on a notification. It does not hold of the dynamic pools, where
  a worker leaves by a timeout (finding 4).
- `LifetimeInv` (FixedPool) adds `OneShutdown` (at most one client is past the close, and the
  constructor and the destructor are alone with the object) and `ThreadsJoined` (a closed queue
  means that a shutdown is under way or that every thread has exited). The destructor of a closed
  pool waits for nothing; that it need not is exactly `ThreadsJoined`. It does not hold of the dynamic
  pools either (finding 3).
- `WorkAccounted` says where every Runnable is: the items of `m_queue` are distinct
  and exactly the "queued" ones, each running one is held by one worker, each offered one
  by one client, and one is cut short only after the stop. The refinement needs it to see that the
  step that pops the head moves exactly that Runnable from the line to its fate, and that no more
  run than there are threads (an injection from the running ones into the workers). Each action
  of the pools has a lemma that maps it to a step of `PoolService` or to a stutter.
- `CloserKeepsWord`: a client that closed the queue to finish the work, without
  a limit, is either still draining or the queue is empty; a cancellation comes after that. It
  makes `FinishMeansFinished` follow from `WorkAccounted`, as after the joins nobody holds a Runnable.
- `PoolInv` (DynamicPool) is `SharedInv`, these two, and `ThreadsAreBounded`: without a queue
  the counter of busy threads is never less than their number and leaves room for the queue, though
  it is adjusted in critical sections of its own, and every thread is one of the array. `PoolsProofs` instantiates the proofs for the
  pool without a queue and shows that the instance means the same, definition by definition.
- `LockInv` (RWLock) needs all its parts at once: exclusion follows from the counters,
  because a writer enters on `m_numReaders = 0 /\ m_numWriters = 0`, and the counters stay
  exact because of exclusion, since a release decides from the id's own counts whether to
  change them. Cardinalities are handled by two lemmas, `CountersCount` and `CountersFollow`,
  which say what the counters mean for the sets they count and that a step moving one id keeps them
  exact.
- `GenerationInv` (barrier) adds to the two properties which sub-barrier a waiter is at:
  the one in use if it has joined the generation under way, the other one if it has not yet
  left the last. With as many threads as the threshold, a generation can only be completed
  when nobody is left at the other sub-barrier, which is why two of them suffice.
- `CounterInv`, `SemaphoreInv` and `QueueInv` are the properties with the types. The work is in the
  cardinalities: a thread that leaves a wait must count itself out exactly once, whichever
  way it leaves. That step is the same for all ways out, and a lemma of its own.
- `OnceInv` (lazy objects): the mutex is held by whoever is inside, and `OnceProgress` says
  which of the two stores others may see at each step of the initialisation, so that
  a flag that is read as set means a pointer that is read as stored.
- `ThreadInv`: which of the owner, the new thread and the controllers may be where. The barrier
  of `start()` orders the store of the identifier before `run()`, and the callback comes last.
- `FixInv` (WaitpidThreadFix): no item is in the queue twice or both there and at the worker, and the state
  of each caller fits the place of its item. Only that makes an answer its caller's.
- `COWInv` (references) adds to the three properties that a count is the number of
  references that hold the object or are in the middle of giving it up
  (`CountsAreExact`), that who was told to be alone is alone (`WritersAreAlone`), that a
  clone belongs to the one that made it (`ClonesArePrivate`) and what a reference holds in each
  step of its operations (`OperationsAreSound`). The delicate case is `getWriteLock()`: between the
  look at the count and the decrement the others may all go, and the one that cloned deletes
  the original.
- `UdsInv`: servers that own the name have it through one and the same lock file (`LockFileIsShared`),
  as long as that file is removed only by a server that nobody overtakes; the socket is
  the owner's or nobody's.
- `IdsInv`: the timestamps increase, since the clock moves by whole steps and the count stays
  below a step.
- `ProcInv`: `ChildIsAccountedFor` says who knows of the end of the child, the object or,
  once that is gone, the reaper; only they may have waited for it. `TimesAreOver` says that the
  times of the measures before the current one are over.
- `LaunchInv`: where the processes of a launch are (`LineageInOrder`), that somebody who will still
  write or close is left as long as the parent reads (`SomebodyWillTell`), and that only processes
  which have not called `exec` yet hold a pipe open (`WritersAreYoung`).
- `EngineInv`: the loop over the table counts down the entries that `select()` reported, and
  what is due is never more than what is left of that count (`LoopMissesNothing`), whatever
  callbacks remove.
- `ExecInv`: what has arrived, what is in the pipe and what is still in the buffer make up the
  input in its order (`InputInOrder`), and the same for the output.
- `TimerInv`: the timer of the inner call ends when the caller's does, or later by the work of the
  round (`TimersInStep`), and a wait that has an end lasts no longer than that and what rounding
  adds, or has ended already (`WaitEndsInTime`). Rounding to seconds with a fraction is arithmetic with
  `%` and `\div`, in lemmas of its own (`RoundingAddsASecond`, `TimespecIsTheEnd`).
- `LogInv`: the holder of the lock is alone (`LockIsHeld`), it writes to the file that is under the
  log's name and knows its size (`HolderKnowsFile`), and a file that a process has open under
  another name is full (`OldFilesAreFull`), so that whoever finds its file full finds
  the log again. There is always an inode left for a new file (`FreshInode`, by counting).
- `KeptInv` adds to it what the order of the lines needs: no file has two names, no line is newer
  than the last that was written, and whoever renames a file renames it to a name that is free
  (`NothingIsOverwritten`), however often a crash left a gap among the backups. That renaming,
  removing the oldest and appending to the youngest file keep the order are lemmas about any
  sequence of files (`RenamedInOrder`, `RemovedInOrder`, `AppendedInOrder`).
- `TempInv`: the get and the put area exclude each other, what is read is a copy of the part of the file
  before its position (`DataInFile`), and in memory the areas begin with the data (`DataInMemory`).
  `TempView` then says what the buffer and the file amount to, the file followed by
  a part of the buffer, so that an action has to be looked at only for what it does to that
  sequence and to the place of the reader in it.
- `TextInv`: the elements are put one behind the other (`ElementsFollow`), and a loop is always between
  two of them: `StringToUCS2()` has made the first ones of the text (`PrefixIsFound`), and
  `toLowerCase()` has put the first n in lower case and left the others as they were
  (`MappedUpTo`), whose bytes do not overlap. No induction over the text is needed, since each
  round of a loop is a step of the model. That one character is found again is
  arithmetic with `%` and `\div` (`SixBitsJoin`, `RoundTrip`), and that a pointer is never moved over the
  terminator holds for any bytes (`Advance`), as does that what is written in lower case is not
  longer than what was read (`MappedFits`).

Each proof has a lemma per action, or per group of actions with the same effect, one step per
conjunct that it can disturb, and a lemma that combines them for `[Next]_vars`.

Only model-checked: liveness (`PoolsImplementFairService`, `CallsReturn`, `CallsOfThreadsReturn`,
`CallsOfSystemEnd`, `NoZombieStays`). Reasoning about fairness needs `ENABLED`, which TLAPS 1.4.5
does not support. Every other property of the runs, all of the safety among them, is stated by a theorem.

## 5. Plan

What would come next, in this order.

1. The emulation of a recursive mutex in `MutexImpl.cpp`, for platforms without one.
2. `CmdLineParser.cpp`, whose options with optional arguments and short options in a row interact.

## 6. Not modelled, and why

- Strings, dates, arrays, command lines, configuration files, digests and random numbers, by
  far the largest part of the source, which is why the models cover only a few percent of
  its lines: functions of their arguments, with no state between calls and test vectors in
  the unit tests. The tables of case mappings and foldings, over 6000 lines, have
  nothing that a model could tell apart.
- The file system, TCP sockets and SSL: one system or library call per function, and error
  codes. Their waits are those of `Select` and `TimeoutTimer`.
- `IPCMutex`: a wrapper of one System V semaphore.
- Formatting of log messages, and the choice of appenders.
- What a child does between fork and exec with its signals, descriptors and groups, and the gatherers
  of output.
- Writes of a temporary file that fail, and positioning in it by the caller, which it does not offer.
- The branches for Win32 and for platforms without POSIX threads. Where the same class has
  several implementations, the generic or the POSIX one is modelled, and the table of modules
  says which.
- A C++ runtime that turns `pthread_cancel()` into an exception that must not be swallowed (see
  "The pools").

## 7. Running

In this directory:

```
tlc -workers 2 -config FixedPoolSafety.cfg MCFixedPool
tlapm FixedPoolProofs.tla
```

| Configurations | Module |
|---|---|
| `FixedPoolSafety`, `FixedPoolDiscard`, `FixedPoolDenied` | `MCFixedPool` |
| `DynamicPoolLateThread`, `DynamicPoolStranded` | `MCDynamicPool` |
| `DynamicPoolsSafety` | `MCDynamicPools` |
| `PoolsLiveness` | `MCPoolsLiveness` |
| `MTQueueStandstill` | `MCMTQueue` |
| `Threads` | `MCThreads` |
| `System` | `MCSystem` |
| `ExecReplies` | `Exec` |
| `UUIDSetBack` | `UUID` |

The runs take from a few seconds to a few minutes, a proof module from seconds to minutes.
