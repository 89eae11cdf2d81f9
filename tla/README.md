# cannet in TLA+

cannet is a small reactor library in the manner of muduo: one event loop per
thread, a base loop that only accepts, epoll, an eventfd to wake a loop, a
timerfd for its timers, and TcpConnection objects that are recycled.  This
directory models its core, checks the models with TLC on small instances, and
proves about eight of them with TLAPS what holds for every instance.

Paths below are those of the repository; line numbers of every definition are in
`PROJECT.json` under "map".

## The system

| Component | State | Operations | Interacts through |
|---|---|---|---|
| EventLoop (`net/EventLoop.*`) | `functors_` under `mutex_`, `quit_`, the eventfd, `callingFunctors_` | `loop`, `quit`, `runInLoop`, `queueInLoop`, `runFunctors`, `wakeup` | every other thread hands it functors |
| EventLoopThread, Thread, Latch (`net/EventLoopThread.*`, `base/Thread.*`, `base/Latch.*`) | `loop_`, a mutex with a condition variable, the start latch | `startLoop`, `threadFunc`, the destructor | the thread publishes a loop that lives on its stack |
| EventLoopThreadPool, TcpServer (`net/EventLoopThreadPool.*`, `net/TcpServer.*`) | `loops_`, `next_`, the listening socket, `idleFd_` | `start`, `acceptHandRead`, `newConnection`, `getNextLoop` | deals accepted descriptors to the loops with `queueInLoop` |
| Channel, Epoll, TcpConnection's life (`net/Channel.*`, `net/Epoll.*`, `net/TcpConnection.*`) | `connections_`, `connectionsPool`, the interest list, `state_`, `status_`, `events_` | `createConnection`, `handleEvent`, `updateChannel`, `handleRead/Close/Error`, `shutdown`, `forceClose`, `stopRead`, `startRead` | user callbacks; descriptors shared with the accepting thread |
| TcpConnection's output (`net/TcpConnection.*`, `SendFileUtil` of `base/File.*`) | `outputBuffer_`, `sendFile_`, the write event | `send`, `sendInLoop`, `handleWrite`, `shutdown`, the completion callback | the kernel's send buffer |
| TimerManager, Timer (`net/TimerManager.*`, `net/Timer.h`) | a priority queue, the timerfd | `addTimer`, `cancel`, `handleRead`, `getExpired`, `reset` | `runInLoop`; user callbacks |
| Buffer (`net/Buffer.*`) | a vector with two indices | append, retrieve, prepend, `readFd`, `shrink`, `unwrite` | TcpConnection and the user |
| AsyncLogger, LogFile, Logger, LogStream (`base/`) | two buffers of the appenders, two spare ones of the thread, those queued between them; stdio's buffer; `onceControl` | `operator<<`, `output`, `append`, `start`, `stop`, `threadFun`, `log_exit` | every LOG line of every thread |
| ThreadSafeQueue, ThreadPool (`base/`) | a list with two locks, `running_` | `push`, `waitAndPop`, `tryPop`, `notify_all`; `start`, `stop`, `addTask` | nothing in the library uses them |

What is hard here:

* Wakeups.  `queueInLoop` decides after its unlock whether to write to the
  eventfd; one read of the eventfd swallows any number of writes; the loop's own
  functors are queued while others run.
* The rendezvous of `startLoop` (a latch, then a condition variable) and the race
  of `quit()` with the first line of `loop()`.
* Recycling.  A TcpConnection goes to a pool inside one of its own handlers, its
  descriptor number is free for the accepting thread at once, and functors and
  the other handlers of the same event still refer to it.
* Output in parts: a direct write, then the buffer, then a file, with
  `shutdown()` and the completion callback due after all of them.
* Timers that callbacks cancel or repeat while the expired ones are walked, and
  a timerfd that must be armed for the earliest, with a time that may be past.
* An edge-triggered listening socket and a descriptor table that fills.
* Indices that move when a Buffer moves its bytes, grows, shrinks and spills.
* Log buffers that change hands by pointer: a spare one for the appenders must
  come back from those already written, a backlog is dropped, and a stop meets
  the thread anywhere.
* A list whose two ends have a lock each, with a notification under neither.

`PROJECT.json` lists what is hard to test at its line under "hazards", with the
properties that would catch it, or the reason why none does yet.

What makes each component correct: the loop runs every functor once, in order,
and does not sleep on work; a started thread hands over a loop that is ready, and
a destroyed one is joined; every accepted descriptor has one owner and every
client is answered; a TcpConnection is in `connections_` or in the pool, watched
as its channel thinks, and touches only its own socket; bytes are neither lost,
repeated nor reordered, and completion and shutdown come after them; timers run
when due, at most as often as they should, and no timer is forgotten; a Buffer is
a queue; the log is in order and complete but for a backlog, a buffer of it has
one owner, and a record is legible and inside its array; a task queue is a queue
although its ends have different locks, and wakes its workers.

## The modules

```
TaskQueue   <- EventLoop  <- EventLoopThread -> Latch       (threads and functors)
                  |   assumed by
                  v
Server      -> createConnection functors -> Connections     (descriptors)
                                              Output          (one connection's bytes)
Timers                                                      (the timerfd of a loop)
ByteQueue   <- Buffer                                       (layout of the bytes)

RecordLog   <- AsyncLogger -> Latch                         (buffers of records)
                  ^
               Logger      -> LogStream                     (pthread_once, formatting)
TaskQueue   <- ThreadSafeQueue <- ThreadPool                (a list, and its workers)
```

* **TaskQueue** is the promise of a loop: functors run once, in queueing order,
  and all of them as long as the loop is not stopped.
* **EventLoop** is the code behind the promise.  `pc` is the place of the loop
  thread; `functors`, `batch`, `active`, `wakeups`, `quit` are `functors_`, the
  vector swapped out by `runFunctors`, `activeChannels_`, the eventfd's counter
  and `quit_`.  A call of `queueInLoop` or `quit` is two steps, the store and the
  write to the eventfd; threads between the two are in `waking`.
* **EventLoopThread** extends EventLoop with the owner, the thread, `loop_`, the
  condition variable, and with an instance of **Latch**; `NextThread` composes
  the owner's, the thread's and the loop's steps.
* **Connections** is one loop's Epoll with its TcpConnections and their Channels,
  the interest list and the descriptor table.  `agenda` holds what is left of one
  `Channel::handleEvent`; between two of its handlers the accepting thread may
  run.  What the user's callbacks call, and what peers do, is a constant set
  `Usages`; the variable `usage` is the one of a behaviour and never changes.
* **Output** is the sending side of one connection.  Units of data carry their
  message and position, so that `wire`, `buffer` and the file's rest can be
  compared with what was accepted.
* **Timers** holds time relatively: `left[t]` is `expiration_` minus now, and
  `Tick` brings everything one unit nearer.
* **ByteQueue** is what a user of **Buffer** sees.  Buffer's operators (`Grown`,
  `Moved`, `Filled`, ...) are functions of the record of vector and indices, and
  its actions apply them.
* **Server** is TcpServer with the pool: start-up, one step per system call of
  `acceptHandRead`, the round robin, and the loops as queues of
  `createConnection` functors, relying on EventLoop for their execution and on
  Connections for the rest of a connection's life.
* **RecordLog** is the promise of the logger: records reach the file once, in
  order, and all of them while it is open, but for a run of records behind the
  oldest one that may be dropped when a backlog has built up.
* **AsyncLogger** is the code behind it, LogFile and stdio included.  A buffer is
  its identity, `text` is what it holds, so that a `shared_ptr` that is moved,
  swapped or reset is seen to be in one place or in two.  A critical section is
  one step and `wait_for` ends it; the writing of each buffer is a step.
* **Logger** extends it with the threads that log, `pthread_once` and
  `log_exit`.  What a record holds, and so how long it is, comes from
  **LogStream**: `Text` folds the `operator<<` of a line over a FixedBuffer, with
  the digits of `convert` and `convertHex` and the check against
  `kMaxNumericSize`.
* **ThreadSafeQueue** is the list with one step for each stretch under one mutex;
  `missed` is a history variable that remembers a notification that fell between
  a worker's test and its sleep.  **ThreadPool** adds the workers, the owner, and
  threads that poll.
* `MC_*` give the constants of the runs; `*_proofs` hold the theorems.

Operators and actions named `X_Mut` (and variants of that name) are plausible
mistakes in `X`.  No specification uses them: substituted for `X`
they break the property for which `PROJECT.json` lists them, which shows that the
property depends on that line of the code.

## The runs

| Run | Instance | Shows |
|---|---|---|
| `event_loop` | two foreign threads, three functors, `quit()` from inside and outside | `NoLostWakeup`, `RefinesTaskQueue` (with liveness), `QuitStops` |
| `loop_thread` | one owner, two functors of the init callback | `StartLoopReturns`, and with a loop that is ready (`StartedLoopIsReady`); `LateDtorJoins`: a destructor that finds the loop running joins |
| `connections` | two objects, two descriptors, three peers, two usages | `OneHome`: every object in one place; `EpollAgrees` with the channels; handlers run on their `OwnSocket`; `NoCollateralClose` of a connection for another's sake; `EndedIsReported`; `ShutdownReachesKernel` |
| `connections_stale` (violated) | `forceClose()` in the connection callback | the queued functor closes the object's next connection |
| `output` | a kernel buffer of two units, three messages of up to three units, a file of one | the bytes are `Conserved`; `WatchedWhilePending`: the write event exactly while output waits; `CompletionMeansSent`, and shutdown after the output; `Delivered`, `SendIsReported` |
| `timers` | two timers, delays of one or two units, lateness up to two | `ArmedForTop`; `RunsAreDue`: none early, cancelled or repeated by mistake; `NeverLate`; `PromptTimersExpire`: a prompt loop runs them all |
| `timers_late` (violated) | one timer, a slow loop | a time that has passed disarms the timerfd for good |
| `buffer` | one byte of header room, two of data, strings up to three bytes | indices in range; `RefinesByteQueue` |
| `server` | three clients, no pool or one of up to two threads, three descriptors, one foreign file | `NobodyForgotten`, `NoDescriptorLeaks`, dealt in turn (`Balanced`), `SpareKept`; with a pool `EveryClientAnswered` |
| `server_spin` (violated) | the same | without a pool a full table keeps the base loop in `acceptHandRead` for ever |
| `logger` | two threads, seven lines, buffers of 21 characters, records of up to 19, a backlog of more than three buffers | a buffer has `OneOwner`, `SparesReturn`, `RecordsReadBack`, `RefinesRecordLog` (with liveness), `StopWritesTheRest`, `LoggingReturns` |
| `pool` | two workers, two pushing threads, one that polls, two tasks on three nodes | `NodesApart`, `QueueIsFifo`, `StrandedOnlyInWindow`, `TasksAreTaken`, `AddTaskReturns` |

Where no type invariant is listed, it is a conjunct of another invariant of the
run (`OneHome`, `Conserved`, `ArmedForTop`, `Balanced`, `RecordsReadBack`, ...).

Why the bounds suffice.  Three functors and two callers give two calls under way
while a batch runs and a third queued behind it.  Three sockets on two
descriptors and two objects force each descriptor and object to be reused while
the other is alive.  A message of three units against a kernel buffer of two is
split into a direct write, a partial write and a rest.  Two timers give every
order at the top of the queue, and a lateness as long as the longest interval is
where the arithmetic changes sign.  A Buffer with room for two bytes and inputs
of three moves, grows and spills, singly and together.  Three clients and three
descriptors, one of them spare, fill the table with connections alone, and one
foreign file can take the spare one's place.  Seven
records of 9 to 19 characters, one or two to a buffer of 21, are enough for four
buffers in a batch (a dropped backlog), for both spares to be given away at once
and for LogFile's own flush (each third append);
the integers are those of eight bits, with both ends of their range, and numbers
are streamed into a record that is full.  Tasks come back and a push takes the
first free node, so that a node popped by one thread is soon linked by another
(two tasks and the node at the head fill the three nodes); two workers and one
poller let a task go to another than the worker that was woken.

`connections` uses symmetry over objects, descriptors and sockets; it checks
invariants only.  Deadlock is checked where the system cannot stop (`timers`,
`buffer`).  Elsewhere a behaviour may end: a loop that has quit, a server whose
clients have all come and gone.

### Fairness

* EventLoop: weak fairness of the loop thread and of a thread that owes a wakeup;
  nobody has to call anything.
* EventLoopThread: the same for the owner inside a call and for the thread.
* Output: the loop thread runs, and a peer that has not reset reads some time.
  A peer that stops reading is no fault of the code.
* Timers: the loop thread runs; time passes (strong fairness of `Tick`, since
  other events may disable it again and again but not at every moment for ever).
  `PromptTimersExpire` speaks of loops that time waits for.
* Server: the base thread runs (its steps inside `acceptHandRead` are always
  enabled, so weak fairness is enough), each loop runs its functors, peers leave
  and foreign files are closed at some time.  The last two are assumptions on the
  environment, made so that descriptors are never held by anybody but the server:
  the violation of `AcceptorReturns` then is the server's own doing.
* Logger: the logging thread runs (its wait has a timeout), and so do the
  callers; nobody has to log or to stop, but a `stop()` that has begun goes on.
* ThreadPool: strong fairness of each thread, since the mutexes are taken and
  released by others in between and a thread must obtain one of them some time;
  tasks return.  Nobody has to push, to poll or to stop.

`connections` has no liveness property and no fairness.

## What is proved

`EventLoop_proofs`, for any set of threads, functors and quitters:

* `TypeCorrect`: types, and where the local vectors are empty.
* `WakeupSafety`: the loop never sleeps on a queued functor or an unseen `quit_`,
  under the hypothesis `SetupTasks = {}` (the loop thread queues nothing before
  `loop()`; otherwise it is false, see below).  `NoLostWakeup` is not inductive:
  it speaks only of the sleeping loop.  `WakeupOwed` is: at every place but the
  handling of events, a functor in the queue, or a `quit_` the loop is about to
  sleep on, has a wakeup in the eventfd or a thread on its way to write one.
  During the handling of events it does not hold (the loop thread queues without
  a wakeup, and `HandleRead` takes wakeups away), and need not, as `runFunctors`
  takes the whole queue next.
* `ExecutorSafety`: the loop implements the safety part of TaskQueue.  The
  mapping is `pending <- batch \o functors`; the proof has one step per action,
  and the facts about concatenation are lemmas.
* `ThreadRunsALoop`: EventLoopThread's behaviours are behaviours of the loop, so
  that the above holds of a loop in a thread too.
* `StartedLoopIsAlive`: `startLoop()` returns the pointer to a loop that is
  initialised and that its thread has not left.  `Rendezvous` ties the places of
  owner and thread to the mutex, the condition variable and the pointer; and
  `ThreadsProgress` says why the thread stays in `loop()`: only `quit_` ends it,
  and among the threads only the owner's destructor sets it.

`Buffer_proofs`, for any set of bytes and inputs, header room, initial size and
size of the spill, with `kPrepend <= kInitSize`:

* `IndicesStayInside`: `TypeOK`, the indices in order and inside the vector.  It
  is inductive with the conjunct `Prepend <= Len(mem)`, which the reset of
  `retrieveAll` needs and which `shrink` keeps because it adds `kInitSize`.
* `ImplementsByteQueue`: each operation changes the content as ByteQueue says.
  The lemmas follow the code: `ResizeFacts` and `CopyFacts` on the vector,
  `ContentIs` (how to recognise the content), one lemma for each operator
  (`GrownFacts`, `MovedFacts`, ..., `FilledFacts` for the spill of `readFd`), and
  `StepFacts` with one step per action.

`ThreadPool_proofs`, for any number of workers, pollers, pushing threads, tasks
and nodes:

* `MutexesExclude`: `TypeOK`, with each mutex held by exactly the thread in its
  critical section.
* `NodesStayApart`: the node a thread pops is complete and is not the one another
  fills under the other mutex.  That is not inductive: that the head is complete
  when somebody finds it is not the tail follows from the shape of the list
  (`Chain`: full nodes linked one to one, none pointing at the head, ending at the
  tail), and what a thread relies on between its steps from `Held` (a thread
  about to pop has seen head and tail differ, and only popping moves the head).
  `ListInv` is the two with `TypeOK`.
* `ListIsAQueue`, for a finite set of nodes: `QueueIsFifo`.  What the list holds is
  defined by the links alone: an `Order` of the live nodes is a sequence that goes
  from the head to the tail along `next`.  There is only one (`OneOrder`, by the
  least place where two would differ), so that linking a node appends to it and
  popping takes its first; `Ordered` says that there is one.  `ItemsDistinct` makes
  the history of what was pushed comparable with what the nodes hold.
* `NobodyStranded`, for a pool with a worker: `StrandedOnlyInWindow`.  (`start(0)`
  leaves nobody to take a task.)  Inductive is `Attended`: while the list holds
  more tasks than notifications and busy workers will see to, one was missed.

`Logger_proofs`, for any number of logging threads, buffers and records, any limit
of at least two buffers, and any lines that `LinesAssumption` allows: integers of
`MaxNumericSize` - 2 digits and pointers of `MaxNumericSize` - 3 at most and doubles
that are shorter than `MaxNumericSize` (what the static_asserts at the end of
LogStream.cpp are for), and texts of any length:

* `SparesAlwaysReturn`: a written batch can replace the spares given away for it,
  and the thread never sleeps on a queued buffer.
* `BuffersHaveOneOwner`: no buffer is in two places, and a spare one is empty.
  Both follow from `BufferInv`.  Its part `Supply` says why the buffers suffice:
  `nextBuffer_` is null only if a full buffer is queued, so a batch that took both
  spares holds two buffers at least.  `Apart` is `OneOwner` place by place,
  `Shape` the types; facts about appending, cutting and joining sequences without
  repetition are lemmas.
* `BuffersAreOneLog`: the safety part of `RefinesRecordLog`.  What waits is the rest
  of what stdio was given, then the texts of the batch, of the queue and of
  `currentBuffer_`; an append adds a record at its end, a write or a flush moves some
  of its oldest to the file, an exchange and a refill leave it as it is, and a trim
  takes out a run behind the oldest record.  The invariant is `TextInv`: a buffer
  that is in none of these places is empty (`Clean`), so that a spare or new one
  adds nothing where it appears; a queued buffer is not (`Full`, because a record
  fits into an empty buffer, `SizeAssumption`), so that a trimmed batch had as many
  records as RecordLog asks for before it drops any, and the oldest stays; and the
  cursor has passed all of a batch that is recycled (`Progress`).  `Count` says that
  whoever is about to append has a record for it.  What `FlattenSeq` and `FoldLeft`
  make of sequences is proved by an induction over sets of numbers (`AllNumbers`,
  from the well-foundedness of `<`), which needs no operator as a parameter.
* `LoggerTypeCorrect`: the types, and how the logger starts.  Inductive is `Begun`:
  `pthread_once` has not been called, or one thread is in `once_init` and the owner
  waits for the latch, or it is over; only then does anybody append.  `Latched`
  says that the latch is up exactly until the logging thread has run.
* `RecordsAlwaysReadBack`: `RecordsReadBack`, whatever the lines are.  What TLC
  evaluates for seven lines is proved from the operators of LogStream.  `decimal`
  and `hex` are recursive functions over all numbers: that there is such a function,
  and only one, is an induction over sets of numbers (`WritesExists`, `WritesOne`),
  so the one CHOOSE takes writes a digit and then what it writes of the rest
  (`WritesAll`), also for negative values, whose remainders are negative
  (`DecimalReads`).  Reversed, the digits read as the value (`DigitsReadBack`), and
  a number that is not greater than k nines has k digits at most (`DigitsAreFew`):
  with a sign or "0x" and a terminating zero it is shorter than the
  `MaxNumericSize` that is asked for.  So a piece adds all of its characters, or
  nothing (`PieceAdds`), and the record never outgrows its buffer (`PrefixFits`).
  The provers do not know that a literal such as "0" is in STRING; the sets of
  characters in the proofs are STRING with the literals that the logger writes.

`Server_proofs`, for any number of clients, other files, threads and descriptors:

* `ClientsAreNotForgotten`: an edge is due, or the base loop is awake, while a
  client is in the backlog.
* `DescriptorsHaveOwners`: what `accept()` returned is queued to one loop, served,
  or about to be closed again.  Neither is inductive.  `Waits` and `Deals` say
  that a client is in one place, once: in the backlog, or in the queue of the
  loop it was dealt to; without them a functor could run for a client that was
  dealt twice, or the tail of a queue hold the client just taken.  `Watch` ties
  `idleFd_` and the registration of the listening channel to the place in
  `acceptHandRead` (only between `accept` and `close` does `idleFd_` hold a
  client), and `PoolSettled` says that `getNextLoop` indexes a filled pool.
  `ServerInv` is these with `TypeOK`.
* `ClientsAreBalanced`: `Balanced`.  `InTurn` is stronger: the first `next_` loops
  are exactly one client ahead of the rest; and a client that was not dealt has no
  loop (`Fresh`), so that each accept changes one count by one.
* `SpareIsKept`: `SpareKept`, by counting descriptors: never more than the table
  holds are in use, and while nobody else has opened a file, one stays free from
  the `close` of the spare one to the `open` (`Spare`), whatever the loops and
  the peers do meanwhile.

`Output_proofs`, for messages and a kernel buffer of any size, sent by the loop
thread and by another, under the hypothesis `WholeFiles`: a usage that sends a
file sends it in one part that fits what the kernel takes at once, from the loop
thread, and one thing at a time, each after the completion of the one before.
(With a file in several parts, or behind output that waits, the code skips bytes
or reports early, and the statements are false, see below.)  The usages of the run
satisfy it, one of them with files.

* `MessagesAreConserved`: what was written followed by what waits is what was
  accepted.
* `PendingIsWatched`: the write event is enabled exactly while output waits.
* `CompletionsAreTrue`: at the step that queues a completion for the user, or calls
  `shutdown(SHUT_WR)`, the kernel has everything that `sendInLoop` accepted, the
  file included.
  One invariant, `OutputInv`, proves all three, because each needs the others:
  `sendInLoop` writes past the buffer only if the write event is off (`Idle` makes
  that mean that nothing waits; otherwise the new message would overtake it);
  `Busy` is its counterpart with the event on, where what waits is the end of the
  last thing accepted; `FilesAreWhole` keeps a file from ever being what waits;
  and `NothingAfterShut`, that nothing waits once `shutdown(SHUT_WR)` was called,
  needs the order of the two.  Facts about cutting and joining sequences are
  lemmas.

`Timers_proofs`, for any number of timers, intervals and lateness:

* `CallbacksAreDue`, for any delays: `RunsAreDue`.  `DueInv` says what
  `handleRead` relies on while callbacks and other threads add and cancel: what is
  left of the expired ones (`Walk`) is due and holds each timer once; a timer is
  added by one functor and waits in it until then (`AddOnce`, `Apart`, `Waits`,
  for the queue and for the batch that is run); and one that ran and does not
  repeat (`Spent`) is neither in the queue nor on its way there.
* `TimerFdIsArmed` and `TimersAreNeverLate`, under `PositiveDelays` (a timer for
  now disarms the timerfd, see `timers_late`).  Each needs the other: a unit of
  time may pass only while the loop is idle, then the timerfd is armed for the
  first timer, so that none has less left than it (`QueuePart`); and while the
  loop is busy time stands still (`OutsidePart`), which is where `Waits` is
  needed: an idle loop holds no timer in a functor.  That a queue has a first
  timer (`FirstExists`) is induction over the number of timers, by a least
  counterexample.

`Connections_proofs`, for any number of objects, descriptors and peers and any
set of usages under the hypothesis `WellUsed`: in each, either no callback calls
`stopRead` or `startRead` (`NeverStops`), or callbacks may but peers do not reset,
nobody calls `shutdown` or `forceClose`, and `send` is called in the message
callback only (`PausesOnly`).  Outside it the properties fail: a bare HUP of a
connection that does not read runs the close handler, and the read handler after
it meets whatever has the descriptor then; and a completion that arrives after the
close would call `stopRead` on an object of the pool.  Both usages of the run
satisfy it, one in each way.

* `ObjectsHaveOneHome`, `InterestsAgree`, `HandlersMeetTheirSocket`,
  `ShutdownIsPerformed` and `EndsAreReported` are the run's invariants `OneHome`,
  `EpollAgrees`, `OwnSocket`, `ShutdownReachesKernel` and `EndedIsReported`.  They
  follow from one invariant, `ConnectionsInv` with `Settling`, and need each other.
  `Homes` says where an object is, `Files` that no two descriptors name one socket,
  `Watching` that a live connection is registered with the events of its channel,
  or deleted when it has none, and that `reading_` says whether input is one of
  them.  Where nobody stops reading it always is, which is why a reset or a close
  in both directions is never a bare HUP (`Handling`): the only handler that closes
  the connection in hand is then the read handler, with none after it that takes
  the descriptor for its own.  Where callbacks stop reading there is no HUP at all
  (`Calm`).  `Queued` is the agreement of the two threads: a descriptor whose
  `createConnection` waits has a socket and no connection, and waits once, in
  `functors_` or in the batch.  The steps of the objects and the kernel (a record
  changes, a connection closes or opens, a socket is accepted) are lemmas of their
  own, which the handlers, functors and calls share.
* That `stopRead` and `startRead`, which do not look at `state_`, act on a live
  connection is the invariant's `Settling`.  A connection is `Settled` when it is
  live and nothing left of this turn of the loop will close it: no event of it
  waits, and no close or read handler.  The one a message callback speaks of is
  (`InCall`), because its read handler was the last that could close it; and where
  callbacks stop reading, so is the one of a queued completion, from the event that
  queued it to the functor (`Promised`), because functors run before the next
  `epoll_wait`.
* `OthersStayOpen`, if moreover `forceClose` is called in the message callback only
  (`ForcesOnMessage`): `NoCollateralClose`.  The functor that `forceClose` queues
  names the object, not the connection; that it finds the connection it was queued
  for is `Forced`: it was settled at the call, the functor is queued once because
  the turn brings no second message of it, and it runs before `epoll_wait` can
  report the connection and the object be recycled.  Called by a
  functor's callback instead it waits one more turn, and closes another's
  connection: `connections_stale`.

Only model-checked: all liveness (TLAPS does not reason about fairness and
ENABLED), the liveness parts of `RefinesTaskQueue` and `RefinesRecordLog` included.

## Where the code differs from what it says

Three disagreements have a run (the violated ones above) and are listed under
"findings".  Others came up while modelling; the
models keep away from them by a guard, a usage or a hypothesis, or leave the
operation out:

* `queueInLoop` by the loop thread before `loop()` writes no wakeup: the functor
  waits for the first event (`SetupTasks`).
* `quit()` before the first line of `loop()` is erased (`EventLoop.cpp:67`), and
  the destructor of an EventLoopThread that has just started joins for ever
  (`LateDtorJoins` begins with a loop that runs).
* `handleWrite` reports the completion, and performs a pending shutdown, when the
  message before a waiting file is out (`TcpConnection.cpp:319`); in `output`
  files follow messages that the kernel takes at once.
* `quit()` from another thread uses the loop after the store that lets its thread
  destroy it (`EventLoop.cpp:87-89`).
* `connectionCallback_` never hears of the end of a connection
  (`TcpConnection.cpp:272`).
* `send(string)` by another thread is lost (`TcpConnection.cpp:73-79`).
* `sendfile` has advanced `offset_` already when the code adds to it again: a file
  sent in two parts skips bytes (`TcpConnection.cpp:151,344`).  The end of a file
  on the direct path with a completion callback dereferences the reset
  `sendFile_` (`TcpConnection.cpp:172`).
* `setThreadNum` after `start` changes the modulus of the round robin.
* `shrink` resizes to the readable bytes plus the reserve and `kInitSize`, although
  they may start far behind the header: the vector can end before `writerIndex_`
  (`Buffer.h:209`; the guard of `Shrink`).  `unwrite` asserts that its length is at
  most the writeable bytes, where what it takes back is readable (`Buffer.h:120`;
  the guard of `Unwrite`).  Nothing in the library calls either.
* `LOG_FATAL` and `LOG_SYSFATAL` only log: `abortNotInLoopThread` returns, errors of
  `accept` called fatal keep the accept loop running, and a failed `bind` leaves a
  server that never hears of a client.
* `stopRead` and `startRead` do not look at `state_`: on a closed connection they
  register a descriptor that is not theirs (`TcpConnection.cpp:255`).
* The functor of `send(Buffer *)` evaluates `retrieveAllAsString()` and
  `readableBytes()` in an unspecified order (`TcpConnection.cpp:64`); the model
  takes the order in which the length is read first.
* An empty file never completes, and `sendLen_` is not initialised for one that
  cannot be opened (`base/File.cpp:89`).
* With assertions on, `addTimer` ends in `assert(timer == nullptr)`
  (`TimerManager.cpp:70`), and the destructors of a started TcpServer
  (`Channel.cpp:27`) and of an Epoll with live connections (`Epoll.cpp:25`) abort;
  `~Channel` closes its descriptor a second time (`Channel.cpp:28`).  The models
  are of the build without assertions, except that `Connections` checks those on
  `state_` (a part of `OneHome`).
* Timers take their numbers from a plain `int64_t` that all threads increment
  (`Timer.h:22`).
* Members of EventLoopThread are destroyed in reverse order, so its mutex and
  condition variable are gone while `~Thread` waits for the thread that still
  locks it (`EventLoopThread.h:25`).
* `forceClose()` by another thread tests `state_` and then stores it
  (`TcpConnection.cpp:206-208`): between the two the loop can close and recycle
  the object, which then is `kDisconnecting` in the pool.
* AsyncLogger: what is appended after the thread's last exchange is lost on
  `stop()` (`AsyncLogger.cpp:40`), and all of it at the end of a program, which
  never calls `log_exit`; a backlog of more than 25 buffers loses all but the
  first two without a word (`:58`); `start()` hangs if the thread cannot be
  created (`ThreadStd.cpp` swallows the exception); AppendFile does not look at
  the result of `fopen`.
* LogStream: a record that is full loses its end, the line break included;
  `resetBuffer` resets nothing that FixedBuffer reads.
* ThreadSafeQueue: `push` notifies outside of `headMutex_`, so that a worker
  between its test and its sleep misses it and the task waits for the next push
  (`StrandedOnlyInWindow` shows that nothing else strands a task).  `notify_all`
  locks `headMutex_` twice: `stop()`, and the destructor of a running pool, hang
  as the comments there say.

## Not modelled

* The destructors of TcpServer, EventLoopThreadPool, Epoll, Channel and
  TimerManager and what they do to live connections: the library's own use never
  ends a server.
* Calls of other threads on a connection beyond `send(Buffer *)`: `state_` and the
  channel are read and written without a lock, and what then holds is little;
  the race of `forceClose()` is described above.
* Files that cannot be opened, writes to the log that fail; `LogFile::rollFile`,
  which has no body; `WriteFile` and `ReadSmallFile`, which nothing uses;
  `Buffer::swap` and the searches for line ends, which change nothing.
* The init callback of a ThreadPool and empty tasks; the cached thread number.
* Socket options and addresses, the text of times and doubles, the example
  server, type aliases.

## Plan

1. Connections: `forceClose()` by other threads (`TcpConnection.cpp:208`), and
   completions that are delivered across a recycling (`:325`), with the guarantee
   a user still has of each.
2. Output: files in several parts (`:151`).
3. Proofs: Connections under wider usages than `WellUsed` (a callback that stops
   reading and peers that shut down, where no HUP is bare yet).
