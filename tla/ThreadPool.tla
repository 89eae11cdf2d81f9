----------------------------- MODULE ThreadPool -----------------------------
(***************************************************************************)
(* cannet::ThreadPool: workers that take tasks from a ThreadSafeQueue      *)
(* while running_ is set.  Beside the pool's own calls, threads that poll  *)
(* the queue with tryPop stand for other users of it.                      *)
(***************************************************************************)
EXTENDS ThreadSafeQueue

CONSTANT Owner            \* the thread that starts and stops the pool

ASSUME OwnerAssumption == Stoppers = {Owner}

VARIABLES running         \* running_

vars == <<queueVars, running>>

(* Workers: "none": not created; "check": at `while (running_)'; "exited". *)
(* The owner: "new", "starting", and the places of notify_all.             *)
Places == QueuePlaces \cup {"none", "check", "exited", "new", "starting"}

Workers == Waiters

Init ==
  /\ InitQueue
  /\ running = FALSE
  /\ pc = [th \in Threads |-> IF th \in Workers THEN "none"
                              ELSE IF th = Owner THEN "new" ELSE "idle"]

-----------------------------------------------------------------------------
(* The owner.                                                              *)

Start ==
  /\ pc[Owner] = "new" /\ Go(Owner, "starting")
  /\ running' = TRUE
  /\ UNCHANGED <<listVars, headMutex, tailMutex, item, taken, missed>>

\* One round of the loop of start(): a Thread is created and has begun.
Spawn(w) ==
  /\ pc[Owner] = "starting" /\ pc[w] = "none" /\ Go(w, "check")
  /\ UNCHANGED <<listVars, headMutex, tailMutex, item, taken, missed, running>>

EndStart ==
  /\ pc[Owner] = "starting" /\ \A w \in Workers : pc[w] # "none"
  /\ Go(Owner, "idle")
  /\ UNCHANGED <<listVars, headMutex, tailMutex, item, taken, missed, running>>

\* stop(), also from the destructor of a pool that runs.
Stop ==
  /\ pc[Owner] = "idle" /\ running /\ Go(Owner, "notifyAll")
  /\ running' = FALSE
  /\ UNCHANGED <<listVars, headMutex, tailMutex, item, taken, missed>>

-----------------------------------------------------------------------------
(* Tasks.                                                                  *)

\* Which of the tasks comes next makes no difference.
FreshTasks == Tasks \ ({val[n] : n \in Nodes} \cup {item[th] : th \in Threads}
                        \cup {taken[i] : i \in DOMAIN taken})

\* addTask, from any thread and at any time.
AddTask(th) ==
  /\ pc[th] = "idle" /\ Go(th, "push")
  /\ FreshTasks # {}                        \* bound: Tasks
  /\ item' = [item EXCEPT ![th] = CHOOSE t \in FreshTasks : TRUE]
  /\ UNCHANGED <<listVars, headMutex, tailMutex, taken, missed, running>>

Check(w) ==
  /\ pc[w] = "check" /\ Go(w, IF running THEN "lock" ELSE "exited")
  /\ UNCHANGED <<listVars, headMutex, tailMutex, item, taken, missed, running>>

\* task() returns some time.
RunTask(w) ==
  /\ pc[w] = "got" /\ Go(w, "check")
  /\ item' = [item EXCEPT ![w] = NoTask]
  /\ UNCHANGED <<listVars, headMutex, tailMutex, taken, missed, running>>

TryPop(th) ==
  /\ pc[th] = "idle" /\ Go(th, "lock")
  /\ UNCHANGED <<listVars, headMutex, tailMutex, item, taken, missed, running>>

EndTryPop(th) ==
  /\ pc[th] = "got" /\ Go(th, "idle")
  /\ item' = [item EXCEPT ![th] = NoTask]
  /\ UNCHANGED <<listVars, headMutex, tailMutex, taken, missed, running>>

Push(th) == PushStep(th) /\ UNCHANGED running
Pop(th) == PopStep(th) /\ UNCHANGED running
Wakeup(th) == Spurious(th) /\ UNCHANGED running
NotifyWorkers == NotifyAll(Owner) /\ UNCHANGED running

WorkerStep(w) == Check(w) \/ Pop(w) \/ RunTask(w)
PollerStep(th) == Pop(th) \/ EndTryPop(th)

Next ==
  \/ Start \/ EndStart \/ Stop \/ NotifyWorkers
  \/ \E w \in Workers : Spawn(w) \/ WorkerStep(w) \/ Wakeup(w)
  \/ \E th \in Pushers : Push(th) \/ AddTask(th)
  \/ \E th \in Pollers : TryPop(th) \/ PollerStep(th)

\* Threads run, and a mutex that is released again and again is obtained some
\* time; nobody has to add tasks, to poll or to stop the pool.
Fairness ==
  /\ \A w \in Workers : SF_vars(WorkerStep(w))
  /\ \A th \in Pushers : SF_vars(Push(th))
  /\ \A th \in Pollers : SF_vars(PollerStep(th))
  /\ WF_vars(EndStart \/ \E w \in Workers : Spawn(w))

Spec == Init /\ [][Next]_vars /\ Fairness

-----------------------------------------------------------------------------
(* Properties.                                                             *)

HoldsHead(th) == pc[th] \in {"test", "window", "pop", "inEmpty"}
\* Types, and that a mutex is held exactly by the thread in its critical section.
TypeOK ==
  /\ {head, tail} \subseteq Nodes
  /\ val \in [Nodes -> Tasks \cup {NoTask}] /\ next \in [Nodes -> Nodes \cup {Null}]
  /\ {headMutex, tailMutex} \subseteq Threads \cup {Unlocked}
  /\ pc \in [Threads -> Places] /\ item \in [Threads -> Tasks \cup {NoTask}]
  /\ running \in BOOLEAN /\ missed \in BOOLEAN
  /\ \A th \in Threads : /\ headMutex = th <=> HoldsHead(th)
                         /\ tailMutex = th <=> pc[th] = "link"

\* A popping thread and a pushing thread never meet in one node, though they hold
\* different mutexes: the node that is taken is complete and is not the last one,
\* and the last one is empty but for the thread that is filling it.
NodesApart ==
  /\ TypeOK
  /\ \A th \in Threads : pc[th] = "pop" =>
       head # tail /\ val[head] # NoTask /\ next[head] # Null
  /\ next[tail] = Null
  /\ val[tail] = IF tailMutex = Unlocked THEN NoTask ELSE item[tailMutex]

fifo == INSTANCE TaskQueue
        WITH pending <- Content, done <- taken, open <- TRUE
\* The two-lock list is a queue: each task is popped once, in the order of push.
QueueIsFifo == fifo!SafeSpec

Pushing == {th \in Pushers : pc[th] # "idle"}
\* Tasks are stranded, queued while every worker sleeps and nobody is about to
\* notify, only after a notification fell between a worker's test of the queue
\* and its sleep.  (push() notifies without headMutex_, so that it can.)  Without
\* that, one notify_one for each push is enough for any number of workers,
\* although others may take the task from the worker that was woken.
StrandedOnlyInWindow ==
  (~IsEmpty /\ Workers = Asleep /\ Pushing = {}) => missed

\* A task added to a running pool is taken unless such a notification was missed
\* or the pool is stopped.
TasksAreTaken ==
  \A t \in Tasks :
    (running /\ \E n \in Nodes : val[n] = t)
      ~> ((\E i \in DOMAIN taken : taken[i] = t) \/ missed \/ ~running)

\* addTask never blocks, not even on a pool whose stop() holds headMutex_ for
\* ever: push() needs tailMutex_ alone, and nobody keeps that one.
AddTaskReturns == \A th \in Pushers : (pc[th] = "push") ~> (pc[th] = "idle")
=============================================================================
