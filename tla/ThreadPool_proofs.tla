------------------------- MODULE ThreadPool_proofs -------------------------
(***************************************************************************)
(* Proofs about ThreadPool and its ThreadSafeQueue, for any number of      *)
(* workers, pollers, pushing threads, tasks and nodes: mutual exclusion on *)
(* the two mutexes, that threads which hold different ones never meet in a *)
(* node of the list, that the list is a queue, and that only a missed      *)
(* notification strands a task.                                            *)
(***************************************************************************)
EXTENDS ThreadPool, FiniteSetTheorems, SequenceTheorems,
         WellFoundedInduction, TLAPS

(***************************************************************************)
(* The invariant.  NodesApart is not inductive: that the head is complete  *)
(* when a thread comes to pop it follows from the shape of the list, a     *)
(* chain of complete nodes that starts at the head and ends at the tail.   *)
(***************************************************************************)
Chain ==
  /\ next[tail] = Null
  /\ head \in Live
  /\ \A n \in Nodes : next[n] # Null =>
       next[n] \in Live /\ next[n] # head /\ val[n] # NoTask
  /\ \A m, n \in Nodes : next[m] # Null /\ next[m] = next[n] => m = n

\* What the threads rely on while they hold a mutex, or before they lock it.
Held ==
  /\ \A n \in Nodes \ Live : val[n] = NoTask
  /\ val[tail] = IF tailMutex = Unlocked THEN NoTask ELSE item[tailMutex]
  /\ \A th \in Threads : /\ pc[th] \in {"push", "link"} => item[th] # NoTask
                         /\ pc[th] = "pop" => head # tail

ListInv == TypeOK /\ Chain /\ Held

(***************************************************************************)
(* Types and mutual exclusion.                                             *)
(***************************************************************************)
LEMMA OwnerIsAThread == Owner \in Threads /\ Unlocked \notin Threads
BY OwnerAssumption, ThreadsAssumption DEF Threads

LEMMA LocksInit == Init => TypeOK
<1> SUFFICES ASSUME Init PROVE TypeOK
  OBVIOUS
<1>1. head \in Nodes /\ tail \in Nodes
  BY NodesAssumption DEF Init, InitQueue
<1> QED
  BY <1>1, OwnerIsAThread
  DEF Init, InitQueue, TypeOK, Places, QueuePlaces, HoldsHead

LEMMA StopLocks ==
  ASSUME TypeOK, Stop
  PROVE  TypeOK'
<1>1. pc \in [Threads -> Places] /\ Owner \in Threads
  BY OwnerIsAThread DEF TypeOK
<1>2. pc' = [pc EXCEPT ![Owner] = "notifyAll"] /\ pc[Owner] = "idle"
  BY DEF Stop, Go
<1>3. \A th \in Threads : pc'[th] = IF th = Owner THEN "notifyAll" ELSE pc[th]
  BY <1>1, <1>2
<1>4. pc' \in [Threads -> Places]
  BY <1>1, <1>2 DEF Places, QueuePlaces
<1>5. \A th \in Threads : /\ HoldsHead(th)' <=> HoldsHead(th)
                          /\ pc'[th] = "link" <=> pc[th] = "link"
  BY <1>2, <1>3 DEF HoldsHead
<1>6. /\ head' = head /\ tail' = tail /\ next' = next /\ val' = val /\ item' = item
      /\ headMutex' = headMutex /\ tailMutex' = tailMutex
      /\ missed' = missed /\ running' \in BOOLEAN
  BY DEF Stop, listVars
<1>7. \A th \in Threads : /\ headMutex' = th <=> HoldsHead(th)'
                          /\ tailMutex' = th <=> pc'[th] = "link"
  BY <1>5, <1>6 DEF TypeOK, HoldsHead
<1> QED
  BY <1>4, <1>6, <1>7 DEF TypeOK, HoldsHead

LEMMA LocksStep == ListInv /\ [Next]_vars => TypeOK'
<1> SUFFICES ASSUME ListInv, [Next]_vars PROVE TypeOK'
  OBVIOUS
<1>0. TypeOK
  BY DEF ListInv
<1> USE OwnerIsAThread DEF TypeOK, Places, QueuePlaces, HoldsHead, Go, listVars
<1>1. CASE Start \/ EndStart \/ Stop \/ NotifyWorkers
  <2>1. CASE Start
    BY <1>0, <2>1, SMTT(30) DEF Start
  <2>2. CASE EndStart
    BY <1>0, <2>2, SMTT(30) DEF EndStart
  <2>3. CASE Stop
    BY <1>0, <2>3, StopLocks
  <2>4. CASE NotifyWorkers
    <3>1. NotifyAll(Owner) /\ UNCHANGED running
      BY <2>4 DEF NotifyWorkers
    <3>2. pc' \in [Threads -> Places] /\ UNCHANGED <<head, tail, val, next>>
      BY <1>0, <3>1 DEF NotifyAll
    <3>3. \A th \in Threads : HoldsHead(th)' <=> th = Owner
      BY <1>0, <3>1, SMTT(30) DEF NotifyAll
    <3>4. \A th \in Threads : pc'[th] = "link" <=> pc[th] = "link"
      BY <1>0, <3>1, SMTT(30) DEF NotifyAll
    <3> QED
      BY <1>0, <3>1, <3>2, <3>3, <3>4, SMTT(30) DEF NotifyAll
  <2> QED
    BY <1>1, <2>1, <2>2, <2>3, <2>4
<1>2. ASSUME NEW w \in Workers, Spawn(w) \/ Check(w) \/ RunTask(w) \/ Wakeup(w)
      PROVE  TypeOK'
  <2>1. w \in Threads
    BY DEF Workers, Threads
  <2> QED
    BY <1>0, <1>2, <2>1 DEF Spawn, Check, RunTask, Wakeup, Spurious
<1>3. ASSUME NEW th \in Threads, PopStep(th), UNCHANGED running
      PROVE  TypeOK'
  <2>1. CASE LockHead(th)
    BY <1>0, <1>3, <2>1 DEF LockHead
  <2>2. CASE Found(th)
    BY <1>0, <1>3, <2>2 DEF Found
  <2>3. CASE FoundEmpty(th)
    BY <1>0, <1>3, <2>3 DEF FoundEmpty
  <2>4. CASE Sleep(th)
    BY <1>0, <1>3, <2>4 DEF Sleep
  <2>5. CASE PopHead(th)
    <3>1. next[head] \in Nodes
      BY <1>0, <1>3, <2>5 DEF PopHead, ListInv, Chain, Held, Live
    <3> QED
      BY <1>0, <1>3, <2>5, <3>1 DEF PopHead
  <2> QED
    BY <1>0, <1>3, <2>1, <2>2, <2>3, <2>4, <2>5 DEF PopStep
<1>4. ASSUME NEW th \in Threads, PushStep(th), UNCHANGED running
      PROVE  TypeOK'
  <2>1. CASE StoreValue(th)
    BY <1>0, <1>4, <2>1 DEF StoreValue
  <2>2. CASE Link(th)
    <3>1. FreshNode \in Nodes
      BY <2>2 DEF Link, FreshNode
    <3> QED
      BY <1>0, <1>4, <2>2, <3>1 DEF Link
  <2>3. CASE NotifyOne(th)
    <3>1. CASE Asleep = {}
      BY <1>0, <1>4, <2>3, <3>1, SMTT(30) DEF NotifyOne
    <3>2. CASE Asleep # {}
      <4>1. PICK w \in Asleep : pc' = [pc EXCEPT ![th] = "idle", ![w] = "lock"]
        BY <2>3, <3>2 DEF NotifyOne
      <4>2. w \in Threads /\ pc[w] = "asleep"
        BY <4>1 DEF Asleep, Threads
      <4> QED
        BY <1>0, <1>4, <2>3, <3>2, <4>1, <4>2, SMTT(30) DEF NotifyOne
    <3> QED
      BY <3>1, <3>2
  <2> QED
    BY <1>0, <1>4, <2>1, <2>2, <2>3 DEF PushStep
<1>5. ASSUME NEW th \in Threads, AddTask(th) \/ TryPop(th) \/ EndTryPop(th)
      PROVE  TypeOK'
  <2>1. FreshTasks # {} => (CHOOSE t \in FreshTasks : TRUE) \in Tasks
    BY DEF FreshTasks
  <2> QED
    <3>1. CASE AddTask(th)
      BY <1>0, <2>1, <3>1, SMTT(30) DEF AddTask
    <3>2. CASE TryPop(th)
      BY <1>0, <3>2, SMTT(30) DEF TryPop
    <3>3. CASE EndTryPop(th)
      BY <1>0, <3>3, SMTT(30) DEF EndTryPop
    <3> QED
      BY <1>5, <3>1, <3>2, <3>3
<1>6. CASE UNCHANGED vars
  BY <1>0, <1>6 DEF vars, queueVars
<1> QED
  BY <1>1, <1>2, <1>3, <1>4, <1>5, <1>6
  DEF Next, WorkerStep, PollerStep, Push, Pop, Workers, Threads

(***************************************************************************)
(* The list.                                                               *)
(***************************************************************************)
LEMMA ListInit == Init => ListInv
<1> SUFFICES ASSUME Init PROVE ListInv
  OBVIOUS
<1>1. TypeOK
  BY LocksInit
<1>2. Chain
  BY <1>1 DEF Init, InitQueue, Chain, Live, TypeOK
<1>3. Held
  BY <1>1 DEF Init, InitQueue, Held, TypeOK
<1> QED
  BY <1>1, <1>2, <1>3 DEF ListInv

\* A step that leaves the list, tailMutex_ and the items alone, and takes no
\* thread to a push or to a pop, keeps the invariant.
LEMMA ListAlone ==
  ASSUME ListInv, TypeOK', UNCHANGED <<listVars, tailMutex, item>>,
         \A th \in Threads : pc'[th] \in {"push", "link", "pop"} => pc'[th] = pc[th]
  PROVE  ListInv'
<1>1. Chain'
  BY DEF ListInv, Chain, Live, listVars
<1>2. Held'
  BY DEF ListInv, Held, Live, listVars
<1> QED
  BY <1>1, <1>2 DEF ListInv

\* The live nodes can be counted.
LEMMA SizeOfLive ==
  ASSUME TypeOK
  PROVE  /\ IsFiniteSet(Live) /\ Live \subseteq Nodes
         /\ Size \in Nat \ {0}
<1>1. Live \subseteq Nodes /\ tail \in Live
  BY DEF Live, TypeOK
<1>2. IsFiniteSet(Live)
  BY <1>1, NodesAssumption, FS_Subset
<1>3. Cardinality(Live) \in Nat /\ Cardinality(Live) # 0
  BY <1>1, <1>2, FS_CardinalityType, FS_EmptySet
<1> QED
  BY <1>1, <1>2, <1>3 DEF Size

\* What push() does to the list: a fresh empty node after the one it has filled.
LEMMA LinkEffect ==
  ASSUME ListInv, NEW th \in Threads, Link(th)
  PROVE  /\ FreshNode \in Nodes \ Live /\ tail' = FreshNode
         /\ next' = [next EXCEPT ![tail] = FreshNode]
         /\ UNCHANGED <<head, val>> /\ pc[th] = "link" /\ tailMutex = th
         /\ Live' = Live \cup {FreshNode} /\ Size' = Size + 1
<1> DEFINE f == FreshNode
<1>0. TypeOK
  BY DEF ListInv
<1>1. f \in Nodes \ Live
  BY DEF Link, FreshNode
<1>2. /\ tail' = f /\ next' = [next EXCEPT ![tail] = f]
      /\ UNCHANGED <<head, val>> /\ pc[th] = "link" /\ tailMutex = th
  BY <1>0 DEF Link, TypeOK
<1> HIDE DEF f
<1>3. Live' = Live \cup {f}
  BY <1>0, <1>1, <1>2, NodesAssumption DEF Live, TypeOK
<1>4. Size' = Size + 1
  BY <1>0, <1>1, <1>3, SizeOfLive, FS_AddElement DEF Size
<1> QED
  BY <1>1, <1>2, <1>3, <1>4 DEF f

\* What a pop does to it: the second node becomes the first.
LEMMA PopEffect ==
  ASSUME ListInv, NEW th \in Threads, PopHead(th)
  PROVE  /\ head # tail /\ head \in Live /\ next[head] \in Live
         /\ head' = next[head] /\ next' = [next EXCEPT ![head] = Null]
         /\ val' = [val EXCEPT ![head] = NoTask] /\ UNCHANGED tail
         /\ Live' = Live \ {head} /\ Size' = Size - 1
<1>0. TypeOK
  BY DEF ListInv
<1>1. /\ head' = next[head] /\ next' = [next EXCEPT ![head] = Null]
      /\ val' = [val EXCEPT ![head] = NoTask] /\ UNCHANGED tail /\ pc[th] = "pop"
  BY DEF PopHead
<1>2. head # tail /\ head \in Live /\ next[head] \in Live
  BY <1>0, <1>1 DEF ListInv, Held, Chain, Live, TypeOK
<1>3. Live' = Live \ {head}
  BY <1>0, <1>1, <1>2 DEF Live, TypeOK
<1>4. Size' = Size - 1
  BY <1>0, <1>2, <1>3, SizeOfLive, FS_RemoveElement DEF Size
<1> QED
  BY <1>1, <1>2, <1>3, <1>4

LEMMA ListStep == ListInv /\ [Next]_vars => ListInv'
<1> SUFFICES ASSUME ListInv, [Next]_vars PROVE ListInv'
  OBVIOUS
<1>1. TypeOK /\ TypeOK'
  BY LocksStep DEF ListInv
<1> USE OwnerIsAThread DEF Go
<1>2. CASE Start \/ EndStart \/ Stop \/ NotifyWorkers
  BY <1>1, <1>2, ListAlone DEF Start, EndStart, Stop, NotifyWorkers, NotifyAll, TypeOK
<1>3. ASSUME NEW w \in Threads, Spawn(w) \/ Check(w) \/ Wakeup(w)
      PROVE  ListInv'
  BY <1>1, <1>3, ListAlone DEF Spawn, Check, Wakeup, Spurious, TypeOK
<1>4. ASSUME NEW th \in Threads, TryPop(th) \/ LockHead(th) \/ FoundEmpty(th) \/ Sleep(th)
      PROVE  ListInv'
  BY <1>1, <1>4, ListAlone DEF TryPop, LockHead, FoundEmpty, Sleep, TypeOK
<1>5. ASSUME NEW th \in Threads, Found(th)
      PROVE  ListInv'
  <2>1. UNCHANGED <<listVars, tailMutex, item>> /\ head # tail
    BY <1>5 DEF Found, IsEmpty
  <2>2. Chain'
    BY <2>1 DEF ListInv, Chain, Live, listVars
  <2>3. Held'
    BY <1>1, <1>5, <2>1 DEF ListInv, Held, Live, listVars, Found, TypeOK
  <2> QED
    BY <1>1, <2>2, <2>3 DEF ListInv
\* A thread at the end of a task or of a push drops its item.
<1>6. ASSUME NEW th \in Threads, RunTask(th) \/ EndTryPop(th) \/ NotifyOne(th)
      PROVE  ListInv'
  <2>1. /\ UNCHANGED <<listVars, tailMutex>> /\ tailMutex # th
        /\ item' = [item EXCEPT ![th] = NoTask]
        /\ pc'[th] \notin {"push", "link", "pop"}
        /\ \A t \in Threads : pc'[t] \in {"push", "link", "pop"} => pc'[t] = pc[t]
    BY <1>1, <1>6 DEF RunTask, EndTryPop, NotifyOne, Asleep, TypeOK, Threads
  <2>2. Chain'
    BY <2>1 DEF ListInv, Chain, Live, listVars
  <2>3. Held'
    BY <1>1, <2>1 DEF ListInv, Held, Live, listVars, TypeOK
  <2> QED
    BY <1>1, <2>2, <2>3 DEF ListInv
<1>7. ASSUME NEW th \in Threads, AddTask(th)
      PROVE  ListInv'
  <2>1. (CHOOSE t \in FreshTasks : TRUE) # NoTask
    BY <1>7, TasksAssumption DEF AddTask, FreshTasks
  <2>2. UNCHANGED <<listVars, tailMutex>> /\ tailMutex # th
    BY <1>1, <1>7 DEF AddTask, TypeOK
  <2>3. Chain'
    BY <2>2 DEF ListInv, Chain, Live, listVars
  <2>4. Held'
    BY <1>1, <1>7, <2>1, <2>2 DEF ListInv, Held, Live, listVars, AddTask, TypeOK
  <2> QED
    BY <1>1, <2>3, <2>4 DEF ListInv
<1>8. ASSUME NEW th \in Threads, StoreValue(th)
      PROVE  ListInv'
  <2>1. Chain'
    BY <1>1, <1>8 DEF ListInv, Chain, Live, StoreValue, TypeOK
  <2>2. Held'
    BY <1>1, <1>8 DEF ListInv, Held, Live, StoreValue, TypeOK
  <2> QED
    BY <1>1, <2>1, <2>2 DEF ListInv
<1>9. ASSUME NEW th \in Threads, Link(th)
      PROVE  ListInv'
  <2> DEFINE f == FreshNode
  <2>1. /\ f \in Nodes \ Live /\ tail' = f /\ next' = [next EXCEPT ![tail] = f]
        /\ UNCHANGED <<head, val>> /\ tailMutex = th /\ Live' = Live \cup {f}
    BY <1>9, LinkEffect
  <2>2. /\ UNCHANGED item /\ tailMutex' = Unlocked
        /\ pc' = [pc EXCEPT ![th] = "notify"] /\ pc[th] = "link"
    BY <1>9 DEF Link
  <2> HIDE DEF f
  <2>3. f # tail /\ next[f] = Null /\ f # Null /\ val[f] = NoTask /\ val[tail] # NoTask
    BY <1>1, <2>1, <2>2, NodesAssumption DEF ListInv, Held, Live, TypeOK
  <2>4. Chain'
    BY <1>1, <2>1, <2>3 DEF ListInv, Chain, TypeOK
  <2>5. Held'
    BY <1>1, <2>1, <2>2, <2>3 DEF ListInv, Held, Chain, TypeOK
  <2> QED
    BY <1>1, <2>4, <2>5 DEF ListInv
<1>10. ASSUME NEW th \in Threads, PopHead(th)
       PROVE  ListInv'
  <2>1. /\ head # tail /\ head \in Live /\ next[head] \in Live
        /\ head' = next[head] /\ next' = [next EXCEPT ![head] = Null]
        /\ val' = [val EXCEPT ![head] = NoTask]
        /\ UNCHANGED tail /\ Live' = Live \ {head}
    BY <1>10, PopEffect
  <2>2. /\ item' = [item EXCEPT ![th] = val[head]] /\ UNCHANGED tailMutex
        /\ pc' = [pc EXCEPT ![th] = "got"] /\ pc[th] = "pop"
    BY <1>10 DEF PopHead
  <2>3. tailMutex # th /\ \A t \in Threads : t # th => pc'[t] = pc[t] /\ pc[t] # "pop"
    BY <1>1, <2>2 DEF TypeOK, HoldsHead
  <2>4. Chain'
    <3>1. next[head] # Null
      BY <1>1, <2>1 DEF Live, TypeOK
    <3> QED
      BY <1>1, <2>1, <3>1 DEF ListInv, Chain, TypeOK
  <2>5. Held'
    BY <1>1, <2>1, <2>2, <2>3 DEF ListInv, Held, TypeOK
  <2> QED
    BY <1>1, <2>4, <2>5 DEF ListInv
<1>11. CASE UNCHANGED vars
  BY <1>1, <1>11, ListAlone DEF vars, queueVars
<1> QED
  BY <1>2, <1>3, <1>4, <1>5, <1>6, <1>7, <1>8, <1>9, <1>10, <1>11
  DEF Next, WorkerStep, PollerStep, Push, Pop, PushStep, PopStep, Workers, Threads

\* push() under tailMutex_ and waitAndPop() and tryPop() under headMutex_ never
\* touch the same node at once: the one that is popped is complete and not the
\* last, the last one is empty but for the thread that fills it.
THEOREM NodesStayApart == Spec => []NodesApart
<1>1. ListInv => NodesApart
  BY DEF ListInv, Chain, Held, Live, NodesApart, TypeOK
<1> QED
  BY ListInit, ListStep, <1>1, PTL DEF Spec

\* The mutexes exclude each other's holders, and types.
THEOREM MutexesExclude == Spec => []TypeOK
<1>1. ListInv => TypeOK
  BY DEF ListInv
<1> QED
  BY ListInit, ListStep, <1>1, PTL DEF Spec

(***************************************************************************)
(* No task is stranded.  While one is queued, either a push is about to    *)
(* notify, or some worker is on its way to the queue, or at a task after   *)
(* which it will come back: a worker goes to sleep only on an empty queue. *)
(***************************************************************************)
Attended ==
  \/ IsEmpty
  \/ missed
  \/ \E p \in Pushers : pc[p] = "notify"
  \/ \E w \in Workers : pc[w] \notin {"asleep", "window"}

LEMMA AttendedStep ==
  ASSUME Workers # {}, ListInv, Attended, [Next]_vars
  PROVE  Attended'
<1>1. TypeOK /\ TypeOK'
  BY ListStep DEF ListInv
<1> USE OwnerIsAThread DEF Go
\* A step that leaves the list, `missed' and the other threads alone, of a
\* thread that neither leaves "notify" nor goes to sleep.
<1>2. ASSUME NEW th \in Threads, NEW place, place \notin {"asleep", "window"},
             pc[th] # "notify", Go(th, place), UNCHANGED <<head, tail, missed>>
      PROVE  Attended'
  BY <1>1, <1>2 DEF Attended, IsEmpty, TypeOK, Threads, Workers
<1>3. CASE Start \/ EndStart \/ Stop \/ NotifyWorkers
  BY <1>2, <1>3 DEF Start, EndStart, Stop, NotifyWorkers, NotifyAll, listVars
<1>4. ASSUME NEW th \in Threads,
             \/ Spawn(th) \/ Check(th) \/ RunTask(th) \/ Wakeup(th)
             \/ AddTask(th) \/ TryPop(th) \/ EndTryPop(th)
             \/ StoreValue(th) \/ LockHead(th) \/ Found(th)
      PROVE  Attended'
  BY <1>1, <1>2, <1>4
  DEF Spawn, Check, RunTask, Wakeup, Spurious, AddTask, TryPop, EndTryPop,
      StoreValue, LockHead, Found, listVars
<1>5. ASSUME NEW th \in Pushers, Link(th) PROVE Attended'
  BY <1>1, <1>5 DEF Link, Attended, TypeOK, Threads
<1>6. ASSUME NEW th \in Pushers, NotifyOne(th) PROVE Attended'
  <2>1. CASE Asleep = {} /\ InWindow # {}
    BY <1>6, <2>1 DEF NotifyOne, Attended
  <2>2. CASE Asleep = {} /\ InWindow = {}
    <3>1. PICK w \in Workers : pc[w] \notin {"asleep", "window"}
      BY <2>2 DEF Asleep, InWindow, Workers
    <3>2. pc'[w] = pc[w]
      BY <1>1, <1>6, <2>2, <3>1, RolesAssumption DEF NotifyOne, TypeOK, Threads, Workers
    <3> QED
      BY <3>1, <3>2 DEF Attended
  <2>3. CASE Asleep # {}
    <3>1. PICK w \in Asleep : pc' = [pc EXCEPT ![th] = "idle", ![w] = "lock"]
      BY <1>6, <2>3 DEF NotifyOne
    <3>2. w \in Workers /\ pc'[w] = "lock"
      BY <1>1, <3>1 DEF Asleep, Workers, Threads, TypeOK
    <3> QED
      BY <3>2 DEF Attended
  <2> QED
    BY <2>1, <2>2, <2>3
<1>7. ASSUME NEW th \in Threads, FoundEmpty(th) PROVE Attended'
  BY <1>7 DEF FoundEmpty, Attended, IsEmpty, listVars
<1>8. ASSUME NEW th \in Waiters, Sleep(th) PROVE Attended'
  BY <1>1, <1>8 DEF Sleep, Attended, IsEmpty, listVars, TypeOK, Threads, Workers
<1>9. ASSUME NEW th \in Pollers, Sleep(th) PROVE Attended'
  BY <1>1, <1>9, RolesAssumption
  DEF Sleep, Attended, IsEmpty, listVars, TypeOK, Threads, Workers
<1>10. ASSUME NEW th \in Threads, PopHead(th) PROVE Attended'
  <2>1. /\ UNCHANGED missed /\ pc' = [pc EXCEPT ![th] = "got"]
        /\ pc[th] = "pop" /\ head # tail
    BY <1>10 DEF PopHead, ListInv, Held
  <2> QED
    BY <1>1, <2>1 DEF Attended, IsEmpty, TypeOK, Threads, Workers
<1>11. CASE UNCHANGED vars
  BY <1>11 DEF vars, queueVars, listVars, Attended, IsEmpty
<1> QED
  BY <1>3, <1>4, <1>5, <1>6, <1>7, <1>8, <1>9, <1>10, <1>11
  DEF Next, WorkerStep, PollerStep, Push, Pop, PushStep, PopStep, Workers, Threads

\* In a pool that has workers, a queued task waits for sleeping workers only
\* after a notification that fell between a worker's test and its sleep.
THEOREM NobodyStranded ==
  ASSUME Workers # {} PROVE Spec => []StrandedOnlyInWindow
<1>1. Init => Attended
  BY DEF Init, InitQueue, Attended, IsEmpty
<1>2. Attended => StrandedOnlyInWindow
  BY DEF Attended, StrandedOnlyInWindow, Asleep, Pushing
<1>3. ListInv /\ Attended /\ [Next]_vars => Attended'
  BY AttendedStep
<1> QED
  BY ListInit, ListStep, <1>1, <1>2, <1>3, PTL DEF Spec

-----------------------------------------------------------------------------
(***************************************************************************)
(* The list is a queue.                                                    *)
(***************************************************************************)

(***************************************************************************)
(* A task that is about to be pushed is new: AddTask took one that was     *)
(* nowhere else, and StoreValue puts it into the last node alone.          *)
(***************************************************************************)
AboutToPush == {th \in Threads : pc[th] \in {"push", "link"}}

ItemsDistinct ==
  /\ taken \in Seq(Tasks)
  /\ \A th \in AboutToPush :
       /\ \A u \in AboutToPush : item[u] = item[th] => u = th
       /\ \A n \in Nodes : val[n] = item[th] => n = tail /\ pc[th] = "link"
       /\ \A i \in DOMAIN taken : taken[i] # item[th]

\* A step that changes neither the list nor what was taken, and makes no thread
\* begin a push or store its task.
LEMMA ItemsAlone ==
  ASSUME ItemsDistinct, UNCHANGED <<listVars, taken>>,
         \A th \in AboutToPush' : /\ th \in AboutToPush /\ pc'[th] = pc[th]
                                  /\ item'[th] = item[th]
  PROVE  ItemsDistinct'
BY DEF ItemsDistinct, listVars

LEMMA ItemsStep == ListInv /\ ItemsDistinct /\ [Next]_vars => ItemsDistinct'
<1> SUFFICES ASSUME ListInv, ItemsDistinct, [Next]_vars PROVE ItemsDistinct'
  OBVIOUS
<1>1. TypeOK /\ TypeOK'
  BY ListStep DEF ListInv
<1> USE OwnerIsAThread DEF Go
<1>2. CASE Start \/ EndStart \/ Stop \/ NotifyWorkers
  BY <1>1, <1>2, ItemsAlone
  DEF Start, EndStart, Stop, NotifyWorkers, NotifyAll, AboutToPush, TypeOK
<1>3. ASSUME NEW th \in Threads,
             \/ Spawn(th) \/ Check(th) \/ Wakeup(th) \/ TryPop(th)
             \/ LockHead(th) \/ Found(th) \/ FoundEmpty(th) \/ Sleep(th)
      PROVE  ItemsDistinct'
  BY <1>1, <1>3, ItemsAlone
  DEF Spawn, Check, Wakeup, Spurious, TryPop, LockHead, Found, FoundEmpty, Sleep,
      AboutToPush, TypeOK
<1>4. ASSUME NEW th \in Threads, RunTask(th) \/ EndTryPop(th) \/ NotifyOne(th)
      PROVE  ItemsDistinct'
  BY <1>1, <1>4, ItemsAlone
  DEF RunTask, EndTryPop, NotifyOne, Asleep, AboutToPush, TypeOK
<1>5. ASSUME NEW th \in Threads, AddTask(th) PROVE ItemsDistinct'
  <2> DEFINE t == CHOOSE t \in FreshTasks : TRUE
  <2>1. t \in FreshTasks
    BY <1>5 DEF AddTask
  <2>2. /\ item' = [item EXCEPT ![th] = t] /\ pc' = [pc EXCEPT ![th] = "push"]
        /\ UNCHANGED <<listVars, taken>>
    BY <1>5 DEF AddTask
  <2> HIDE DEF t
  <2>3. /\ \A n \in Nodes : val[n] # t
        /\ \A u \in Threads : item[u] # t
        /\ \A i \in DOMAIN taken : taken[i] # t
    BY <2>1 DEF FreshTasks
  <2>4. AboutToPush' \subseteq AboutToPush \cup {th}
    BY <1>1, <2>2 DEF AboutToPush, TypeOK
  <2>5. /\ pc'[th] = "push" /\ item'[th] = t
        /\ \A u \in Threads \ {th} : pc'[u] = pc[u] /\ item'[u] = item[u]
    BY <1>1, <2>2 DEF TypeOK
  <2>6. AboutToPush \subseteq Threads
    BY DEF AboutToPush
  <2> QED
    BY <2>2, <2>3, <2>4, <2>5, <2>6 DEF ItemsDistinct, listVars
<1>6. ASSUME NEW th \in Threads, StoreValue(th) PROVE ItemsDistinct'
  <2>1. /\ pc[th] = "push" /\ pc' = [pc EXCEPT ![th] = "link"]
        /\ val' = [val EXCEPT ![tail] = item[th]]
        /\ UNCHANGED <<tail, item, taken>>
    BY <1>6 DEF StoreValue
  <2>2. th \in AboutToPush /\ AboutToPush' = AboutToPush /\ AboutToPush \subseteq Threads
    BY <1>1, <2>1 DEF AboutToPush, TypeOK
  <2>3. /\ pc'[th] = "link"
        /\ \A u \in Threads \ {th} : pc'[u] = pc[u]
        /\ \A n \in Nodes : val'[n] = IF n = tail THEN item[th] ELSE val[n]
    BY <1>1, <2>1 DEF TypeOK
  <2>4. ASSUME NEW u \in AboutToPush, NEW n \in Nodes, val'[n] = item[u]
        PROVE  n = tail /\ pc'[u] = "link"
    BY <2>2, <2>3, <2>4 DEF ItemsDistinct
  <2> QED
    BY <2>1, <2>2, <2>4 DEF ItemsDistinct
<1>7. ASSUME NEW th \in Threads, Link(th) PROVE ItemsDistinct'
  <2>1. /\ pc[th] = "link" /\ pc' = [pc EXCEPT ![th] = "notify"]
        /\ UNCHANGED <<val, item, taken>> /\ tailMutex = th
    BY <1>1, <1>7 DEF Link, TypeOK
  <2>2. /\ AboutToPush' = AboutToPush \ {th} /\ AboutToPush \subseteq Threads
        /\ \A u \in AboutToPush' : pc'[u] = pc[u] /\ pc[u] # "link"
    BY <1>1, <2>1 DEF AboutToPush, TypeOK
  <2> QED
    BY <2>1, <2>2 DEF ItemsDistinct
<1>8. ASSUME NEW th \in Threads, PopHead(th) PROVE ItemsDistinct'
  <2>1. /\ pc[th] = "pop" /\ pc' = [pc EXCEPT ![th] = "got"]
        /\ item' = [item EXCEPT ![th] = val[head]]
        /\ val' = [val EXCEPT ![head] = NoTask]
        /\ taken' = Append(taken, val[head]) /\ UNCHANGED tail
    BY <1>8 DEF PopHead
  <2>2. head # tail /\ head \in Nodes /\ val[head] \in Tasks
    BY <1>1, <2>1 DEF ListInv, Held, Chain, Live, TypeOK
  <2>3. /\ AboutToPush' = AboutToPush /\ AboutToPush \subseteq Threads
        /\ \A u \in AboutToPush : /\ pc'[u] = pc[u] /\ item'[u] = item[u]
                                   /\ item[u] # NoTask /\ item[u] # val[head]
    BY <1>1, <2>1, <2>2 DEF AboutToPush, ItemsDistinct, ListInv, Held, TypeOK
  <2>4. \A n \in Nodes : val'[n] = IF n = head THEN NoTask ELSE val[n]
    BY <1>1, <2>1 DEF TypeOK
  <2>5. /\ taken' \in Seq(Tasks)
        /\ \A i \in DOMAIN taken' :
             taken'[i] = val[head] \/ (i \in DOMAIN taken /\ taken'[i] = taken[i])
    BY <2>1, <2>2 DEF ItemsDistinct
  <2> QED
    BY <2>1, <2>3, <2>4, <2>5 DEF ItemsDistinct
<1>9. CASE UNCHANGED vars
  BY <1>9, ItemsAlone DEF vars, queueVars, AboutToPush
<1> QED
  BY <1>2, <1>3, <1>4, <1>5, <1>6, <1>7, <1>8, <1>9
  DEF Next, WorkerStep, PollerStep, Push, Pop, PushStep, PopStep, Workers, Threads

\* A set of numbers that is not empty has a least one.
LEMMA LeastOf ==
  ASSUME NEW T \in SUBSET Nat, T # {}
  PROVE  \E x \in T : \A y \in T : x <= y
<1> DEFINE R == OpToRel(<, Nat)
<1>1. IsWellFoundedOn(R, Nat)
  BY NatLessThanWellFounded
<1>2. \A x, y \in Nat : x < y => <<x, y>> \in R
  BY DEF OpToRel
<1> HIDE DEF R
<1>3. PICK x \in T : \A y \in T : ~(<<y, x>> \in R)
  BY <1>1, WFMin
<1>4. ASSUME NEW y \in T PROVE x <= y
  <2>1. x \in Nat /\ y \in Nat /\ ~(y < x)
    BY <1>2, <1>3
  <2> QED
    BY <2>1
<1> QED
  BY <1>4

(***************************************************************************)
(* The order of the nodes.  A list of k nodes from head to tail is unique, *)
(* so that what CHOOSE picks after a step is what the step makes of what   *)
(* it picked before.                                                       *)
(***************************************************************************)
LEMMA OneOrder ==
  ASSUME NEW k \in Nat, NEW S, NEW c \in [1..k -> S], NEW d \in [1..k -> S],
         c[1] = d[1],
         \A i \in 1..k - 1 : c[i] = d[i] => c[i + 1] = d[i + 1]
  PROVE  c = d
<1> DEFINE Differ == {i \in 1..k : c[i] # d[i]}
<1>1. CASE Differ = {}
  <2>1. \A i \in 1..k : c[i] = d[i]
    BY <1>1
  <2> QED
    BY <2>1
<1>2. CASE Differ # {}
  <2>1. Differ \in SUBSET Nat
    OBVIOUS
  <2>2. PICK i \in Differ : \A j \in Differ : i <= j
    BY <1>2, <2>1, LeastOf
  <2>3. i \in 2..k /\ i - 1 \in 1..k - 1 /\ i - 1 \notin Differ
    BY <2>2
  <2>4. c[i - 1] = d[i - 1] => c[(i - 1) + 1] = d[(i - 1) + 1]
    BY <2>3
  <2> QED
    BY <2>2, <2>3, <2>4
<1> QED
  BY <1>1, <1>2

\* The order after a step is any that fits the list after the step.
LEMMA NextOrderIs ==
  ASSUME Size' \in Nat, NEW c, c \in [1..Size' -> Live'],
         c[1] = head', c[Size'] = tail',
         \A i \in 1..Size' - 1 : next'[c[i]] = c[i + 1]
  PROVE  Order' = c
<1> DEFINE d == Order'
           k == Size'
<1>1. /\ d \in [1..k -> Live'] /\ d[1] = head'
      /\ \A i \in 1..k - 1 : next'[d[i]] = d[i + 1]
  BY DEF Order, IsOrder
<1> HIDE DEF d
<1>2. /\ k \in Nat /\ c \in [1..k -> Live'] /\ d \in [1..k -> Live']
      /\ c[1] = d[1] /\ \A i \in 1..k - 1 : c[i] = d[i] => c[i + 1] = d[i + 1]
  BY <1>1
<1> HIDE DEF k
<1>3. c = d
  BY <1>2, OneOrder
<1> QED
  BY <1>3 DEF d

\* The invariant: the nodes that are linked do form one list.
Ordered == \E c \in [1..Size -> Live] : IsOrder(c)

LEMMA OrderGiven ==
  ASSUME Ordered PROVE Order \in [1..Size -> Live] /\ IsOrder(Order)
BY DEF Ordered, Order

\* The order after a push, and after a pop.
LEMMA OrderAfterLink ==
  ASSUME ListInv, Ordered, NEW th \in Threads, Link(th)
  PROVE  Ordered' /\ Order' = Append(Order, FreshNode)
<1> DEFINE c == Order
           f == FreshNode
           d == Append(c, f)
<1>0. TypeOK /\ next[tail] = Null
  BY DEF ListInv, Chain
<1>1. /\ c \in [1..Size -> Live] /\ c[1] = head /\ c[Size] = tail
      /\ \A i \in 1..Size - 1 : next[c[i]] = c[i + 1]
  BY OrderGiven DEF IsOrder
<1>2. Size \in Nat \ {0} /\ Live \subseteq Nodes
  BY <1>0, SizeOfLive
<1>3. /\ f \in Nodes \ Live /\ tail' = f /\ head' = head
      /\ next' = [next EXCEPT ![tail] = f]
      /\ Live' = Live \cup {f} /\ Size' = Size + 1
  BY LinkEffect
<1> HIDE DEF c, f
<1>4. /\ Len(c) = Size /\ c \in Seq(Live \cup {f}) /\ f \in Live \cup {f}
  BY <1>1, <1>2
<1>5. /\ d \in [1..Size + 1 -> Live \cup {f}]
      /\ d[1] = head /\ d[Size + 1] = f
      /\ \A i \in 1..Size : d[i] = c[i]
  <2>1. d \in Seq(Live \cup {f}) /\ Len(d) = Size + 1
    BY <1>2, <1>4
  <2>2. d[Size + 1] = f /\ \A i \in 1..Size : d[i] = c[i]
    BY <1>2, <1>4
  <2>3. d[1] = head
    BY <1>1, <1>2, <2>2
  <2> HIDE DEF d
  <2>4. d \in [1..Size + 1 -> Live \cup {f}]
    BY <1>2, <2>1
  <2> QED
    BY <2>2, <2>3, <2>4
<1>6. ASSUME NEW i \in 1..Size PROVE next'[d[i]] = d[i + 1]
  <2>1. CASE i = Size
    BY <1>0, <1>1, <1>2, <1>3, <1>5, <2>1 DEF TypeOK
  <2>2. CASE i # Size
    <3>1. i \in 1..Size - 1 /\ i + 1 \in 1..Size
      BY <1>2, <2>2
    <3>2. next[c[i]] = c[i + 1] /\ c[i] \in Nodes /\ c[i + 1] \in Nodes
      BY <1>1, <1>2, <3>1
    <3>3. c[i] # tail
      BY <1>0, <3>2, NodesAssumption
    <3>4. d[i] = c[i] /\ d[i + 1] = c[i + 1]
      BY <1>5, <3>1
    <3> QED
      BY <1>0, <1>3, <3>2, <3>3, <3>4 DEF TypeOK
  <2> QED
    BY <2>1, <2>2
<1>7. /\ Size' \in Nat /\ Size' - 1 = Size /\ d \in [1..Size' -> Live']
      /\ d[1] = head' /\ d[Size'] = tail'
      /\ \A i \in 1..Size' - 1 : next'[d[i]] = d[i + 1]
  BY <1>2, <1>3, <1>5, <1>6
<1> HIDE DEF d
<1>8. Order' = d
  BY <1>7, NextOrderIs
<1>9. Ordered'
  BY <1>7 DEF Ordered, IsOrder
<1> QED
  BY <1>8, <1>9 DEF c, d, f

LEMMA OrderAfterPop ==
  ASSUME ListInv, Ordered, NEW th \in Threads, PopHead(th)
  PROVE  Ordered' /\ Order' = Tail(Order)
<1> DEFINE c == Order
           d == Tail(c)
<1>0. TypeOK /\ (\A n \in Nodes : next[n] # Null => next[n] # head)
  BY DEF ListInv, Chain
<1>1. /\ c \in [1..Size -> Live] /\ c[1] = head /\ c[Size] = tail
      /\ \A i \in 1..Size - 1 : next[c[i]] = c[i + 1]
  BY OrderGiven DEF IsOrder
<1>2. Size \in Nat \ {0} /\ Live \subseteq Nodes
  BY <1>0, SizeOfLive
<1>3. /\ head # tail /\ head' = next[head] /\ tail' = tail
      /\ next' = [next EXCEPT ![head] = Null]
      /\ Live' = Live \ {head} /\ Size' = Size - 1
  BY PopEffect
<1>4. Size \in Nat /\ Size > 1
  BY <1>1, <1>2, <1>3
<1> HIDE DEF c
<1>5. ASSUME NEW i \in 1..Size - 1
      PROVE  c[i + 1] \in Live \ {head} /\ next[c[i]] = c[i + 1]
  <2>1. next[c[i]] = c[i + 1] /\ c[i] \in Nodes /\ c[i + 1] \in Live
    BY <1>1, <1>2, <1>4
  <2>2. c[i + 1] # Null
    BY <1>2, <2>1, NodesAssumption
  <2> QED
    BY <1>0, <2>1, <2>2
<1>6. c \in Seq(Nodes) /\ Len(c) = Size /\ c # <<>>
  BY <1>1, <1>2
<1>7. /\ Len(d) = Size - 1 /\ d \in Seq(Nodes)
      /\ \A i \in 1..Size - 1 : d[i] = c[i + 1]
  BY <1>4, <1>6
<1> HIDE DEF d
<1>8. d \in [1..Size - 1 -> Live \ {head}]
  BY <1>4, <1>5, <1>7
<1>9. d[1] = head' /\ d[Size - 1] = tail
  <2>1. 1 \in 1..Size - 1 /\ Size - 1 \in 1..Size - 1
    BY <1>4
  <2>2. d[1] = c[2] /\ next[c[1]] = c[2] /\ d[Size - 1] = c[Size]
    BY <1>1, <1>4, <1>7, <2>1
  <2> QED
    BY <1>1, <1>3, <2>2
<1>10. ASSUME NEW i \in 1..Size - 2 PROVE next'[d[i]] = d[i + 1]
  <2>1. i \in 1..Size - 1 /\ i + 1 \in 1..Size - 1
    BY <1>4
  <2>2. d[i] = c[i + 1] /\ d[i + 1] = c[i + 2] /\ next[c[i + 1]] = c[i + 2]
    BY <1>4, <1>5, <1>7, <2>1
  <2>3. d[i] # head /\ d[i] \in Nodes
    BY <1>2, <1>8, <2>1
  <2> QED
    BY <1>0, <1>3, <2>2, <2>3 DEF TypeOK
<1>11. /\ Size' \in Nat /\ Size' - 1 = Size - 2 /\ d \in [1..Size' -> Live']
       /\ d[1] = head' /\ d[Size'] = tail'
       /\ \A i \in 1..Size' - 1 : next'[d[i]] = d[i + 1]
  BY <1>3, <1>4, <1>8, <1>9, <1>10
<1>12. Order' = d
  BY <1>11, NextOrderIs
<1>13. Ordered'
  BY <1>11 DEF Ordered, IsOrder
<1> QED
  BY <1>12, <1>13 DEF c, d

LEMMA OrderAlone ==
  ASSUME UNCHANGED <<head, tail, next>> PROVE Order' = Order /\ (Ordered => Ordered')
<1>1. Live' = Live
  BY DEF Live
<1>2. Size' = Size
  BY <1>1 DEF Size
<1> QED
  BY <1>1, <1>2 DEF Order, Ordered, IsOrder

LEMMA OrderedInit == Init => Ordered
<1> SUFFICES ASSUME Init PROVE Ordered
  OBVIOUS
<1>1. Live = {tail} /\ head = tail
  BY DEF Init, InitQueue, Live
<1>2. Size = 1
  BY <1>1, FS_Singleton DEF Size
<1>3. IsOrder([i \in 1..1 |-> tail])
  BY <1>1, <1>2 DEF IsOrder
<1> QED
  BY <1>1, <1>2, <1>3 DEF Ordered

FifoInv == ListInv /\ ItemsDistinct /\ Ordered

(***************************************************************************)
(* The tasks in the list.                                                  *)
(***************************************************************************)
LEMMA ContentType ==
  ASSUME FifoInv
  PROVE  /\ Content \in Seq(Tasks) /\ Len(Content) = Size - 1
         /\ \A i \in 1..Size - 1 : /\ Order[i] \in Live \ {tail}
                                   /\ Content[i] = val[Order[i]]
<1>0. TypeOK /\ next[tail] = Null
  BY DEF FifoInv, ListInv, Chain
<1>1. Order \in [1..Size -> Live] /\ IsOrder(Order)
  BY OrderGiven DEF FifoInv
<1>2. Size \in Nat \ {0} /\ Live \subseteq Nodes
  BY <1>0, SizeOfLive
<1>3. ASSUME NEW i \in 1..Size - 1 PROVE Order[i] \in Live \ {tail}
  <2>1. i \in 1..Size /\ i + 1 \in 1..Size
    BY <1>2
  <2>2. next[Order[i]] = Order[i + 1] /\ Order[i] \in Live /\ Order[i + 1] \in Nodes
    BY <1>1, <1>2, <2>1 DEF IsOrder
  <2> QED
    BY <1>0, <2>2, NodesAssumption
<1>4. \A n \in Live \ {tail} : val[n] \in Tasks
  BY <1>0 DEF FifoInv, ListInv, Chain, Live, TypeOK
<1>5. Content = [i \in 1..Size - 1 |-> val[Order[i]]] /\ Size - 1 \in Nat
  BY <1>2 DEF Content
<1> HIDE DEF Content
<1> QED
  BY <1>3, <1>4, <1>5

\* A step that changes neither the links nor a value between head and tail.
LEMMA ContentAlone ==
  ASSUME FifoInv, UNCHANGED <<head, tail, next>>,
         \A n \in Nodes \ {tail} : val'[n] = val[n]
  PROVE  Content' = Content
<1>1. Order' = Order
  BY OrderAlone
<1>2. Live' = Live
  BY DEF Live
<1>3. Size' = Size
  BY <1>2 DEF Size
<1>4. \A i \in 1..Size - 1 : Order[i] \in Nodes \ {tail}
  BY ContentType, SizeOfLive DEF FifoInv, ListInv
<1> QED
  BY <1>1, <1>3, <1>4 DEF Content

\* push() appends the task it was given, once the new node is linked.
LEMMA LinkSubmits ==
  ASSUME FifoInv, NEW th \in Threads, Link(th)
  PROVE  /\ Content' = Append(Content, item[th]) /\ item[th] \in Tasks
         /\ \A i \in DOMAIN Content : Content[i] # item[th]
         /\ \A i \in DOMAIN taken : taken[i] # item[th]
<1> USE DEF FifoInv, ListInv
<1>0. TypeOK /\ Size \in Nat \ {0}
  BY SizeOfLive
<1>1. /\ Order' = Append(Order, FreshNode) /\ Size' = Size + 1
      /\ val' = val /\ pc[th] = "link" /\ tailMutex = th
  BY OrderAfterLink, LinkEffect
<1>2. Order \in [1..Size -> Live] /\ Order[Size] = tail
  BY OrderGiven DEF IsOrder
<1>3. val[tail] = item[th] /\ item[th] \in Tasks
  BY <1>0, <1>1, ThreadsAssumption DEF Held, TypeOK
<1>4. /\ Content \in Seq(Tasks) /\ Len(Content) = Size - 1
      /\ \A i \in 1..Size - 1 : /\ Order[i] \in Nodes \ {tail}
                                /\ Content[i] = val[Order[i]]
  BY <1>0, ContentType, SizeOfLive
<1>5. Content' = [i \in 1..Size' - 1 |-> val'[Order'[i]]]
  BY DEF Content
<1>6. Size' - 1 = Size /\ \A i \in 1..Size : Order'[i] = Order[i]
  BY <1>0, <1>1, <1>2
<1>7. Content' = [i \in 1..Size |-> val[Order[i]]]
  BY <1>1, <1>5, <1>6
<1>8. Content' = Append(Content, item[th])
  BY <1>0, <1>2, <1>3, <1>4, <1>7
<1>9. th \in AboutToPush
  BY <1>1 DEF AboutToPush
<1> QED
  BY <1>3, <1>4, <1>8, <1>9 DEF ItemsDistinct

\* A pop takes the oldest one.
LEMMA PopExecutes ==
  ASSUME FifoInv, NEW th \in Threads, PopHead(th)
  PROVE  /\ Content # <<>> /\ Content' = Tail(Content)
         /\ taken' = Append(taken, Head(Content))
<1> USE DEF FifoInv, ListInv
<1>0. TypeOK /\ Size \in Nat \ {0} /\ Live \subseteq Nodes
  BY SizeOfLive
<1>1. /\ Order' = Tail(Order) /\ Size' = Size - 1 /\ head # tail
      /\ val' = [val EXCEPT ![head] = NoTask] /\ taken' = Append(taken, val[head])
  BY OrderAfterPop, PopEffect DEF PopHead
<1>2. /\ Order \in [1..Size -> Live] /\ Order[1] = head /\ Order[Size] = tail
      /\ \A i \in 1..Size - 1 : next[Order[i]] = Order[i + 1]
  BY OrderGiven DEF IsOrder
<1>3. Size > 1
  BY <1>0, <1>1, <1>2
<1>4. /\ Content \in Seq(Tasks) /\ Len(Content) = Size - 1
      /\ \A i \in 1..Size - 1 : Content[i] = val[Order[i]]
  BY ContentType
<1>5. Content # <<>> /\ Head(Content) = val[head]
  BY <1>0, <1>2, <1>3, <1>4
<1>6. \A i \in 1..Size - 2 : Order'[i] = Order[i + 1] /\ Order[i + 1] # head
  <2>1. \A n \in Nodes : next[n] # Null => next[n] # head
    BY DEF Chain
  <2> SUFFICES ASSUME NEW i \in 1..Size - 2
               PROVE  Order'[i] = Order[i + 1] /\ Order[i + 1] # head
    OBVIOUS
  <2>2. Order[i + 1] \in Nodes /\ Order[i] \in Nodes /\ next[Order[i]] = Order[i + 1]
    BY <1>0, <1>2
  <2>3. Order \in Seq(Live) /\ Len(Order) = Size
    BY <1>0, <1>2
  <2> QED
    BY <1>0, <1>1, <2>1, <2>2, <2>3, NodesAssumption
<1>7. Content' = [i \in 1..Size' - 1 |-> val'[Order'[i]]] /\ Size' - 1 = Size - 2
  BY <1>0, <1>1 DEF Content
<1>8. ASSUME NEW i \in 1..Size - 2 PROVE val'[Order'[i]] = Content[i + 1]
  <2>1. i + 1 \in 1..Size - 1 /\ Order[i + 1] \in Nodes
    BY <1>0, <1>2
  <2> QED
    BY <1>0, <1>1, <1>4, <1>6, <2>1 DEF TypeOK
<1>9. Content' = [i \in 1..Size - 2 |-> Content[i + 1]]
  BY <1>7, <1>8
<1>10. Content' = Tail(Content)
  <2>1. Content' \in Seq(Tasks) /\ Len(Content') = Size - 2
    BY <1>0, <1>3, <1>4, <1>9
  <2>2. /\ Tail(Content) \in Seq(Tasks) /\ Len(Tail(Content)) = Size - 2
        /\ \A i \in 1..Size - 2 : Tail(Content)[i] = Content[i + 1]
    BY <1>0, <1>3, <1>4, <1>5, HeadTailProperties
  <2> QED
    BY <1>9, <2>1, <2>2, SeqEqual
<1> QED
  BY <1>1, <1>5, <1>10

\* Every step of the threads is a step of the abstract queue or leaves it alone.
LEMMA StepOfQueue == FifoInv /\ [Next]_vars => [fifo!Next]_(fifo!vars)
<1> SUFFICES ASSUME FifoInv, [Next]_vars PROVE [fifo!Next]_(fifo!vars)
  OBVIOUS
<1> USE DEF fifo!vars
\* An action that works on neither the links nor what was taken.
<1>1. ASSUME UNCHANGED <<listVars, taken>> PROVE UNCHANGED fifo!vars
  BY <1>1, ContentAlone DEF listVars
<1>2. ASSUME NEW th \in Threads, StoreValue(th) PROVE UNCHANGED fifo!vars
  <2>1. UNCHANGED <<head, tail, next, taken>> /\ \A n \in Nodes \ {tail} : val'[n] = val[n]
    BY <1>2 DEF StoreValue, FifoInv, ListInv, TypeOK
  <2> QED
    BY <2>1, ContentAlone
<1>3. ASSUME NEW th \in Threads, Link(th) PROVE fifo!Submit(item[th]) /\ item[th] \in Tasks
  BY <1>3, LinkSubmits DEF Link, fifo!Submit, fifo!Fresh, fifo!ToSet
<1>4. ASSUME NEW th \in Threads, PopHead(th) PROVE fifo!Execute
  BY <1>4, PopExecutes DEF fifo!Execute
<1>5. CASE Start \/ EndStart \/ Stop \/ NotifyWorkers
  BY <1>1, <1>5 DEF Start, EndStart, Stop, NotifyWorkers, NotifyAll
<1>6. ASSUME NEW th \in Threads,
             \/ Spawn(th) \/ Check(th) \/ RunTask(th) \/ Wakeup(th)
             \/ AddTask(th) \/ TryPop(th) \/ EndTryPop(th) \/ NotifyOne(th)
             \/ LockHead(th) \/ Found(th) \/ FoundEmpty(th) \/ Sleep(th)
      PROVE  UNCHANGED fifo!vars
  BY <1>1, <1>6
  DEF Spawn, Check, RunTask, Wakeup, Spurious, AddTask, TryPop, EndTryPop,
      NotifyOne, LockHead, Found, FoundEmpty, Sleep
<1>7. CASE UNCHANGED vars
  BY <1>1, <1>7 DEF vars, queueVars
<1> QED
  BY <1>2, <1>3, <1>4, <1>5, <1>6, <1>7
  DEF fifo!Next, Next, WorkerStep, PollerStep, Push, Pop, PushStep, PopStep,
      Workers, Threads

LEMMA FifoInit == Init => FifoInv /\ fifo!Init
<1> SUFFICES ASSUME Init PROVE FifoInv /\ fifo!Init
  OBVIOUS
<1>1. ListInv /\ Ordered
  BY ListInit, OrderedInit
<1>2. ItemsDistinct /\ taken = <<>>
  BY OwnerIsAThread, RolesAssumption
  DEF Init, InitQueue, ItemsDistinct, AboutToPush, Threads
<1>3. FifoInv
  BY <1>1, <1>2 DEF FifoInv
<1>4. Size = 1
  <2>1. \A n \in Nodes : next[n] = Null
    BY DEF Init, InitQueue
  <2>2. Live = {tail}
    BY <2>1 DEF Live
  <2> QED
    BY <2>2, FS_Singleton DEF Size
<1>5. Content = <<>>
  BY <1>3, <1>4, ContentType
<1> QED
  BY <1>2, <1>3, <1>5 DEF fifo!Init

LEMMA FifoStep == FifoInv /\ [Next]_vars => FifoInv'
<1> SUFFICES ASSUME FifoInv, [Next]_vars PROVE FifoInv'
  OBVIOUS
<1>1. ListInv' /\ ItemsDistinct'
  BY ListStep, ItemsStep DEF FifoInv
<1> SUFFICES Ordered'
  BY <1>1 DEF FifoInv
<1>2. UNCHANGED <<head, tail, next>> => Ordered'
  BY OrderAlone DEF FifoInv
<1>3. ASSUME NEW th \in Threads, Link(th) \/ PopHead(th) PROVE Ordered'
  BY <1>3, OrderAfterLink, OrderAfterPop DEF FifoInv
<1>4. CASE Start \/ EndStart \/ Stop \/ NotifyWorkers
  BY <1>2, <1>4 DEF Start, EndStart, Stop, NotifyWorkers, NotifyAll, listVars
<1>5. ASSUME NEW th \in Threads,
             \/ Spawn(th) \/ Check(th) \/ RunTask(th) \/ Wakeup(th)
             \/ AddTask(th) \/ TryPop(th) \/ EndTryPop(th) \/ NotifyOne(th)
             \/ LockHead(th) \/ Found(th) \/ FoundEmpty(th) \/ Sleep(th)
             \/ StoreValue(th)
      PROVE  Ordered'
  BY <1>2, <1>5
  DEF Spawn, Check, RunTask, Wakeup, Spurious, AddTask, TryPop, EndTryPop,
      NotifyOne, LockHead, Found, FoundEmpty, Sleep, StoreValue, listVars
<1>6. CASE UNCHANGED vars
  BY <1>2, <1>6 DEF vars, queueVars, listVars
<1> QED
  BY <1>3, <1>4, <1>5, <1>6
  DEF Next, WorkerStep, PollerStep, Push, Pop, PushStep, PopStep, Workers, Threads

\* The linked list with its two locks is a queue: each task that is pushed is
\* popped at most once, in the order of the pushes.
THEOREM ListIsAQueue == Spec => QueueIsFifo
BY FifoInit, FifoStep, StepOfQueue, PTL DEF Spec, QueueIsFifo, fifo!SafeSpec
=============================================================================
