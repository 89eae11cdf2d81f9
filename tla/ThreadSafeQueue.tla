-------------------------- MODULE ThreadSafeQueue --------------------------
(***************************************************************************)
(* cannet::ThreadSafeQueue: a linked list that always ends in an empty     *)
(* node.  Pushing threads fill that node under tailMutex_, popping threads *)
(* take the first one under headMutex_, and only the comparison of head    *)
(* and tail needs both.                                                    *)
(***************************************************************************)
EXTENDS Naturals, Sequences, FiniteSets

CONSTANTS Tasks,          \* what is pushed, each at most once
          Nodes,          \* the nodes there can be, live ones at a time
          Waiters,        \* threads that pop with waitAndPop
          Pollers,        \* threads that pop with tryPop
          Pushers,        \* threads that push
          Stoppers,       \* threads that call notify_all
          NoTask, Null, Unlocked

Threads == Waiters \cup Pollers \cup Pushers \cup Stoppers

ASSUME NodesAssumption == Null \notin Nodes /\ Nodes # {} /\ IsFiniteSet(Nodes)
ASSUME TasksAssumption == NoTask \notin Tasks
ASSUME ThreadsAssumption == Unlocked \notin Threads
ASSUME RolesAssumption ==
  /\ Waiters \cap (Pollers \cup Pushers \cup Stoppers) = {}
  /\ Pollers \cap (Pushers \cup Stoppers) = {} /\ Pushers \cap Stoppers = {}

VARIABLES head, tail,           \* head_, tail_
          val, next,            \* val_ and next_ of each node
          headMutex, tailMutex, \* the thread that holds it, or Unlocked
          pc,                   \* where each thread is
          item,                 \* the task a thread pushes or has popped
          taken,                \* all tasks popped so far, in order
          missed                \* a notification came between a waiter's test
                                \* and its sleep, and found nobody else asleep

listVars == <<head, tail, val, next>>
queueVars == <<listVars, headMutex, tailMutex, pc, item, taken, missed>>

(* Pushing: "push": before tailMutex_; "link": the value is stored;        *)
(* "notify": past the unlock.  Popping: "lock": before headMutex_; "test": *)
(* holds it; "window": has found the queue empty and not yet gone to       *)
(* sleep; "asleep"; "pop": has found a task; "got": returned with it.      *)
(* notify_all: "notifyAll": before headMutex_; "inEmpty": inside empty(),  *)
(* which locks headMutex_ once more.                                       *)
QueuePlaces == {"idle", "push", "link", "notify", "lock", "test", "window",
                "asleep", "pop", "got", "notifyAll", "inEmpty"}

Go(th, place) == pc' = [pc EXCEPT ![th] = place]

InitQueue ==
  /\ head = CHOOSE n \in Nodes : TRUE
  /\ tail = head
  /\ val = [n \in Nodes |-> NoTask] /\ next = [n \in Nodes |-> Null]
  /\ headMutex = Unlocked /\ tailMutex = Unlocked
  /\ item = [th \in Threads |-> NoTask]
  /\ taken = <<>> /\ missed = FALSE

\* The nodes in the list: PopHead clears the node it frees.
Live == {tail} \cup {n \in Nodes : next[n] # Null}
Size == Cardinality(Live)
\* They are linked from the head to the tail, and the last one holds no task.
IsOrder(c) ==
  /\ c[1] = head /\ c[Size] = tail
  /\ \A i \in 1..Size - 1 : next[c[i]] = c[i + 1]
Order == CHOOSE c \in [1..Size -> Live] : IsOrder(c)
Content == [i \in 1..Size - 1 |-> val[Order[i]]]
\* Which address `new node' returns makes no difference.
FreshNode == CHOOSE n \in Nodes \ Live : TRUE

-----------------------------------------------------------------------------
(* push().                                                                 *)

StoreValue_Mut(th) ==
  /\ pc[th] = "push" /\ Go(th, "link") /\ tailMutex' = th
  /\ val' = [val EXCEPT ![tail] = item[th]]
  /\ UNCHANGED <<head, tail, next, headMutex, item, taken, missed>>
StoreValue(th) ==
  /\ pc[th] = "push" /\ Go(th, "link")
  /\ tailMutex = Unlocked /\ tailMutex' = th
  /\ val' = [val EXCEPT ![tail] = item[th]]
  /\ UNCHANGED <<head, tail, next, headMutex, item, taken, missed>>

Link_Mut(th) ==
  /\ pc[th] = "link" /\ Go(th, "notify") /\ headMutex = Unlocked
  /\ next' = [next EXCEPT ![tail] = FreshNode] /\ tail' = FreshNode
  /\ tailMutex' = Unlocked
  /\ UNCHANGED <<head, val, headMutex, item, taken, missed>>
Link(th) ==
  /\ pc[th] = "link" /\ Go(th, "notify")
  /\ Nodes \ Live # {}                      \* bound: Nodes
  /\ next' = [next EXCEPT ![tail] = FreshNode]
  /\ tail' = FreshNode
  /\ tailMutex' = Unlocked
  /\ UNCHANGED <<head, val, headMutex, item, taken, missed>>

Asleep == {w \in Waiters : pc[w] = "asleep"}
InWindow == {w \in Waiters : pc[w] = "window"}

NotifyOne_Mut(th) ==
  /\ pc[th] = "notify" /\ Go(th, "idle")
  /\ item' = [item EXCEPT ![th] = NoTask]
  /\ UNCHANGED <<listVars, headMutex, tailMutex, taken, missed>>
\* notify_one, without a mutex: it reaches threads that are asleep already.
NotifyOne(th) ==
  /\ pc[th] = "notify"
  /\ IF Asleep = {}
     THEN Go(th, "idle") /\ missed' = (missed \/ InWindow # {})
     ELSE /\ \E w \in Asleep : pc' = [pc EXCEPT ![th] = "idle", ![w] = "lock"]
          /\ UNCHANGED missed
  /\ item' = [item EXCEPT ![th] = NoTask]
  /\ UNCHANGED <<listVars, headMutex, tailMutex, taken>>

-----------------------------------------------------------------------------
(* waitAndPop() and tryPop().                                              *)

LockHead(th) ==
  /\ pc[th] = "lock" /\ Go(th, "test")
  /\ headMutex = Unlocked /\ headMutex' = th
  /\ UNCHANGED <<listVars, tailMutex, item, taken, missed>>

\* getTail() needs tailMutex_ for a moment.
IsEmpty == head = tail
Found_Mut(th) ==
  /\ pc[th] = "test" /\ tailMutex = Unlocked
  /\ Go(th, "pop")
  /\ UNCHANGED <<listVars, headMutex, tailMutex, item, taken, missed>>
Found(th) ==
  /\ pc[th] = "test" /\ tailMutex = Unlocked
  /\ ~IsEmpty
  /\ Go(th, "pop")
  /\ UNCHANGED <<listVars, headMutex, tailMutex, item, taken, missed>>

FoundEmpty(th) ==
  /\ pc[th] = "test" /\ tailMutex = Unlocked
  /\ IsEmpty
  /\ IF th \in Waiters
     THEN Go(th, "window") /\ UNCHANGED headMutex
     ELSE Go(th, "idle") /\ headMutex' = Unlocked
  /\ UNCHANGED <<listVars, tailMutex, item, taken, missed>>

\* cv_.wait gives headMutex_ up and goes to sleep in one step.
Sleep(th) ==
  /\ pc[th] = "window" /\ Go(th, "asleep")
  /\ headMutex' = Unlocked
  /\ UNCHANGED <<listVars, tailMutex, item, taken, missed>>

Spurious(th) ==
  /\ pc[th] = "asleep" /\ Go(th, "lock")
  /\ UNCHANGED <<listVars, headMutex, tailMutex, item, taken, missed>>

PopHead(th) ==
  /\ pc[th] = "pop" /\ Go(th, "got")
  /\ item' = [item EXCEPT ![th] = val[head]]
  /\ taken' = Append(taken, val[head])
  /\ head' = next[head]
  /\ val' = [val EXCEPT ![head] = NoTask] /\ next' = [next EXCEPT ![head] = Null]
  /\ headMutex' = Unlocked
  /\ UNCHANGED <<tail, tailMutex, missed>>

-----------------------------------------------------------------------------
(* notify_all().  With headMutex_ held it calls empty(), which locks       *)
(* headMutex_ once more: a std::mutex that its holder locks never returns, *)
(* no step leads out of "inEmpty" and nobody is notified.                  *)

NotifyAll(th) ==
  /\ pc[th] = "notifyAll" /\ Go(th, "inEmpty")
  /\ headMutex = Unlocked /\ headMutex' = th
  /\ UNCHANGED <<listVars, tailMutex, item, taken, missed>>

PushStep(th) == StoreValue(th) \/ Link(th) \/ NotifyOne(th)
PopStep(th) ==
  LockHead(th) \/ Found(th) \/ FoundEmpty(th) \/ Sleep(th) \/ PopHead(th)
=============================================================================
