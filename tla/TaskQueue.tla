----------------------------- MODULE TaskQueue -----------------------------
(***************************************************************************)
(* What an EventLoop promises to the threads that hand it functors: each   *)
(* functor is executed once, queued functors in the order in which they    *)
(* were queued, and every queued functor is executed as long as the loop   *)
(* is not stopped.  The module says nothing of threads or of wakeups.      *)
(***************************************************************************)
EXTENDS Naturals, Sequences, SequencesExt

CONSTANT Tasks            \* the functors

VARIABLES pending,        \* queued and not yet executed, oldest first
          done,           \* executed, oldest first
          open            \* FALSE once the loop has stopped

vars == <<pending, done, open>>

Fresh(t) == t \notin ToSet(pending) \cup ToSet(done)

Init == pending = <<>> /\ done = <<>> /\ open = TRUE

\* queueInLoop, from any thread, also after the loop has stopped.
Submit(t) ==
  /\ Fresh(t)
  /\ pending' = Append(pending, t)
  /\ UNCHANGED <<done, open>>

\* runInLoop in the loop's own thread: the functor does not queue.
RunDirectly(t) ==
  /\ open
  /\ Fresh(t)
  /\ done' = Append(done, t)
  /\ UNCHANGED <<pending, open>>

Execute ==
  /\ open
  /\ pending # <<>>
  /\ done' = Append(done, Head(pending))
  /\ pending' = Tail(pending)
  /\ UNCHANGED open

Stop == open /\ open' = FALSE /\ UNCHANGED <<pending, done>>

Next ==
  \/ \E t \in Tasks : Submit(t) \/ RunDirectly(t)
  \/ Execute
  \/ Stop

SafeSpec == Init /\ [][Next]_vars
Spec == SafeSpec /\ WF_vars(Execute)
=============================================================================
