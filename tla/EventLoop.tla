----------------------------- MODULE EventLoop -----------------------------
(***************************************************************************)
(* One cannet::EventLoop: the functor queue of queueInLoop / runInLoop,    *)
(* the eventfd that wakes epoll_wait, quit() and the body of loop().       *)
(*                                                                         *)
(* Other threads only touch functors_ (under mutex_), quit_ (atomic) and   *)
(* the eventfd.  A call of queueInLoop or quit is two steps, because the   *)
(* loop thread may run between them: the store, then the write to the      *)
(* eventfd.  Threads between the two are in `waking'.                      *)
(***************************************************************************)
EXTENDS Naturals, Sequences, SequencesExt

CONSTANTS LoopThread,     \* the thread that constructed the loop
          Callers,        \* the other threads that hold a pointer to it
          Tasks,          \* the functors handed to the loop
          SetupTasks,     \* those the loop thread may queue before loop()
          Quitters        \* threads that call quit(), at most once each

Threads == Callers \cup {LoopThread}

ASSUME ThreadAssumption == LoopThread \notin Callers /\ Quitters \subseteq Threads
ASSUME TaskAssumption == SetupTasks \subseteq Tasks

VARIABLES pc,             \* where the loop thread is, see Locations
          active,         \* activeChannels_ not yet handled
          functors,       \* functors_
          batch,          \* the vector swapped out by runFunctors
          wakeups,        \* the counter of the eventfd
          waking,         \* threads about to write to the eventfd
          quit,           \* quit_
          toQuit,         \* the Quitters that have not called quit() yet
          done            \* functors executed so far, oldest first

vars == <<pc, active, functors, batch, wakeups, waking, quit, toQuit, done>>

(* "setup": constructed, loop() not called; "test": at while (!quit_);     *)
(* "poll": in epoll_wait; "handle": walking activeChannels_; "run": in     *)
(* runFunctors; "exited": loop() has returned.                             *)
Locations == {"setup", "test", "poll", "handle", "run", "exited"}
Channels == {"wakeup", "io"}    \* wakeupChannel_, and any other channel

callingFunctors == pc = "run"

Init ==
  /\ pc = "setup" /\ active = {}
  /\ functors = <<>> /\ batch = <<>> /\ done = <<>>
  /\ wakeups = 0 /\ waking = {}
  /\ quit = FALSE /\ toQuit = Quitters

-----------------------------------------------------------------------------
(* The calls of the interface.                                             *)

\* The loop thread is in code of the user: the thread's init callback, the
\* handler of an event, or a functor.
InUserCode ==
  /\ LoopThread \notin waking
  /\ \/ pc = "setup"
     \/ pc = "handle" /\ "io" \in active
     \/ pc = "run" /\ batch # <<>>

MayCall(th) ==
  /\ th \notin waking
  /\ th = LoopThread => InUserCode

Fresh(t) == t \notin ToSet(batch \o functors) \cup ToSet(done)

WakesAfterQueueing_Mut(th) == th # LoopThread
WakesAfterQueueing(th) == th # LoopThread \/ callingFunctors
WakesAfterQuit_Mut(th) == FALSE
WakesAfterQuit(th) == th # LoopThread

QueueInLoop(th, t) ==
  /\ MayCall(th)
  /\ Fresh(t)
  /\ (th = LoopThread /\ pc = "setup") => t \in SetupTasks
  /\ functors' = Append(functors, t)
  /\ waking' = IF WakesAfterQueueing(th) THEN waking \cup {th} ELSE waking
  /\ UNCHANGED <<pc, active, batch, wakeups, quit, toQuit, done>>

\* runInLoop by the loop thread: the functor runs at once.  (From another
\* thread runInLoop is QueueInLoop.)
RunInLoop(t) ==
  /\ MayCall(LoopThread)
  /\ Fresh(t)
  /\ done' = Append(done, t)
  /\ UNCHANGED <<pc, active, functors, batch, wakeups, waking, quit, toQuit>>

Quit(th) ==
  /\ MayCall(th)
  /\ th \in toQuit
  /\ toQuit' = toQuit \ {th}
  /\ quit' = TRUE
  /\ waking' = IF WakesAfterQuit(th) THEN waking \cup {th} ELSE waking
  /\ UNCHANGED <<pc, active, functors, batch, wakeups, done>>

\* wakeup(): write(wakeupFd_, 1).
Wakeup(th) ==
  /\ th \in waking
  /\ waking' = waking \ {th}
  /\ wakeups' = wakeups + 1
  /\ UNCHANGED <<pc, active, functors, batch, quit, toQuit, done>>

-----------------------------------------------------------------------------
(* The body of loop().                                                     *)

Loop ==
  /\ pc = "setup"
  /\ pc' = "test"
  /\ quit' = FALSE
  /\ UNCHANGED <<active, functors, batch, wakeups, waking, toQuit, done>>

Test ==
  /\ pc = "test"
  /\ pc' = IF quit THEN "exited" ELSE "poll"
  /\ UNCHANGED <<active, functors, batch, wakeups, waking, quit, toQuit, done>>

\* epoll_wait with timeout -1.  The wakeup channel is level triggered: it is
\* reported as long as the counter is not zero.
Poll(ready) ==
  /\ pc = "poll"
  /\ "wakeup" \in ready <=> wakeups > 0
  /\ pc' = "handle"
  /\ active' = ready
  /\ UNCHANGED <<functors, batch, wakeups, waking, quit, toQuit, done>>

PollWakeup == wakeups > 0 /\ \E ready \in SUBSET Channels : Poll(ready)

\* Other events, or EINTR, which returns no channel at all.
PollOther == wakeups = 0 /\ \E ready \in SUBSET Channels : Poll(ready)

\* wakeupChannel_'s handler: one read takes the whole counter.
HandleRead ==
  /\ pc = "handle" /\ "wakeup" \in active
  /\ wakeups' = 0
  /\ active' = active \ {"wakeup"}
  /\ UNCHANGED <<pc, functors, batch, waking, quit, toQuit, done>>

\* The handler of another channel returns.
HandleIo ==
  /\ pc = "handle" /\ "io" \in active /\ LoopThread \notin waking
  /\ active' = active \ {"io"}
  /\ UNCHANGED <<pc, functors, batch, wakeups, waking, quit, toQuit, done>>

TakeFunctors_Mut == /\ batch' = functors /\ functors' = functors
TakeFunctors == /\ batch' = functors /\ functors' = <<>>

RunFunctors ==
  /\ pc = "handle" /\ active = {}
  /\ pc' = "run"
  /\ TakeFunctors
  /\ UNCHANGED <<active, wakeups, waking, quit, toQuit, done>>

\* The functor at the head of the batch returns.
FinishTask ==
  /\ pc = "run" /\ batch # <<>> /\ LoopThread \notin waking
  /\ done' = Append(done, Head(batch))
  /\ batch' = Tail(batch)
  /\ UNCHANGED <<pc, active, functors, wakeups, waking, quit, toQuit>>

EndFunctors_Mut ==
  /\ pc = "run"
  /\ pc' = "test"
  /\ UNCHANGED <<active, functors, batch, wakeups, waking, quit, toQuit, done>>
EndFunctors ==
  /\ pc = "run" /\ batch = <<>>
  /\ pc' = "test"
  /\ UNCHANGED <<active, functors, batch, wakeups, waking, quit, toQuit, done>>

-----------------------------------------------------------------------------

Call == \E th \in Threads :
          \/ \E t \in Tasks : QueueInLoop(th, t)
          \/ Quit(th)
CallDirect == \E t \in Tasks : RunInLoop(t)

LoopStep ==
  \/ Loop \/ Test \/ PollWakeup \/ HandleRead \/ HandleIo
  \/ RunFunctors \/ FinishTask \/ EndFunctors

Next ==
  \/ Call \/ CallDirect
  \/ \E th \in Threads : Wakeup(th)
  \/ LoopStep
  \/ PollOther

\* Threads keep running and handlers return; nothing says that a thread makes
\* a call, or that another descriptor becomes ready.
Fairness ==
  /\ WF_vars(LoopStep)
  /\ \A th \in Threads : WF_vars(Wakeup(th))

SafeSpec == Init /\ [][Next]_vars
Spec == SafeSpec /\ Fairness

-----------------------------------------------------------------------------
(* Properties.                                                             *)

\* Types, with what the local vectors of loop() and runFunctors can hold
\* where: activeChannels_ is empty outside the handling loop, the swapped-out
\* functors are gone when runFunctors returns.
TypeOK ==
  /\ pc \in Locations
  /\ active \subseteq Channels /\ (pc # "handle" => active = {})
  /\ functors \in Seq(Tasks) /\ done \in Seq(Tasks)
  /\ batch \in Seq(Tasks) /\ (pc # "run" => batch = <<>>)
  /\ wakeups \in Nat
  /\ waking \subseteq Threads
  /\ quit \in BOOLEAN /\ toQuit \subseteq Quitters

\* queueInLoop and quit never leave the loop asleep on work: while epoll_wait
\* blocks and no thread is about to write to the eventfd, functors_ is empty
\* and quit_ is not set.
Asleep == pc = "poll" /\ wakeups = 0 /\ waking = {}
NoLostWakeup == Asleep => functors = <<>> /\ ~quit

\* Why: outside the handling of events, a queued functor or a quit_ the loop
\* has not seen always has a wakeup under way.
WakeupUnderWay == wakeups > 0 \/ waking # {}
WakeupOwed ==
  /\ (pc \in {"setup", "test", "poll", "run"} /\ functors # <<>>) => WakeupUnderWay
  /\ (pc = "poll" /\ quit) => WakeupUnderWay

\* A quit() that finds the loop inside loop() makes loop() return.
QuitStops == (quit /\ pc # "setup") ~> pc = "exited"

\* The loop is the abstract executor: each functor runs once, queued functors
\* run in the order of their queueInLoop calls whoever made them, and all of
\* them run unless the loop is told to quit.
Executor == INSTANCE TaskQueue
              WITH pending <- batch \o functors, open <- (pc # "exited")
RefinesTaskQueue == Executor!Spec
RefinesTaskQueueSafety == Executor!SafeSpec
=============================================================================
