-------------------------- MODULE EventLoop_proofs --------------------------
(***************************************************************************)
(* Proofs about EventLoop, for every set of threads, functors and callers  *)
(* of quit(): types, the wakeup protocol, and that the loop implements the *)
(* abstract executor of TaskQueue.  The last section is about              *)
(* EventLoopThread, and only there the loop's callers are one owner        *)
(* (OwnerAssumption).                                                      *)
(***************************************************************************)
EXTENDS EventLoopThread, SequenceTheorems, TLAPS

LEMMA TypeInit == Init => TypeOK
<1> SUFFICES ASSUME Init PROVE TypeOK
  OBVIOUS
<1>1. <<>> \in Seq(Tasks)
  OBVIOUS
<1> QED
  BY <1>1, ThreadAssumption DEF Init, TypeOK, Locations, Channels

LEMMA TypeStep == TypeOK /\ [Next]_vars => TypeOK'
<1> SUFFICES ASSUME TypeOK, [Next]_vars PROVE TypeOK'
  OBVIOUS
<1> USE DEF TypeOK, Locations, Channels
<1>1. ASSUME NEW th \in Threads, NEW t \in Tasks, QueueInLoop(th, t)
      PROVE  TypeOK'
  BY <1>1 DEF QueueInLoop
<1>2. ASSUME NEW t \in Tasks, RunInLoop(t) PROVE TypeOK'
  BY <1>2 DEF RunInLoop
<1>3. ASSUME NEW th \in Threads, Quit(th) PROVE TypeOK'
  BY <1>3 DEF Quit
<1>4. ASSUME NEW th \in Threads, Wakeup(th) PROVE TypeOK'
  BY <1>4 DEF Wakeup
<1>5. CASE Loop
  BY <1>5 DEF Loop
<1>6. CASE Test
  BY <1>6 DEF Test
<1>7. ASSUME NEW ready \in SUBSET Channels, Poll(ready) PROVE TypeOK'
  BY <1>7 DEF Poll
<1>8. CASE HandleRead
  BY <1>8 DEF HandleRead
<1>9. CASE HandleIo
  BY <1>9 DEF HandleIo
<1>10. CASE RunFunctors
  BY <1>10 DEF RunFunctors, TakeFunctors
<1>11. CASE FinishTask
  <2>1. Head(batch) \in Tasks /\ Tail(batch) \in Seq(Tasks)
    BY <1>11 DEF FinishTask
  <2> QED
    BY <1>11, <2>1 DEF FinishTask
<1>12. CASE EndFunctors
  BY <1>12 DEF EndFunctors
<1>13. CASE UNCHANGED vars
  BY <1>13 DEF vars
<1> QED
  BY <1>1, <1>2, <1>3, <1>4, <1>5, <1>6, <1>7, <1>8, <1>9, <1>10, <1>11,
     <1>12, <1>13
  DEF Next, Call, CallDirect, LoopStep, PollWakeup, PollOther

\* The types and the contents of the local vectors hold in every state.
THEOREM TypeCorrect == SafeSpec => []TypeOK
BY TypeInit, TypeStep, PTL DEF SafeSpec

(***************************************************************************)
(* The wakeup protocol.  NoLostWakeup speaks of the loop asleep; the       *)
(* invariant WakeupOwed says what must hold on the way there.  Functors    *)
(* queued by the loop thread before loop() are excluded: nothing wakes the *)
(* loop for them.                                                          *)
(***************************************************************************)
LEMMA OwedInit == Init => WakeupOwed
  BY DEF Init, WakeupOwed

LEMMA OwedStep ==
  ASSUME SetupTasks = {}, TypeOK, WakeupOwed, [Next]_vars
  PROVE  WakeupOwed'
<1> USE DEF WakeupOwed, WakeupUnderWay
<1>1. ASSUME NEW th \in Threads, NEW t \in Tasks, QueueInLoop(th, t)
      PROVE  WakeupOwed'
  <2>1. CASE WakesAfterQueueing(th)
    BY <1>1, <2>1 DEF QueueInLoop
  <2>2. CASE ~WakesAfterQueueing(th)
    <3>1. th = LoopThread /\ pc \in {"setup", "handle"}
      BY <1>1, <2>2
      DEF QueueInLoop, MayCall, InUserCode, WakesAfterQueueing, callingFunctors
    <3>2. pc = "handle"
      BY <1>1, <3>1 DEF QueueInLoop
    <3> QED
      BY <1>1, <3>2 DEF QueueInLoop
  <2> QED
    BY <2>1, <2>2
<1>2. ASSUME NEW t \in Tasks, RunInLoop(t) PROVE WakeupOwed'
  BY <1>2 DEF RunInLoop
<1>3. ASSUME NEW th \in Threads, Quit(th) PROVE WakeupOwed'
  BY <1>3 DEF Quit, MayCall, InUserCode, WakesAfterQuit
<1>4. ASSUME NEW th \in Threads, Wakeup(th) PROVE WakeupOwed'
  BY <1>4 DEF Wakeup, TypeOK
<1>5. CASE Loop
  BY <1>5 DEF Loop
<1>6. CASE Test
  BY <1>6 DEF Test
<1>7. ASSUME NEW ready \in SUBSET Channels, Poll(ready) PROVE WakeupOwed'
  BY <1>7 DEF Poll
<1>8. CASE HandleRead
  BY <1>8 DEF HandleRead
<1>9. CASE HandleIo
  BY <1>9 DEF HandleIo
<1>10. CASE RunFunctors
  BY <1>10 DEF RunFunctors, TakeFunctors
<1>11. CASE FinishTask
  BY <1>11 DEF FinishTask
<1>12. CASE EndFunctors
  BY <1>12 DEF EndFunctors
<1>13. CASE UNCHANGED vars
  BY <1>13 DEF vars
<1> QED
  BY <1>1, <1>2, <1>3, <1>4, <1>5, <1>6, <1>7, <1>8, <1>9, <1>10, <1>11,
     <1>12, <1>13
  DEF Next, Call, CallDirect, LoopStep, PollWakeup, PollOther

\* The loop never sleeps in epoll_wait on a queued functor or on quit_.
THEOREM WakeupSafety ==
  ASSUME SetupTasks = {} PROVE SafeSpec => []NoLostWakeup
<1>1. TypeOK /\ WakeupOwed => NoLostWakeup
  BY DEF TypeOK, WakeupOwed, WakeupUnderWay, NoLostWakeup, Asleep
<1>2. TypeOK /\ WakeupOwed /\ [Next]_vars => WakeupOwed'
  BY OwedStep
<1> QED
  BY <1>1, <1>2, OwedInit, TypeCorrect, PTL DEF SafeSpec

-----------------------------------------------------------------------------
(* The refinement of TaskQueue.                                            *)

LEMMA AppendToConcat ==
  ASSUME NEW S, NEW u \in Seq(S), NEW v \in Seq(S), NEW x \in S
  PROVE  u \o Append(v, x) = Append(u \o v, x)
<1>1. u \o (v \o <<x>>) = (u \o v) \o <<x>>
  BY ConcatAssociative
<1> QED
  BY <1>1, AppendIsConcat, ConcatProperties

LEMMA HeadOfConcat ==
  ASSUME NEW S, NEW u \in Seq(S), NEW v \in Seq(S), u # <<>>
  PROVE  /\ u \o v # <<>>
         /\ Head(u \o v) = Head(u)
         /\ Tail(u \o v) = Tail(u) \o v
  BY Z3

\* Every step of the loop and of its callers is a step of the abstract
\* executor or leaves it alone.
LEMMA StepRefines ==
  ASSUME TypeOK, [Next]_vars PROVE [Executor!Next]_(Executor!vars)
<1> USE DEF TypeOK, Executor!vars, Executor!Next, Executor!Submit,
            Executor!RunDirectly, Executor!Execute, Executor!Stop
<1>1. ASSUME NEW th \in Threads, NEW t \in Tasks, QueueInLoop(th, t)
      PROVE  Executor!Submit(t)
  <2>1. batch \o Append(functors, t) = Append(batch \o functors, t)
    BY AppendToConcat
  <2> QED
    BY <1>1, <2>1 DEF QueueInLoop, Fresh, Executor!Fresh, ToSet, Executor!ToSet
<1>2. ASSUME NEW t \in Tasks, RunInLoop(t) PROVE Executor!RunDirectly(t)
  <2>1. pc # "exited"
    BY <1>2 DEF RunInLoop, MayCall, InUserCode
  <2> QED
    BY <1>2, <2>1 DEF RunInLoop, Fresh, Executor!Fresh, ToSet, Executor!ToSet
<1>3. ASSUME NEW th \in Threads, Quit(th) PROVE UNCHANGED Executor!vars
  BY <1>3 DEF Quit
<1>4. ASSUME NEW th \in Threads, Wakeup(th) PROVE UNCHANGED Executor!vars
  BY <1>4 DEF Wakeup
<1>5. CASE Loop
  BY <1>5 DEF Loop
<1>6. CASE Test
  BY <1>6 DEF Test
<1>7. ASSUME NEW ready \in SUBSET Channels, Poll(ready)
      PROVE  UNCHANGED Executor!vars
  BY <1>7 DEF Poll
<1>8. CASE HandleRead
  BY <1>8 DEF HandleRead
<1>9. CASE HandleIo
  BY <1>9 DEF HandleIo
<1>10. CASE RunFunctors
  <2>1. functors \o <<>> = functors /\ <<>> \o functors = functors
    BY ConcatEmptySeq
  <2> QED
    BY <1>10, <2>1 DEF RunFunctors, TakeFunctors
<1>11. CASE FinishTask
  <2>1. batch # <<>> /\ pc = "run"
    BY <1>11 DEF FinishTask
  <2>2. batch \o functors # <<>>
        /\ Head(batch \o functors) = Head(batch)
        /\ Tail(batch \o functors) = Tail(batch) \o functors
    BY <2>1, HeadOfConcat
  <2> QED
    BY <1>11, <2>1, <2>2 DEF FinishTask
<1>12. CASE EndFunctors
  BY <1>12 DEF EndFunctors
<1>13. CASE UNCHANGED vars
  BY <1>13 DEF vars
<1> QED
  BY <1>1, <1>2, <1>3, <1>4, <1>5, <1>6, <1>7, <1>8, <1>9, <1>10, <1>11,
     <1>12, <1>13
  DEF Next, Call, CallDirect, LoopStep, PollWakeup, PollOther

\* Each functor runs at most once, queued functors in the order of their
\* queueInLoop calls, and none after loop() has returned.
THEOREM ExecutorSafety == SafeSpec => RefinesTaskQueueSafety
<1>1. Init => Executor!Init
  <2>1. <<>> \o <<>> = <<>>
    OBVIOUS
  <2> QED
    BY <2>1 DEF Init, Executor!Init
<1>2. TypeOK /\ [Next]_vars => [Executor!Next]_(Executor!vars)
  BY StepRefines
<1> QED
  BY <1>1, <1>2, TypeCorrect, PTL
  DEF SafeSpec, RefinesTaskQueueSafety, Executor!SafeSpec
-----------------------------------------------------------------------------
(***************************************************************************)
(* EventLoopThread.  Whatever its two threads do to the loop is a step of  *)
(* EventLoop, so that its invariants hold of the composed system as well.  *)
(***************************************************************************)
LEMMA OwnerCalls == Owner \in Threads /\ Owner # LoopThread
BY OwnerAssumption, ThreadAssumption DEF Threads

LEMMA LoopSteps == [NextThread]_allVars => [Next]_vars
<1> SUFFICES ASSUME [NextThread]_allVars PROVE [Next]_vars
  OBVIOUS
<1> USE DEF loopVars
<1>1. CASE Start \/ LatchWait \/ CondWait \/ Return \/ Join \/ Spurious
  BY <1>1 DEF Start, LatchWait, CondWait, Return, Join, Spurious
<1>2. CASE CountDown \/ Publish \/ Withdraw \/ DestroyLoop \/ BeginDtor
  BY <1>2 DEF CountDown, Publish, Withdraw, DestroyLoop, BeginDtor
<1>3. CASE DtorQuit
  BY <1>3, OwnerCalls DEF DtorQuit, Next, Call
<1>4. CASE EnterLoop \/ RunLoop \/ OtherEvent
  BY <1>4 DEF EnterLoop, RunLoop, OtherEvent, Next, LoopStep
<1>5. CASE OwnerCall \/ LoopThreadCall
  BY <1>5, OwnerCalls DEF OwnerCall, LoopThreadCall, Next, Call, CallDirect, Threads
<1>6. CASE EndCall
  BY <1>6 DEF EndCall, Next
<1>7. CASE UNCHANGED allVars
  BY <1>7 DEF allVars
<1> QED
  BY <1>1, <1>2, <1>3, <1>4, <1>5, <1>6, <1>7 DEF NextThread, OwnerStep, ThreadStep

\* The loop of an EventLoopThread, built, run, quit and left by its two threads,
\* is a loop of EventLoop: what is proved of that one holds of it.
THEOREM ThreadRunsALoop == ThreadSpec => SafeSpec
<1>1. InitThread => Init
  BY DEF InitThread
<1> QED
  BY <1>1, LoopSteps, PTL DEF ThreadSpec, SafeSpec

(***************************************************************************)
(* The inductive invariant of the two threads.  The owner sees a loop only *)
(* while the thread runs one, because the thread cannot leave loop()       *)
(* before quit_ is set, and only the owner's destructor sets it.           *)
(***************************************************************************)
Rendezvous ==
  /\ tpc \in {"none", "spawned"} <=> latchCount = 1
  /\ latchCount = 1 => opc \in {"new", "latch"}
  /\ loopPtr <=> tpc \in {"published", "inLoop"}
  /\ opc \in {"return", "ready", "dtor"} => loopPtr
  /\ opc \in {"ready", "dtor"} => returned

ThreadsProgress ==
  /\ tpc \in {"none", "spawned", "init", "published"} <=> pc = "setup"
  /\ tpc \in {"left", "finished"} => pc = "exited"
  /\ opc \notin {"join", "joined"} => ~quit /\ pc # "exited"

ThreadInv == ThreadTypeOK /\ Rendezvous /\ ThreadsProgress

LEMMA ThreadInvInit == InitThread => ThreadInv
<1> SUFFICES ASSUME InitThread PROVE ThreadInv
  OBVIOUS
<1>1. TypeOK
  BY TypeInit DEF InitThread
<1>2. ThreadTypeOK
  <2>1. opc \in OwnerLocations /\ tpc \in ThreadLocations /\ latchCount \in 0..1
    BY DEF InitThread, OwnerLocations, ThreadLocations
  <2>2. loopPtr \in BOOLEAN /\ returned \in BOOLEAN
    BY DEF InitThread
  <2> QED
    BY <1>1, <2>1, <2>2 DEF InitThread, ThreadTypeOK
<1>3. Rendezvous
  BY DEF InitThread, Rendezvous
<1>4. ThreadsProgress
  BY DEF InitThread, Init, ThreadsProgress
<1> QED
  BY <1>2, <1>3, <1>4 DEF ThreadInv

LEMMA ThreadInvStep == ThreadInv /\ [NextThread]_allVars => ThreadInv'
<1> SUFFICES ASSUME ThreadInv, [NextThread]_allVars PROVE ThreadInv'
  OBVIOUS
<1>0. TypeOK /\ TypeOK'
  BY LoopSteps, TypeStep DEF ThreadInv, ThreadTypeOK
<1> USE DEF ThreadInv, ThreadTypeOK, Rendezvous, ThreadsProgress,
            OwnerLocations, ThreadLocations
<1>1. CASE Start
  BY <1>0, <1>1 DEF Start, loopVars, latchVars, vars
<1>2. CASE LatchWait
  BY <1>0, <1>2 DEF LatchWait, latch!Sleep, latch!Pass, loopVars, vars
<1>3. CASE CondWait
  BY <1>0, <1>3 DEF CondWait, loopVars, latchVars, vars
<1>4. CASE Return
  BY <1>0, <1>4 DEF Return, loopVars, latchVars, vars
<1>5. CASE Spurious
  BY <1>0, <1>5 DEF Spurious, latch!Spurious, loopVars, latchVars, vars
<1>6. CASE CountDown
  BY <1>0, <1>6 DEF CountDown, latch!CountDown, loopVars, vars
<1>7. CASE Publish
  BY <1>0, <1>7 DEF Publish, Notified, loopVars, latchVars, vars
<1>8. CASE EnterLoop
  BY <1>0, <1>8 DEF EnterLoop, Loop, latchVars
<1>9. CASE Withdraw
  BY <1>0, <1>9 DEF Withdraw, loopVars, latchVars, vars
<1>10. CASE DestroyLoop
  BY <1>0, <1>10 DEF DestroyLoop, loopVars, latchVars, vars
<1>11. CASE BeginDtor
  BY <1>0, <1>11 DEF BeginDtor, loopVars, latchVars, vars
<1>12. CASE DtorQuit
  BY <1>0, <1>12 DEF DtorQuit, Quit, loopVars, latchVars, vars
<1>13. CASE Join
  BY <1>0, <1>13 DEF Join, loopVars, latchVars, vars
\* The steps of the loop itself: in loop(), it leaves by way of quit_ alone.
<1>14. CASE RunLoop
  <2>1. quit' = quit /\ pc' # "setup" /\ (pc' = "exited" => quit)
    BY <1>14
    DEF RunLoop, LoopStep, Loop, Test, PollWakeup, Poll, HandleRead, HandleIo,
        RunFunctors, FinishTask, EndFunctors
  <2> QED
    BY <1>0, <1>14, <2>1 DEF RunLoop, startVars
<1>15. CASE OtherEvent
  BY <1>0, <1>15 DEF OtherEvent, PollOther, Poll, startVars
<1>16. CASE OwnerCall \/ LoopThreadCall \/ EndCall
  <2>1. UNCHANGED <<pc, quit, startVars>>
    BY <1>16 DEF OwnerCall, LoopThreadCall, EndCall, QueueInLoop, RunInLoop, Wakeup
  <2> QED
    BY <1>0, <2>1 DEF startVars
<1>17. CASE UNCHANGED allVars
  BY <1>0, <1>17 DEF allVars, vars, startVars
<1> QED
  BY <1>1, <1>2, <1>3, <1>4, <1>5, <1>6, <1>7, <1>8, <1>9, <1>10, <1>11,
     <1>12, <1>13, <1>14, <1>15, <1>16, <1>17
  DEF NextThread, OwnerStep, ThreadStep

\* startLoop() hands out a loop that is set up, and the owner's pointer is good
\* until its own destructor has called quit().
THEOREM StartedLoopIsAlive == ThreadSpec => []StartedLoopIsReady
<1>1. ThreadInv => StartedLoopIsReady
  BY DEF ThreadInv, ThreadTypeOK, Rendezvous, StartedLoopIsReady
<1> QED
  BY <1>1, ThreadInvInit, ThreadInvStep, PTL DEF ThreadSpec
=============================================================================
