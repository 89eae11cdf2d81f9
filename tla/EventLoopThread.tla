-------------------------- MODULE EventLoopThread --------------------------
(***************************************************************************)
(* An EventLoopThread: the owner constructs it, calls startLoop(), hands   *)
(* functors to the loop and destroys it; the thread constructs an          *)
(* EventLoop on its own stack, publishes a pointer to it, runs it and      *)
(* withdraws the pointer.  Composes EventLoop (the loop), Latch (the       *)
(* rendezvous in Thread::start) and the mutex and condition variable of    *)
(* startLoop.                                                              *)
(***************************************************************************)
EXTENDS EventLoop

CONSTANT Owner            \* the thread that owns the EventLoopThread

ASSUME OwnerAssumption == Callers = {Owner}

VARIABLES opc,            \* where the owner is, see OwnerLocations
          tpc,            \* where the thread is, see ThreadLocations
          loopPtr,        \* loop_ # nullptr
          returned,       \* startLoop() returned a pointer that is not null
          latchCount, latchSleeping

loopVars == vars
startVars == <<opc, tpc, loopPtr, returned, latchCount, latchSleeping>>
allVars == <<vars, startVars>>

(* "latch": in Thread::start, waiting for the latch; "cond": about to test *)
(* loop_ under mutex_; "condSleep": asleep in cond_.wait; "return": past   *)
(* the unlock, before `return loop_'; "dtor": in ~EventLoopThread;         *)
(* "join": in ~Thread.                                                     *)
OwnerLocations == {"new", "latch", "cond", "condSleep", "return", "ready",
                   "dtor", "join", "joined"}

(* "spawned": in runInThread; "init": loop constructed, callback_ running; *)
(* "published": loop_ set; "inLoop": in loop.loop(); "left": loop_ reset,  *)
(* the loop not yet destroyed; "finished": the thread function is over.    *)
ThreadLocations == {"none", "spawned", "init", "published", "inLoop", "left",
                    "finished"}

latch == INSTANCE Latch WITH count <- latchCount, sleeping <- latchSleeping
latchVars == <<latchCount, latchSleeping>>

InitThread ==
  /\ Init
  /\ opc = "new" /\ tpc = "none"
  /\ loopPtr = FALSE /\ returned = FALSE
  /\ latchCount = 1 /\ latchSleeping = {}

-----------------------------------------------------------------------------
(* startLoop(), in the owner.                                              *)

Start ==
  /\ opc = "new" /\ opc' = "latch"
  /\ tpc' = "spawned"
  /\ UNCHANGED <<loopVars, loopPtr, returned, latchVars>>

LatchWait ==
  /\ opc = "latch"
  /\ \/ latch!Sleep(Owner) /\ opc' = opc
     \/ latch!Pass(Owner) /\ opc' = "cond"
  /\ UNCHANGED <<loopVars, tpc, loopPtr, returned>>

CondWait ==
  /\ opc = "cond"
  /\ opc' = IF loopPtr THEN "return" ELSE "condSleep"
  /\ UNCHANGED <<loopVars, tpc, loopPtr, returned, latchVars>>

\* loop_ is read again, without the mutex, for the return value.
Return ==
  /\ opc = "return" /\ opc' = "ready"
  /\ returned' = loopPtr
  /\ UNCHANGED <<loopVars, tpc, loopPtr, latchVars>>

Spurious ==
  /\ \/ latch!Spurious(Owner) /\ opc' = opc
     \/ opc = "condSleep" /\ opc' = "cond" /\ UNCHANGED latchVars
  /\ UNCHANGED <<loopVars, tpc, loopPtr, returned>>

-----------------------------------------------------------------------------
(* The thread: Thread's runInThread, then threadFunc.                      *)

CountDown ==
  /\ tpc = "spawned" /\ tpc' = "init"
  /\ latch!CountDown
  /\ UNCHANGED <<loopVars, opc, loopPtr, returned>>

Notified == IF opc = "condSleep" THEN "cond" ELSE opc

\* The mutant sets loop_ before the callback ran.
Publish_Mut ==
  /\ tpc = "spawned" /\ ~loopPtr /\ tpc' = tpc
  /\ loopPtr' = TRUE /\ opc' = Notified
  /\ UNCHANGED <<loopVars, returned, latchVars>>
Publish ==
  /\ tpc = "init" /\ tpc' = "published" /\ LoopThread \notin waking
  /\ loopPtr' = TRUE /\ opc' = Notified
  /\ UNCHANGED <<loopVars, returned, latchVars>>

EnterLoop ==
  /\ tpc = "published" /\ tpc' = "inLoop"
  /\ Loop
  /\ UNCHANGED <<opc, loopPtr, returned, latchVars>>

RunLoop == tpc = "inLoop" /\ LoopStep /\ UNCHANGED startVars
OtherEvent == tpc = "inLoop" /\ PollOther /\ UNCHANGED startVars

Withdraw ==
  /\ tpc = "inLoop" /\ pc = "exited" /\ tpc' = "left"
  /\ loopPtr' = FALSE
  /\ UNCHANGED <<loopVars, opc, returned, latchVars>>

\* ~EventLoop closes the eventfd; the stack frame of the loop is gone.
DestroyLoop ==
  /\ tpc = "left" /\ tpc' = "finished"
  /\ UNCHANGED <<loopVars, opc, loopPtr, returned, latchVars>>

-----------------------------------------------------------------------------
(* Calls on the loop, and ~EventLoopThread.                                *)

OwnerCall ==
  /\ opc = "ready"
  /\ \E t \in Tasks : QueueInLoop(Owner, t)
  /\ UNCHANGED startVars

LoopThreadCall ==
  /\ tpc \in {"init", "inLoop"}
  /\ \E t \in Tasks : QueueInLoop(LoopThread, t) \/ RunInLoop(t)
  /\ UNCHANGED startVars

EndCall ==
  /\ \E th \in Threads : Wakeup(th)
  /\ UNCHANGED startVars

BeginDtor ==
  /\ opc = "ready" /\ Owner \notin waking /\ opc' = "dtor"
  /\ UNCHANGED <<loopVars, tpc, loopPtr, returned, latchVars>>

DtorQuit ==
  /\ opc = "dtor" /\ opc' = "join"
  /\ IF loopPtr THEN Quit(Owner) ELSE UNCHANGED loopVars
  /\ UNCHANGED <<tpc, loopPtr, returned, latchVars>>

Join ==
  /\ opc = "join" /\ Owner \notin waking /\ tpc = "finished"
  /\ opc' = "joined"
  /\ UNCHANGED <<loopVars, tpc, loopPtr, returned, latchVars>>

-----------------------------------------------------------------------------

OwnerStep == Start \/ LatchWait \/ CondWait \/ Return \/ DtorQuit \/ Join
ThreadStep == CountDown \/ Publish \/ EnterLoop \/ RunLoop \/ Withdraw
              \/ DestroyLoop

NextThread ==
  \/ OwnerStep \/ ThreadStep \/ EndCall
  \/ Spurious \/ OtherEvent
  \/ OwnerCall \/ LoopThreadCall \/ BeginDtor

\* Both threads keep running; whether the owner makes a call or destroys the
\* object, and when a descriptor becomes ready, is open.
ThreadFairness ==
  WF_allVars(OwnerStep) /\ WF_allVars(ThreadStep) /\ WF_allVars(EndCall)

ThreadSpec == InitThread /\ [][NextThread]_allVars /\ ThreadFairness

-----------------------------------------------------------------------------
(* Properties.                                                             *)

\* Types of the start-up protocol, with the positions the two threads of the
\* protocol can be in together: the thread's progress bounds the owner's.
ThreadTypeOK ==
  /\ TypeOK
  /\ opc \in OwnerLocations /\ tpc \in ThreadLocations
  /\ loopPtr \in BOOLEAN /\ returned \in BOOLEAN
  /\ latchCount \in 0..1 /\ latchSleeping \subseteq {Owner}
  /\ opc = "new" <=> tpc = "none"
  /\ latchSleeping # {} => opc = "latch"

\* startLoop() hands out a loop only after the thread's init callback is over,
\* never a null pointer (though it reads loop_ again without the mutex), and the
\* loop stays as long as the owner holds it: unless a functor calls quit(), what
\* the owner queues meets neither a loop that is being set up nor one that has
\* left, up to the quit() in the owner's own destructor.
StartedLoopIsReady ==
  /\ ThreadTypeOK
  /\ opc \in {"ready", "dtor"} =>
       returned /\ loopPtr /\ tpc \in {"published", "inLoop"}

\* The two rendezvous of startLoop(), the latch and the condition variable,
\* cannot leave the owner asleep: a startLoop() that begins returns.
StartLoopReturns == (opc = "latch") ~> (opc = "ready")

\* While a destructor that finds the thread inside loop() is at work nothing is
\* lost: the thread is told to quit, wakes up, leaves and is joined.
LateDtorJoins == (opc = "dtor" /\ pc # "setup") ~> (opc = "joined")
=============================================================================
