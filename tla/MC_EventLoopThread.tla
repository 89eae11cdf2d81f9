------------------------- MODULE MC_EventLoopThread -------------------------
(* Instances of EventLoopThread for TLC. *)
EXTENDS EventLoopThread

CONSTANTS loop, main, t1, t2

MainOnly == {main}
TwoTasks == {t1, t2}
=============================================================================
