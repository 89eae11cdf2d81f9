---------------------------- MODULE MC_EventLoop ----------------------------
(* An instance of EventLoop for TLC: two foreign threads, three functors,   *)
(* quit() from either side.                                                 *)
EXTENDS EventLoop

CONSTANTS loop, a, b, t1, t2, t3

TwoCallers == {a, b}
ThreeTasks == {t1, t2, t3}
NoTasks == {}
QuitFromBothSides == {a, loop}
=============================================================================
