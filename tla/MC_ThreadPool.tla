--------------------------- MODULE MC_ThreadPool ---------------------------
(* Instances of ThreadPool for TLC. *)
EXTENDS ThreadPool

CONSTANTS w1, w2, p1, p2, user, main, a, b

TwoWorkers == {w1, w2}
TwoPushers == {p1, p2}
OnePoller == {user}
OwnerOnly == {main}
TwoTasks == {a, b}
ThreeNodes == 1..3
=============================================================================
