------------------------------- MODULE Latch -------------------------------
(***************************************************************************)
(* cannet::Latch: wait() sleeps on the condition variable while the count  *)
(* is positive, countDown() wakes every sleeper when it reaches zero.      *)
(* Both hold the latch's mutex, so each is one step; a sleeper that wakes  *)
(* tests the count again.                                                  *)
(***************************************************************************)
EXTENDS Integers

VARIABLES count,      \* count_
          sleeping    \* threads asleep in condition_.wait

Sleep(th) ==
  /\ count > 0 /\ th \notin sleeping
  /\ sleeping' = sleeping \cup {th}
  /\ UNCHANGED count

Pass(th) ==
  /\ count <= 0 /\ th \notin sleeping
  /\ UNCHANGED <<count, sleeping>>

CountDown_Mut ==
  /\ count' = count - 1
  /\ UNCHANGED sleeping
CountDown ==
  /\ count' = count - 1
  /\ sleeping' = IF count' = 0 THEN {} ELSE sleeping

\* A condition variable may wake a thread that nobody notified.
Spurious(th) ==
  /\ th \in sleeping
  /\ sleeping' = sleeping \ {th}
  /\ UNCHANGED count
=============================================================================
