------------------------------ MODULE MC_Timers ------------------------------
(* Instances of Timers for TLC. *)
EXTENDS Timers

OneOrTwoUnits == {1, 2}
TwoUnits == {2}
OneUnit == {1}
PromptOrNot == BOOLEAN
SlowLoop == {FALSE}
=============================================================================
