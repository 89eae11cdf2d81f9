------------------------------ MODULE MC_Buffer ------------------------------
(* An instance of Buffer for TLC. *)
EXTENDS Buffer

CONSTANTS zero, b1, b2

SomeBytes == {zero, b1, b2}
SomeInputs == {<<>>, <<b1>>, <<b1, b2>>, <<b2, b1, b1>>}
SomeReserves == {0, 2}
=============================================================================
