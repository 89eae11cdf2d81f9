------------------------------ MODULE MC_Server ------------------------------
(* An instance of Server for TLC. *)
EXTENDS Server

CONSTANTS c1, c2, c3, o1

SomeClients == {c1, c2, c3}
SomeOthers == {o1}
=============================================================================
