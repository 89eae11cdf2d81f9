------------------------------ MODULE MC_Output ------------------------------
(* Instances of Output for TLC. *)
EXTENDS Output

Streaming == [sizes |-> 1..3, pipelined |-> TRUE, foreign |-> TRUE,
              reports |-> TRUE, files |-> FALSE]
Downloads == [sizes |-> 1..2, pipelined |-> FALSE, foreign |-> FALSE,
              reports |-> FALSE, files |-> TRUE]
Healthy == {Streaming, Downloads}
=============================================================================
