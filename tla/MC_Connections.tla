--------------------------- MODULE MC_Connections ---------------------------
(* Instances of Connections for TLC: what the user's code calls in which    *)
(* callback, and what peers do.                                             *)
EXTENDS Connections

CONSTANTS c1, c2, f1, f2, s1, s2, s3

TwoObjects == {c1, c2}
TwoFds == {f1, f2}
ThreeSockets == {s1, s2, s3}

Alike == Permutations(Objects) \cup Permutations(Fds) \cup Permutations(Sockets)

In(message, connection, complete) ==
  [at \in Callbacks |-> CASE at = "message" -> message
                          [] at = "connection" -> connection
                          [] at = "writeComplete" -> complete]

Server ==
  [peers |-> {"data", "fin", "reset"}, calls |-> In({"send", "shutdown", "forceClose"}, {}, {})]
Backpressure ==
  [peers |-> {"data", "fin"}, calls |-> In({"send", "stopRead"}, {}, {"startRead"})]
Rejecting ==
  [peers |-> {"data", "fin"}, calls |-> In({}, {"forceClose"}, {})]

Served == {Server, Backpressure}
Rejected == {Rejecting}
=============================================================================
