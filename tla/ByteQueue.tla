----------------------------- MODULE ByteQueue -----------------------------
(***************************************************************************)
(* What a Buffer promises its users: a queue of bytes that takes bytes at  *)
(* the back and, in a header, at the front, and gives them back in order.  *)
(***************************************************************************)
EXTENDS Naturals, Sequences

CONSTANT Inputs           \* the byte strings that are put in

VARIABLES content, result \* the queue, and the last string that was taken out

Init == content = <<>> /\ result = <<>>

Put(data) == content' = content \o data /\ UNCHANGED result
PutFront(data) == content' = data \o content /\ UNCHANGED result
Drop(n) == content' = SubSeq(content, n + 1, Len(content)) /\ UNCHANGED result
Take(n) ==
  /\ result' = SubSeq(content, 1, n)
  /\ content' = SubSeq(content, n + 1, Len(content))
Unput(n) == content' = SubSeq(content, 1, Len(content) - n) /\ UNCHANGED result

Next ==
  \/ \E data \in Inputs : Put(data) \/ PutFront(data)
  \/ \E n \in 0..Len(content) : Drop(n) \/ Take(n) \/ Unput(n)

Spec == Init /\ [][Next]_<<content, result>>
=============================================================================
