----------------------------- MODULE RecordLog -----------------------------
(***************************************************************************)
(* What the logger promises to the threads that log: records reach the     *)
(* file in the order in which they were appended, each once; all of them   *)
(* do while the logger is open, except that records may be dropped while   *)
(* Backlog of them or more wait, and then never the oldest.  Records are   *)
(* numbered in the order in which they are accepted.                       *)
(***************************************************************************)
EXTENDS Naturals, Sequences

CONSTANT Backlog          \* nothing is dropped while fewer records wait

VARIABLES accepted,       \* how many records were appended
          pending,        \* appended and not yet in the file, oldest first
          file,           \* in the file, oldest first
          open            \* FALSE once the logger is told to stop

vars == <<accepted, pending, file, open>>

Init == accepted = 0 /\ pending = <<>> /\ file = <<>> /\ open = TRUE

Accept ==
  /\ accepted' = accepted + 1
  /\ pending' = Append(pending, accepted')
  /\ UNCHANGED <<file, open>>

\* Some of the oldest records, in order, go to the file.
Store ==
  /\ \E k \in 1..Len(pending) :
       /\ file' = file \o SubSeq(pending, 1, k)
       /\ pending' = SubSeq(pending, k + 1, Len(pending))
  /\ UNCHANGED <<accepted, open>>

\* A run of records behind the oldest one is dropped.
Drop ==
  /\ Len(pending) >= Backlog
  /\ \E i \in 1..Len(pending) : \E j \in i..Len(pending) :
       pending' = SubSeq(pending, 1, i) \o SubSeq(pending, j + 1, Len(pending))
  /\ UNCHANGED <<accepted, file, open>>

Close == open /\ open' = FALSE /\ UNCHANGED <<accepted, pending, file>>

Next == Accept \/ Store \/ Drop \/ Close

SafeSpec == Init /\ [][Next]_vars
Spec == SafeSpec /\ WF_vars(open /\ Store)
=============================================================================
