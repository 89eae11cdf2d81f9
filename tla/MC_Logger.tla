----------------------------- MODULE MC_Logger -----------------------------
(* Instances of Logger for TLC. *)
EXTENDS Logger

CONSTANTS t1, t2

TwoThreads == {t1, t2}
NineBuffers == 1..9

OneChar == <<"c">>
Word(n) == Chars([i \in 1..n |-> "w"])
Int8(v) == [kind |-> "int", value |-> v]
Pointer(v) == [kind |-> "pointer", value |-> v]
Double(t) == [kind |-> "double", value |-> t]

(* Short lines, two of which fill a buffer to the last byte, the integers  *)
(* at the ends of their range, numbers that meet a full buffer, a text     *)
(* that does not fit and one that fills the record.                        *)
SevenLines == <<
  <<>>,
  <<Int8(0)>>,
  <<Int8(-128), Pointer(0), Double(<<"1", ".", "5">>)>>,
  <<Int8(127), Pointer(255), Int8(-7), Int8(5)>>,
  <<Word(12)>>,
  <<Word(19), Int8(-1)>>,
  <<Int8(3)>> >>

(* The lengths of the records, computed once. *)
Lengths == FoldLeft(LAMBDA s, n : Append(s, Len(Record(n))), <<>>, <<1, 2, 3, 4, 5, 6, 7>>)
Sizes == Lengths
=============================================================================
