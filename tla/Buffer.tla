------------------------------- MODULE Buffer -------------------------------
(***************************************************************************)
(* The Buffer of a TcpConnection: a vector of bytes with a reader and a    *)
(* writer index, room for a header before the readable bytes, and a vector *)
(* that moves or grows when the space behind them is short.                *)
(*                                                                         *)
(* The assertions of the code that state a caller's duty are guards.  The  *)
(* integer operations are those on strings of their width; the byte order  *)
(* belongs to the data.  The searches (findCRLF, findEOL) change nothing,  *)
(* and swap() has no callers: both are left out.                           *)
(***************************************************************************)
EXTENDS Naturals, Sequences

CONSTANTS Bytes, Zero,    \* Zero: what a resize fills in
          Inputs,         \* the byte strings users and the socket provide
          Prepend,        \* kPrepend
          InitSize,       \* kInitSize
          Extra,          \* the size of extrabuf in readFd
          Reserves,       \* what shrink() is called with
          MaxReadable     \* bound on the readable bytes of a behaviour

ASSUME BufferAssumption ==
  /\ Prepend \in Nat /\ InitSize \in Nat /\ Extra \in Nat /\ MaxReadable \in Nat
  /\ Prepend <= InitSize /\ Reserves \subseteq Nat
  /\ Zero \in Bytes /\ Inputs \subseteq Seq(Bytes)

VARIABLES buffer,         \* buffer_, readerIndex_ and writerIndex_
          result          \* what the last retrieveAsString() returned

vars == <<buffer, result>>

\* Position i of the vector is b.mem[i + 1].
Readable(b) == b.writer - b.reader
Writeable(b) == Len(b.mem) - b.writer
Prependable(b) == b.reader

\* What the user sees: peek() with readableBytes().
Content(b) == [i \in 1..Readable(b) |-> b.mem[b.reader + i]]

Resize(m, n) == [i \in 1..n |-> IF i <= Len(m) THEN m[i] ELSE Zero]

\* std::copy of data to position `at'.
Copy(m, at, data) ==
  [i \in 1..Len(m) |-> IF i > at /\ i <= at + Len(data) THEN data[i - at] ELSE m[i]]

Init ==
  /\ buffer = [mem |-> Resize(<<>>, Prepend + InitSize),
               reader |-> Prepend, writer |-> Prepend]
  /\ result = <<>>

-----------------------------------------------------------------------------
(* What the operations make of a buffer b.                                 *)

\* Moving the bytes to the front would not make room for len.  The mutant uses
\* the room for a header as well.
MustGrow_Mut(b, len) == Writeable(b) + Prependable(b) < len
MustGrow(b, len) == Writeable(b) + Prependable(b) < len + Prepend

Grown(b, len) ==
  [mem |-> Resize(b.mem, b.writer + len), reader |-> b.reader, writer |-> b.writer]
Moved(b) ==
  [mem |-> Copy(b.mem, Prepend, Content(b)),
   reader |-> Prepend, writer |-> Prepend + Readable(b)]

MakeSpace(b, len) == IF MustGrow(b, len) THEN Grown(b, len) ELSE Moved(b)

EnsureWritableBytes(b, len) == IF Writeable(b) < len THEN MakeSpace(b, len) ELSE b

\* The caller, or append(), copies to beginWrite() and calls hasWritten().
Written(b, data) ==
  [mem |-> Copy(b.mem, b.writer, data),
   reader |-> b.reader, writer |-> b.writer + Len(data)]

Appended(b, data) == Written(EnsureWritableBytes(b, Len(data)), data)

\* readv fills what is writeable, and then extrabuf, which is appended.  The
\* mutant appends the wrong end of what was read.
Overflow_Mut(b, data) == SubSeq(data, 1, Len(data) - Writeable(b))
Overflow(b, data) == SubSeq(data, Writeable(b) + 1, Len(data))

Filled(b, data) ==
  IF Len(data) <= Writeable(b) THEN Written(b, data)
  ELSE Appended(Written(b, SubSeq(data, 1, Writeable(b))), Overflow(b, data))

Retrieved(b, len) ==
  IF len < Readable(b)
  THEN [mem |-> b.mem, reader |-> b.reader + len, writer |-> b.writer]
  ELSE [mem |-> b.mem, reader |-> Prepend, writer |-> Prepend]

Unwritten(b, len) ==
  [mem |-> b.mem, reader |-> b.reader, writer |-> b.writer - len]

Prepended(b, data) ==
  [mem |-> Copy(b.mem, b.reader - Len(data), data),
   reader |-> b.reader - Len(data), writer |-> b.writer]

Roomy(b, reserve) == EnsureWritableBytes(b, Readable(b) + reserve)
ShrunkSize(b, reserve) == Readable(b) + reserve + InitSize
Shrunk(b, reserve) ==
  LET r == Roomy(b, reserve) IN
  [mem |-> Resize(r.mem, ShrunkSize(b, reserve)), reader |-> r.reader, writer |-> r.writer]

-----------------------------------------------------------------------------
(* The operations.                                                         *)

Fits(data) == Readable(buffer) + Len(data) <= MaxReadable

AppendBytes(data) ==
  /\ Fits(data)
  /\ buffer' = Appended(buffer, data)
  /\ UNCHANGED result

HasWritten(data) ==
  /\ Fits(data) /\ Len(data) <= Writeable(buffer)
  /\ buffer' = Written(buffer, data)
  /\ UNCHANGED result

ReadFd(data) ==
  LET w == Writeable(buffer) IN
  /\ Fits(data) /\ Len(data) <= w + (IF w < Extra THEN Extra ELSE 0)
  /\ buffer' = Filled(buffer, data)
  /\ UNCHANGED result

Retrieve(len) ==
  /\ len <= Readable(buffer)
  /\ buffer' = Retrieved(buffer, len)
  /\ UNCHANGED result

RetrieveAsString(len) ==
  /\ len <= Readable(buffer)
  /\ result' = SubSeq(Content(buffer), 1, len)
  /\ buffer' = Retrieved(buffer, len)

\* Of what was written: the assertion asks for len <= writeableBytes(), which is
\* neither needed nor enough.
Unwrite(len) ==
  /\ len <= Writeable(buffer) /\ len <= Readable(buffer)
  /\ buffer' = Unwritten(buffer, len)
  /\ UNCHANGED result

PrependBytes(data) ==
  /\ Fits(data) /\ Len(data) <= Prependable(buffer)
  /\ buffer' = Prepended(buffer, data)
  /\ UNCHANGED result

\* Where the new size covers what is readable; the code does not look.
Shrink(reserve) ==
  /\ Roomy(buffer, reserve).writer <= ShrunkSize(buffer, reserve)
  /\ buffer' = Shrunk(buffer, reserve)
  /\ UNCHANGED result

Next ==
  \/ \E data \in Inputs :
       AppendBytes(data) \/ HasWritten(data) \/ ReadFd(data) \/ PrependBytes(data)
  \/ \E len \in 0..MaxReadable :
       Retrieve(len) \/ RetrieveAsString(len) \/ Unwrite(len)
  \/ \E reserve \in Reserves : Shrink(reserve)

Spec == Init /\ [][Next]_vars

-----------------------------------------------------------------------------
(* Properties.                                                             *)

\* The indices stay inside the vector and in their order, and the vector never
\* gets smaller than the room for a header.
WellFormed(b) ==
  /\ b \in [mem : Seq(Bytes), reader : Nat, writer : Nat]
  /\ b.reader <= b.writer /\ b.writer <= Len(b.mem)
  /\ Prepend <= Len(b.mem)

TypeOK == WellFormed(buffer) /\ result \in Seq(Bytes)

\* Nothing is lost, repeated or reordered when the bytes move, when the vector
\* grows or shrinks, and when readv spills into extrabuf.
Queue == INSTANCE ByteQueue WITH content <- Content(buffer)
RefinesByteQueue == Queue!Spec
=============================================================================
