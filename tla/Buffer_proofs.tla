--------------------------- MODULE Buffer_proofs ---------------------------
(***************************************************************************)
(* Proofs about Buffer, for every size of header, vector and spill buffer: *)
(* its indices stay inside the vector, and it implements the queue of      *)
(* bytes of ByteQueue.  One lemma for each thing that is made of a buffer  *)
(* says what becomes of its content.                                       *)
(***************************************************************************)
EXTENDS Buffer, SequenceTheorems, TLAPS

(***************************************************************************)
(* The vector.                                                             *)
(***************************************************************************)
LEMMA ResizeFacts ==
  ASSUME NEW m \in Seq(Bytes), NEW n \in Nat
  PROVE  /\ Resize(m, n) \in Seq(Bytes)
         /\ Len(Resize(m, n)) = n
         /\ \A i \in 1..n : Resize(m, n)[i] = IF i <= Len(m) THEN m[i] ELSE Zero
<1>1. Resize(m, n) \in [1..n -> Bytes]
  BY BufferAssumption DEF Resize
<1> QED
  BY <1>1 DEF Resize

LEMMA CopyFacts ==
  ASSUME NEW m \in Seq(Bytes), NEW at \in Nat, NEW data \in Seq(Bytes)
  PROVE  /\ Copy(m, at, data) \in Seq(Bytes)
         /\ Len(Copy(m, at, data)) = Len(m)
         /\ \A i \in 1..Len(m) : Copy(m, at, data)[i] =
              IF i > at /\ i <= at + Len(data) THEN data[i - at] ELSE m[i]
<1>1. Copy(m, at, data) \in [1..Len(m) -> Bytes]
  BY DEF Copy
<1> QED
  BY <1>1 DEF Copy

LEMMA BytesAssociative ==
  \A s, t, u \in Seq(Bytes) : (s \o t) \o u = s \o (t \o u)
BY ConcatAssociative

LEMMA ConcatBytes ==
  ASSUME NEW s \in Seq(Bytes), NEW t \in Seq(Bytes)
  PROVE  /\ s \o t \in Seq(Bytes)
         /\ Len(s \o t) = Len(s) + Len(t)
         /\ \A i \in 1..Len(s) + Len(t) :
              (s \o t)[i] = IF i <= Len(s) THEN s[i] ELSE t[i - Len(s)]
BY ConcatProperties

LEMMA ContentFacts ==
  ASSUME NEW b, WellFormed(b)
  PROVE  /\ Content(b) \in Seq(Bytes)
         /\ Readable(b) \in Nat /\ Writeable(b) \in Nat /\ Prependable(b) \in Nat
         /\ Len(Content(b)) = Readable(b)
         /\ \A i \in 1..Readable(b) : Content(b)[i] = b.mem[b.reader + i]
<1>1. /\ Readable(b) \in Nat /\ Writeable(b) \in Nat /\ Prependable(b) \in Nat
      /\ b.mem \in Seq(Bytes)
  BY DEF WellFormed, Readable, Writeable, Prependable
<1>2. \A i \in 1..Readable(b) : b.mem[b.reader + i] \in Bytes
  <2> SUFFICES ASSUME NEW i \in 1..Readable(b) PROVE b.mem[b.reader + i] \in Bytes
    OBVIOUS
  <2>1. b.reader + i \in 1..Len(b.mem)
    BY DEF WellFormed, Readable
  <2> QED
    BY <1>1, <2>1, ElementOfSeq
<1>3. Content(b) \in [1..Readable(b) -> Bytes]
  BY <1>1, <1>2 DEF Content
<1> QED
  BY <1>1, <1>3 DEF Content

LEMMA ContentIs ==
  ASSUME NEW b, WellFormed(b), NEW s \in Seq(Bytes), Len(s) = Readable(b),
         \A i \in 1..Len(s) : b.mem[b.reader + i] = s[i]
  PROVE  Content(b) = s
BY ContentFacts, SeqEqual

(***************************************************************************)
(* Making room changes neither the content nor, when the bytes move to the *)
(* front, the header's room.                                               *)
(***************************************************************************)
LEMMA GrownFacts ==
  ASSUME NEW b, WellFormed(b), NEW len \in Nat, Writeable(b) < len
  PROVE  /\ WellFormed(Grown(b, len))
         /\ Content(Grown(b, len)) = Content(b)
         /\ Writeable(Grown(b, len)) = len
<1> DEFINE g == Grown(b, len)
<1>1. b.writer + len \in Nat /\ b.mem \in Seq(Bytes)
  BY DEF WellFormed
<1>2. /\ Resize(b.mem, b.writer + len) \in Seq(Bytes)
      /\ Len(Resize(b.mem, b.writer + len)) = b.writer + len
      /\ \A i \in 1..b.writer + len : Resize(b.mem, b.writer + len)[i] =
           IF i <= Len(b.mem) THEN b.mem[i] ELSE Zero
  BY <1>1, ResizeFacts
<1>3. g.mem = Resize(b.mem, b.writer + len) /\ g.reader = b.reader /\ g.writer = b.writer
  BY DEF Grown, WellFormed
<1>4. WellFormed(g)
  <2>1. g \in [mem : Seq(Bytes), reader : Nat, writer : Nat]
    BY <1>2 DEF Grown, WellFormed
  <2>2. Len(b.mem) \in Nat /\ Len(b.mem) < b.writer + len
    BY <1>1 DEF Writeable, WellFormed
  <2>3. Prepend <= b.writer + len
    BY <1>1, <2>2, BufferAssumption DEF WellFormed
  <2> QED
    BY <1>1, <1>2, <1>3, <2>1, <2>3 DEF WellFormed
<1>5. Content(g) = Content(b)
  <2>1. /\ Content(b) \in Seq(Bytes) /\ Len(Content(b)) = Readable(b)
        /\ Readable(g) = Readable(b)
    BY <1>3, ContentFacts DEF Readable
  <2>2. ASSUME NEW i \in 1..Readable(b) PROVE g.mem[g.reader + i] = Content(b)[i]
    <3>1. b.reader + i \in 1..Len(b.mem) /\ b.reader + i \in 1..b.writer + len
      BY DEF WellFormed, Readable
    <3> QED
      BY <1>2, <1>3, <3>1, ContentFacts, SMTT(30)
  <2> QED
    BY <1>4, <2>1, <2>2, ContentIs
<1>6. Writeable(g) = len
  BY <1>1, <1>2, <1>3 DEF Writeable, WellFormed
<1> QED
  BY <1>4, <1>5, <1>6

LEMMA MovedFacts ==
  ASSUME NEW b, WellFormed(b), NEW len \in Nat, Writeable(b) < len, ~MustGrow(b, len)
  PROVE  /\ WellFormed(Moved(b))
         /\ Content(Moved(b)) = Content(b)
         /\ Writeable(Moved(b)) >= len
<1> DEFINE c == Moved(b)
<1>1. /\ b.mem \in Seq(Bytes) /\ Content(b) \in Seq(Bytes)
      /\ Len(Content(b)) = Readable(b) /\ Readable(b) \in Nat
  BY ContentFacts DEF WellFormed
<1>2. /\ Copy(b.mem, Prepend, Content(b)) \in Seq(Bytes)
      /\ Len(Copy(b.mem, Prepend, Content(b))) = Len(b.mem)
      /\ \A i \in 1..Len(b.mem) : Copy(b.mem, Prepend, Content(b))[i] =
           IF i > Prepend /\ i <= Prepend + Readable(b)
           THEN Content(b)[i - Prepend] ELSE b.mem[i]
  <2>1. /\ Copy(b.mem, Prepend, Content(b)) \in Seq(Bytes)
        /\ Len(Copy(b.mem, Prepend, Content(b))) = Len(b.mem)
        /\ \A i \in 1..Len(b.mem) : Copy(b.mem, Prepend, Content(b))[i] =
             IF i > Prepend /\ i <= Prepend + Len(Content(b))
             THEN Content(b)[i - Prepend] ELSE b.mem[i]
    BY <1>1, CopyFacts, BufferAssumption
  <2> QED
    BY <1>1, <2>1
<1>3. /\ c.mem = Copy(b.mem, Prepend, Content(b))
      /\ c.reader = Prepend /\ c.writer = Prepend + Readable(b)
  BY DEF Moved
<1>4. Prepend + Readable(b) + len <= Len(b.mem) /\ Len(b.mem) \in Nat
  BY BufferAssumption
  DEF MustGrow, Writeable, Prependable, Readable, WellFormed
<1>5. WellFormed(c)
  <2>1. c \in [mem : Seq(Bytes), reader : Nat, writer : Nat]
    BY <1>1, <1>2, BufferAssumption DEF Moved
  <2> QED
    BY <1>1, <1>2, <1>3, <1>4, <2>1, BufferAssumption DEF WellFormed
<1>6. Readable(c) = Readable(b)
  BY <1>1, <1>3, BufferAssumption DEF Readable
<1>7. Content(c) = Content(b)
  <2>1. ASSUME NEW i \in 1..Readable(b) PROVE c.mem[c.reader + i] = Content(b)[i]
    <3>1. /\ Prepend + i \in 1..Len(b.mem) /\ Prepend + i > Prepend
          /\ Prepend + i <= Prepend + Readable(b) /\ (Prepend + i) - Prepend = i
      BY <1>1, <1>4, BufferAssumption
    <3> QED
      BY <1>2, <1>3, <3>1
  <2> QED
    BY <1>1, <1>5, <1>6, <2>1, ContentIs
<1>8. Writeable(c) >= len
  BY <1>1, <1>2, <1>3, <1>4, BufferAssumption DEF Writeable
<1> QED
  BY <1>5, <1>7, <1>8

LEMMA EnsureFacts ==
  ASSUME NEW b, WellFormed(b), NEW len \in Nat
  PROVE  /\ WellFormed(EnsureWritableBytes(b, len))
         /\ Content(EnsureWritableBytes(b, len)) = Content(b)
         /\ Writeable(EnsureWritableBytes(b, len)) >= len
<1>1. CASE Writeable(b) < len
  BY <1>1, GrownFacts, MovedFacts DEF EnsureWritableBytes, MakeSpace
<1>2. CASE ~(Writeable(b) < len)
  BY <1>2, ContentFacts DEF EnsureWritableBytes
<1> QED
  BY <1>1, <1>2

(***************************************************************************)
(* What each operation makes of the content.                               *)
(***************************************************************************)
LEMMA WrittenFacts ==
  ASSUME NEW b, WellFormed(b), NEW data \in Seq(Bytes), Len(data) <= Writeable(b)
  PROVE  /\ WellFormed(Written(b, data))
         /\ Content(Written(b, data)) = Content(b) \o data
         /\ Writeable(Written(b, data)) = Writeable(b) - Len(data)
<1> DEFINE w == Written(b, data)
<1>1. /\ b.mem \in Seq(Bytes) /\ b.writer \in Nat /\ b.reader \in Nat
      /\ b.writer + Len(data) <= Len(b.mem) /\ b.reader <= b.writer
      /\ Len(data) \in Nat /\ Len(b.mem) \in Nat
      /\ Readable(b) = b.writer - b.reader /\ Readable(b) \in Nat
      /\ Content(b) \in Seq(Bytes) /\ Len(Content(b)) = Readable(b)
  BY ContentFacts DEF WellFormed, Writeable, Readable
<1>2. /\ Copy(b.mem, b.writer, data) \in Seq(Bytes)
      /\ Len(Copy(b.mem, b.writer, data)) = Len(b.mem)
      /\ \A i \in 1..Len(b.mem) : Copy(b.mem, b.writer, data)[i] =
           IF i > b.writer /\ i <= b.writer + Len(data)
           THEN data[i - b.writer] ELSE b.mem[i]
  BY <1>1, CopyFacts
<1>3. /\ w.mem = Copy(b.mem, b.writer, data)
      /\ w.reader = b.reader /\ w.writer = b.writer + Len(data)
  BY DEF Written, WellFormed
<1>4. WellFormed(w)
  <2>1. w \in [mem : Seq(Bytes), reader : Nat, writer : Nat]
    BY <1>1, <1>2 DEF Written, WellFormed
  <2> QED
    BY <1>1, <1>2, <1>3, <2>1 DEF WellFormed
<1>5. Readable(w) = Readable(b) + Len(data)
  BY <1>1, <1>3 DEF Readable
<1>6. Content(w) = Content(b) \o data
  <2>1. /\ Content(b) \o data \in Seq(Bytes)
        /\ Len(Content(b) \o data) = Readable(w)
        /\ \A i \in 1..Readable(w) : (Content(b) \o data)[i] =
             IF i <= Readable(b) THEN Content(b)[i] ELSE data[i - Readable(b)]
    <3>1. /\ Content(b) \o data \in Seq(Bytes)
          /\ Len(Content(b) \o data) = Len(Content(b)) + Len(data)
          /\ \A i \in 1..Len(Content(b)) + Len(data) : (Content(b) \o data)[i] =
               IF i <= Len(Content(b)) THEN Content(b)[i] ELSE data[i - Len(Content(b))]
      BY <1>1, ConcatBytes
    <3> QED
      BY <1>1, <1>5, <3>1
  <2>2. ASSUME NEW i \in 1..Readable(w)
        PROVE  w.mem[w.reader + i] = (Content(b) \o data)[i]
    <3>1. b.reader + i \in 1..Len(b.mem) /\ b.reader + i <= b.writer + Len(data)
      BY <1>1, <1>5, SMTT(30)
    <3>2. CASE i <= Readable(b)
      <4>1. b.reader + i <= b.writer /\ i \in 1..Readable(b)
        BY <1>1, <3>2
      <4>2. w.mem[w.reader + i] = (Content(b) \o data)[i]
        <5>1. Content(b)[i] = b.mem[b.reader + i]
          BY <4>1, ContentFacts
        <5>2. w.mem[w.reader + i] = b.mem[b.reader + i]
          BY <1>1, <1>2, <1>3, <3>1, <4>1, SMTT(30)
        <5> QED
          BY <2>1, <3>2, <5>1, <5>2
      <4> QED
        BY <4>2
    <3>3. CASE ~(i <= Readable(b))
      <4>1. b.reader + i > b.writer /\ (b.reader + i) - b.writer = i - Readable(b)
        BY <1>1, <3>3
      <4> QED
        BY <1>2, <1>3, <2>1, <3>1, <3>3, <4>1
    <3> QED
      BY <3>2, <3>3
  <2> QED
    BY <1>4, <2>1, <2>2, ContentIs
<1>7. Writeable(w) = Writeable(b) - Len(data)
  BY <1>1, <1>2, <1>3 DEF Writeable
<1> QED
  BY <1>4, <1>6, <1>7

LEMMA AppendedFacts ==
  ASSUME NEW b, WellFormed(b), NEW data \in Seq(Bytes)
  PROVE  /\ WellFormed(Appended(b, data))
         /\ Content(Appended(b, data)) = Content(b) \o data
<1>1. Len(data) \in Nat
  OBVIOUS
<1>2. /\ WellFormed(EnsureWritableBytes(b, Len(data)))
      /\ Content(EnsureWritableBytes(b, Len(data))) = Content(b)
      /\ Len(data) <= Writeable(EnsureWritableBytes(b, Len(data)))
  <2>1. Writeable(EnsureWritableBytes(b, Len(data))) \in Nat
    BY <1>1, EnsureFacts, ContentFacts
  <2> QED
    BY <1>1, <2>1, EnsureFacts
<1> QED
  BY <1>2, WrittenFacts DEF Appended

LEMMA FilledFacts ==
  ASSUME NEW b, WellFormed(b), NEW data \in Seq(Bytes)
  PROVE  /\ WellFormed(Filled(b, data))
         /\ Content(Filled(b, data)) = Content(b) \o data
<1>1. CASE Len(data) <= Writeable(b)
  BY <1>1, WrittenFacts DEF Filled
<1>2. CASE ~(Len(data) <= Writeable(b))
  <2> DEFINE head == SubSeq(data, 1, Writeable(b))
             rest == Overflow(b, data)
  <2>1. Writeable(b) \in Nat /\ Len(data) \in Nat /\ Writeable(b) < Len(data)
    BY <1>2, ContentFacts
  <2>2. /\ head \in Seq(Bytes) /\ Len(head) = Writeable(b)
        /\ \A i \in 1..Writeable(b) : head[i] = data[i]
    <3>1. \A i \in 1..Writeable(b) : data[i] \in Bytes
      BY <2>1, ElementOfSeq
    <3>2. /\ head \in Seq(Bytes)
          /\ Len(head) = IF 1 <= Writeable(b) THEN Writeable(b) - 1 + 1 ELSE 0
          /\ \A i \in 1..Writeable(b) - 1 + 1 : head[i] = data[1 + i - 1]
      BY <2>1, <3>1, SubSeqProperties
    <3> QED
      BY <2>1, <3>2
  <2>3. rest \in Seq(Bytes) /\ head \o rest = data
    <3>1. \A i \in Writeable(b) + 1 .. Len(data) : data[i] \in Bytes
      BY <2>1, ElementOfSeq
    <3>2. rest \in Seq(Bytes)
      BY <2>1, <3>1, SubSeqProperties DEF Overflow
    <3>3. head \o rest = SubSeq(data, 1, Len(data))
      <4>1. /\ 1 \in 1..Len(data) + 1 /\ Writeable(b) \in 1 - 1 .. Len(data)
            /\ Len(data) \in Writeable(b) .. Len(data)
        BY <2>1
      <4> QED
        BY <4>1, ConcatAdjacentSubSeq DEF Overflow
    <3> QED
      BY <3>2, <3>3, SubSeqFull
  <2> HIDE DEF head, rest
  <2>4. /\ WellFormed(Written(b, head))
        /\ Content(Written(b, head)) = Content(b) \o head
    <3>1. Len(head) <= Writeable(b)
      BY <2>1, <2>2
    <3> QED
      BY <2>2, <3>1, WrittenFacts
  <2>5. /\ WellFormed(Appended(Written(b, head), rest))
        /\ Content(Appended(Written(b, head), rest)) = (Content(b) \o head) \o rest
    BY <2>3, <2>4, AppendedFacts
  <2>6. (Content(b) \o head) \o rest = Content(b) \o data
    <3>1. Content(b) \in Seq(Bytes)
      BY ContentFacts
    <3>2. (Content(b) \o head) \o rest = Content(b) \o data
      <4>1. head \in Seq(Bytes) /\ rest \in Seq(Bytes) /\ head \o rest = data
        BY <2>2, <2>3
      <4>2. (Content(b) \o head) \o rest = Content(b) \o (head \o rest)
        BY <3>1, <4>1, BytesAssociative
      <4> QED
        BY <4>1, <4>2
    <3> QED
      BY <3>2
  <2>7. Filled(b, data) = Appended(Written(b, head), rest)
    BY <1>2 DEF Filled, head, rest
  <2> QED
    BY <2>5, <2>6, <2>7
<1> QED
  BY <1>1, <1>2

LEMMA RetrievedFacts ==
  ASSUME NEW b, WellFormed(b), NEW len \in Nat, len <= Readable(b)
  PROVE  /\ WellFormed(Retrieved(b, len))
         /\ Content(Retrieved(b, len)) = SubSeq(Content(b), len + 1, Len(Content(b)))
<1> DEFINE r == Retrieved(b, len)
           tail == SubSeq(Content(b), len + 1, Len(Content(b)))
<1>1. /\ b.mem \in Seq(Bytes) /\ b.writer \in Nat /\ b.reader \in Nat
      /\ b.writer <= Len(b.mem) /\ b.reader <= b.writer /\ Len(b.mem) \in Nat
      /\ Readable(b) = b.writer - b.reader /\ Readable(b) \in Nat
      /\ Content(b) \in Seq(Bytes) /\ Len(Content(b)) = Readable(b)
  BY ContentFacts DEF WellFormed, Readable
<1>2. /\ tail \in Seq(Bytes) /\ Len(tail) = Readable(b) - len
      /\ \A i \in 1..Readable(b) - len : tail[i] = Content(b)[len + i]
  <2>1. \A i \in len + 1 .. Readable(b) : Content(b)[i] \in Bytes
    BY <1>1, ElementOfSeq
  <2>2. /\ tail \in Seq(Bytes)
        /\ Len(tail) = IF len + 1 <= Readable(b) THEN Readable(b) - (len + 1) + 1 ELSE 0
        /\ \A i \in 1..Readable(b) - (len + 1) + 1 :
             tail[i] = Content(b)[(len + 1) + i - 1]
    BY <1>1, <2>1, SubSeqProperties
  <2>3. Len(tail) = Readable(b) - len
    BY <1>1, <2>2
  <2>4. Readable(b) - (len + 1) + 1 = Readable(b) - len
    BY <1>1
  <2>5. ASSUME NEW i \in 1..Readable(b) - len PROVE tail[i] = Content(b)[len + i]
    <3>1. (len + 1) + i - 1 = len + i
      OBVIOUS
    <3> QED
      BY <2>2, <2>4, <3>1
  <2> QED
    BY <2>2, <2>3, <2>5
<1> HIDE DEF tail
<1>3. CASE len < Readable(b)
  <2>1. r = [mem |-> b.mem, reader |-> b.reader + len, writer |-> b.writer]
    BY <1>3 DEF Retrieved
  <2>2. WellFormed(r) /\ Readable(r) = Readable(b) - len
    BY <1>1, <1>3, <2>1 DEF WellFormed, Readable
  <2>3. ASSUME NEW i \in 1..Len(tail) PROVE r.mem[r.reader + i] = tail[i]
    <3>1. len + i \in 1..Readable(b) /\ (b.reader + len) + i = b.reader + (len + i)
      <4>1. i \in 1..Readable(b) - len
        BY <1>2
      <4> QED
        BY <1>1, <4>1
    <3>2. Content(b)[len + i] = b.mem[b.reader + (len + i)]
      BY <3>1, ContentFacts
    <3> QED
      BY <1>2, <2>1, <3>1, <3>2
  <2>4. Content(r) = tail
    BY <1>2, <2>2, <2>3, ContentIs
  <2> QED
    BY <2>2, <2>4 DEF tail
<1>4. CASE ~(len < Readable(b))
  <2>1. r = [mem |-> b.mem, reader |-> Prepend, writer |-> Prepend]
    BY <1>4 DEF Retrieved
  <2>2. len = Readable(b)
    BY <1>1, <1>4
  <2>3. WellFormed(r) /\ Readable(r) = 0
    BY <1>1, <2>1, BufferAssumption DEF WellFormed, Readable
  <2>4. Len(tail) = 0
    BY <1>1, <1>2, <2>2
  <2>5. Content(r) = tail
    <3>1. \A i \in 1..Len(tail) : r.mem[r.reader + i] = tail[i]
      BY <2>4
    <3> QED
      BY <1>2, <2>3, <2>4, <3>1, ContentIs
  <2> QED
    BY <2>3, <2>5 DEF tail
<1> QED
  BY <1>3, <1>4

LEMMA UnwrittenFacts ==
  ASSUME NEW b, WellFormed(b), NEW len \in Nat, len <= Readable(b)
  PROVE  /\ WellFormed(Unwritten(b, len))
         /\ Content(Unwritten(b, len)) = SubSeq(Content(b), 1, Len(Content(b)) - len)
<1> DEFINE u == Unwritten(b, len)
           front == SubSeq(Content(b), 1, Len(Content(b)) - len)
<1>1. /\ b.mem \in Seq(Bytes) /\ b.writer \in Nat /\ b.reader \in Nat
      /\ b.writer <= Len(b.mem) /\ b.reader <= b.writer /\ Len(b.mem) \in Nat
      /\ Readable(b) = b.writer - b.reader /\ Readable(b) \in Nat
      /\ Content(b) \in Seq(Bytes) /\ Len(Content(b)) = Readable(b)
  BY ContentFacts DEF WellFormed, Readable
<1>2. /\ front \in Seq(Bytes) /\ Len(front) = Readable(b) - len
      /\ \A i \in 1..Readable(b) - len : front[i] = Content(b)[i]
  <2>1. \A i \in 1 .. Readable(b) - len : Content(b)[i] \in Bytes
    BY <1>1, ElementOfSeq
  <2>2. /\ front \in Seq(Bytes)
        /\ Len(front) = IF 1 <= Readable(b) - len THEN (Readable(b) - len) - 1 + 1 ELSE 0
        /\ \A i \in 1..(Readable(b) - len) - 1 + 1 : front[i] = Content(b)[1 + i - 1]
    BY <1>1, <2>1, SubSeqProperties
  <2> QED
    BY <1>1, <2>2
<1> HIDE DEF front
<1>3. u = [mem |-> b.mem, reader |-> b.reader, writer |-> b.writer - len]
  BY DEF Unwritten
<1>4. WellFormed(u) /\ Readable(u) = Readable(b) - len
  BY <1>1, <1>3 DEF WellFormed, Readable
<1>5. ASSUME NEW i \in 1..Len(front) PROVE u.mem[u.reader + i] = front[i]
  <2>1. i \in 1..Readable(b) - len /\ i \in 1..Readable(b)
    BY <1>1, <1>2
  <2>2. Content(b)[i] = b.mem[b.reader + i]
    BY <2>1, ContentFacts
  <2> QED
    BY <1>2, <1>3, <2>1, <2>2
<1>6. Content(u) = front
  BY <1>2, <1>4, <1>5, ContentIs
<1> QED
  BY <1>4, <1>6 DEF front

LEMMA PrependedFacts ==
  ASSUME NEW b, WellFormed(b), NEW data \in Seq(Bytes), Len(data) <= Prependable(b)
  PROVE  /\ WellFormed(Prepended(b, data))
         /\ Content(Prepended(b, data)) = data \o Content(b)
<1> DEFINE p == Prepended(b, data)
           at == b.reader - Len(data)
<1>1. /\ b.mem \in Seq(Bytes) /\ b.writer \in Nat /\ b.reader \in Nat
      /\ b.writer <= Len(b.mem) /\ b.reader <= b.writer /\ Len(b.mem) \in Nat
      /\ Len(data) \in Nat /\ Len(data) <= b.reader
      /\ Readable(b) = b.writer - b.reader /\ Readable(b) \in Nat
      /\ Content(b) \in Seq(Bytes) /\ Len(Content(b)) = Readable(b)
  BY ContentFacts DEF WellFormed, Readable, Prependable
<1>2. at \in Nat /\ at + Len(data) = b.reader
  BY <1>1
<1>3. p = [mem |-> Copy(b.mem, at, data), reader |-> at, writer |-> b.writer]
  BY DEF Prepended
<1> HIDE DEF at
<1>4. /\ Copy(b.mem, at, data) \in Seq(Bytes)
      /\ Len(Copy(b.mem, at, data)) = Len(b.mem)
      /\ \A i \in 1..Len(b.mem) : Copy(b.mem, at, data)[i] =
           IF i > at /\ i <= at + Len(data) THEN data[i - at] ELSE b.mem[i]
  BY <1>1, <1>2, CopyFacts
<1>5. WellFormed(p) /\ Readable(p) = Len(data) + Readable(b)
  BY <1>1, <1>2, <1>3, <1>4 DEF WellFormed, Readable
<1>6. /\ data \o Content(b) \in Seq(Bytes)
      /\ Len(data \o Content(b)) = Len(data) + Readable(b)
      /\ \A i \in 1..Len(data) + Readable(b) : (data \o Content(b))[i] =
           IF i <= Len(data) THEN data[i] ELSE Content(b)[i - Len(data)]
  <2>1. /\ data \o Content(b) \in Seq(Bytes)
        /\ Len(data \o Content(b)) = Len(data) + Len(Content(b))
        /\ \A i \in 1..Len(data) + Len(Content(b)) : (data \o Content(b))[i] =
             IF i <= Len(data) THEN data[i] ELSE Content(b)[i - Len(data)]
    BY <1>1, ConcatBytes
  <2> QED
    BY <1>1, <2>1
<1>7. ASSUME NEW i \in 1..Len(data) + Readable(b)
      PROVE  p.mem[p.reader + i] = (data \o Content(b))[i]
  <2>1. at + i \in 1..Len(b.mem) /\ at + i > at /\ (at + i) - at = i
    BY <1>1, <1>2
  <2>2. CASE i <= Len(data)
    <3>1. p.mem = Copy(b.mem, at, data) /\ p.reader = at
      BY <1>3
    <3>2. at + i <= at + Len(data)
      BY <1>1, <1>2, <2>2
    <3>3. Copy(b.mem, at, data)[at + i] = data[(at + i) - at]
      BY <1>4, <2>1, <3>2
    <3>4. (data \o Content(b))[i] = data[i]
      BY <1>6, <2>2
    <3> QED
      BY <2>1, <3>1, <3>3, <3>4
  <2>3. CASE ~(i <= Len(data))
    <3>1. /\ i - Len(data) \in 1..Readable(b) /\ ~(at + i <= at + Len(data))
          /\ b.reader + (i - Len(data)) = at + i
      BY <1>1, <1>2, <2>3
    <3>2. Content(b)[i - Len(data)] = b.mem[at + i]
      BY <3>1, ContentFacts
    <3> QED
      BY <1>3, <1>4, <1>6, <2>1, <2>3, <3>1, <3>2
  <2> QED
    BY <2>2, <2>3
<1>8. Content(p) = data \o Content(b)
  BY <1>5, <1>6, <1>7, ContentIs
<1> QED
  BY <1>5, <1>8

LEMMA ShrunkFacts ==
  ASSUME NEW b, WellFormed(b), NEW reserve \in Nat,
         Roomy(b, reserve).writer <= ShrunkSize(b, reserve)
  PROVE  WellFormed(Shrunk(b, reserve)) /\ Content(Shrunk(b, reserve)) = Content(b)
<1> DEFINE r == Roomy(b, reserve)
           n == ShrunkSize(b, reserve)
           s == Shrunk(b, reserve)
<1>1. WellFormed(r) /\ Content(r) = Content(b)
  <2>1. Readable(b) + reserve \in Nat
    BY ContentFacts
  <2> QED
    BY <2>1, EnsureFacts DEF Roomy
<1>2. n \in Nat /\ Prepend <= n
  BY ContentFacts, BufferAssumption DEF ShrunkSize
<1>3. s = [mem |-> Resize(r.mem, n), reader |-> r.reader, writer |-> r.writer]
  BY DEF Shrunk
<1>4. r.writer <= n
  OBVIOUS
<1> HIDE DEF r, n, s
<1>5. /\ r.mem \in Seq(Bytes) /\ r.writer \in Nat /\ r.reader \in Nat
      /\ r.writer <= Len(r.mem) /\ r.reader <= r.writer /\ Len(r.mem) \in Nat
      /\ Readable(r) = r.writer - r.reader /\ Readable(r) \in Nat
      /\ Content(r) \in Seq(Bytes) /\ Len(Content(r)) = Readable(r)
  BY <1>1, ContentFacts, SMTT(30) DEF WellFormed, Readable
<1>6. /\ Resize(r.mem, n) \in Seq(Bytes) /\ Len(Resize(r.mem, n)) = n
      /\ \A i \in 1..n : Resize(r.mem, n)[i] =
           IF i <= Len(r.mem) THEN r.mem[i] ELSE Zero
  BY <1>2, <1>5, ResizeFacts
<1>7. WellFormed(s) /\ Readable(s) = Readable(r)
  BY <1>2, <1>3, <1>4, <1>5, <1>6 DEF WellFormed, Readable
<1>8. ASSUME NEW i \in 1..Len(Content(r)) PROVE s.mem[s.reader + i] = Content(r)[i]
  <2>1. /\ i \in 1..Readable(r)
        /\ r.reader + i \in 1..n /\ r.reader + i <= Len(r.mem)
    BY <1>2, <1>4, <1>5
  <2>2. Content(r)[i] = r.mem[r.reader + i]
    BY <1>1, <2>1, ContentFacts
  <2> QED
    BY <1>3, <1>6, <2>1, <2>2
<1>9. Content(s) = Content(r)
  BY <1>5, <1>7, <1>8, ContentIs
<1> QED
  BY <1>1, <1>7, <1>9 DEF s

(***************************************************************************)
(* The operations: each one keeps the types and is a step of the queue.    *)
(***************************************************************************)
LEMMA InitFacts == Init => TypeOK /\ Queue!Init
<1> SUFFICES ASSUME Init PROVE TypeOK /\ Queue!Init
  OBVIOUS
<1>1. /\ <<>> \in Seq(Bytes) /\ Len(<<>>) = 0 /\ Prepend + InitSize \in Nat
  BY BufferAssumption
<1>2. /\ Resize(<<>>, Prepend + InitSize) \in Seq(Bytes)
      /\ Len(Resize(<<>>, Prepend + InitSize)) = Prepend + InitSize
  BY <1>1, ResizeFacts
<1>3. WellFormed(buffer) /\ Readable(buffer) = 0
  BY <1>2, BufferAssumption DEF Init, WellFormed, Readable
<1>4. \A i \in 1..0 : buffer.mem[buffer.reader + i] = <<>>[i]
  OBVIOUS
<1>5. Content(buffer) = <<>>
  BY <1>1, <1>3, <1>4, ContentIs
<1> QED
  BY <1>1, <1>3, <1>5 DEF Init, TypeOK, Queue!Init

LEMMA StepFacts ==
  ASSUME TypeOK, [Next]_vars
  PROVE  TypeOK' /\ [Queue!Next]_<<Content(buffer), result>>
<1> DEFINE c == Content(buffer)
<1>1. /\ WellFormed(buffer) /\ result \in Seq(Bytes)
      /\ c \in Seq(Bytes) /\ Len(c) = Readable(buffer) /\ Readable(buffer) \in Nat
  BY ContentFacts DEF TypeOK
<1>2. ASSUME NEW data \in Inputs, WellFormed(buffer'), c' = c \o data, result' = result
      PROVE  TypeOK' /\ Queue!Next
  BY <1>1, <1>2 DEF TypeOK, WellFormed, Queue!Next, Queue!Put
<1>3. ASSUME NEW data \in Inputs, AppendBytes(data)
      PROVE  TypeOK' /\ Queue!Next
  <2>1. data \in Seq(Bytes)
    BY BufferAssumption
  <2>2. WellFormed(buffer') /\ c' = c \o data /\ result' = result
    BY <1>1, <1>3, <2>1, AppendedFacts DEF AppendBytes
  <2> QED
    BY <1>2, <2>2
<1>4. ASSUME NEW data \in Inputs, HasWritten(data)
      PROVE  TypeOK' /\ Queue!Next
  <2>1. data \in Seq(Bytes)
    BY BufferAssumption
  <2>2. WellFormed(buffer') /\ c' = c \o data /\ result' = result
    BY <1>1, <1>4, <2>1, WrittenFacts DEF HasWritten
  <2> QED
    BY <1>2, <2>2
<1>5. ASSUME NEW data \in Inputs, ReadFd(data)
      PROVE  TypeOK' /\ Queue!Next
  <2>1. data \in Seq(Bytes)
    BY BufferAssumption
  <2>2. WellFormed(buffer') /\ c' = c \o data /\ result' = result
    BY <1>1, <1>5, <2>1, FilledFacts DEF ReadFd
  <2> QED
    BY <1>2, <2>2
<1>6. ASSUME NEW data \in Inputs, PrependBytes(data)
      PROVE  TypeOK' /\ Queue!Next
  <2>1. data \in Seq(Bytes)
    BY BufferAssumption
  <2>2. WellFormed(buffer') /\ c' = data \o c /\ result' = result
    BY <1>1, <1>6, <2>1, PrependedFacts DEF PrependBytes
  <2> QED
    BY <1>1, <2>2 DEF TypeOK, Queue!Next, Queue!PutFront
<1>7. ASSUME NEW len \in 0..MaxReadable, Retrieve(len)
      PROVE  TypeOK' /\ Queue!Next
  <2>1. len \in Nat /\ len <= Readable(buffer) /\ len \in 0..Len(c)
    BY <1>1, <1>7, BufferAssumption DEF Retrieve
  <2>2. WellFormed(buffer') /\ c' = SubSeq(c, len + 1, Len(c)) /\ result' = result
    BY <1>1, <1>7, <2>1, RetrievedFacts DEF Retrieve
  <2> QED
    BY <1>1, <2>1, <2>2 DEF TypeOK, Queue!Next, Queue!Drop
<1>8. ASSUME NEW len \in 0..MaxReadable, RetrieveAsString(len)
      PROVE  TypeOK' /\ Queue!Next
  <2>1. len \in Nat /\ len <= Readable(buffer) /\ len \in 0..Len(c)
    BY <1>1, <1>8, BufferAssumption DEF RetrieveAsString
  <2>2. WellFormed(buffer') /\ c' = SubSeq(c, len + 1, Len(c))
    BY <1>1, <1>8, <2>1, RetrievedFacts DEF RetrieveAsString
  <2>3. result' = SubSeq(c, 1, len)
    BY <1>8 DEF RetrieveAsString
  <2>4. result' \in Seq(Bytes)
    <3>1. \A i \in 1..len : c[i] \in Bytes
      BY <1>1, <2>1, ElementOfSeq
    <3> QED
      BY <2>1, <2>3, <3>1, SubSeqProperties
  <2> QED
    BY <2>1, <2>2, <2>3, <2>4 DEF TypeOK, Queue!Next, Queue!Take
<1>9. ASSUME NEW len \in 0..MaxReadable, Unwrite(len)
      PROVE  TypeOK' /\ Queue!Next
  <2>1. len \in Nat /\ len <= Readable(buffer) /\ len \in 0..Len(c)
    BY <1>1, <1>9, BufferAssumption DEF Unwrite
  <2>2. WellFormed(buffer') /\ c' = SubSeq(c, 1, Len(c) - len) /\ result' = result
    BY <1>1, <1>9, <2>1, UnwrittenFacts DEF Unwrite
  <2> QED
    BY <1>1, <2>1, <2>2 DEF TypeOK, Queue!Next, Queue!Unput
<1>10. ASSUME NEW reserve \in Reserves, Shrink(reserve)
       PROVE  TypeOK' /\ UNCHANGED <<c, result>>
  <2>1. reserve \in Nat
    BY BufferAssumption
  <2> QED
    BY <1>1, <1>10, <2>1, ShrunkFacts DEF Shrink, TypeOK
<1>11. CASE UNCHANGED vars
  BY <1>1, <1>11 DEF vars, TypeOK, WellFormed, Content, Readable
<1> QED
  BY <1>3, <1>4, <1>5, <1>6, <1>7, <1>8, <1>9, <1>10, <1>11 DEF Next

\* The indices of a Buffer never leave its vector, whatever is appended, read
\* from a socket, retrieved, prepended or shrunk within the callers' duties.
THEOREM IndicesStayInside == Spec => []TypeOK
BY InitFacts, StepFacts, PTL DEF Spec

\* A Buffer is a queue of bytes: moving, growing, shrinking and the spill of
\* readFd lose, repeat and reorder nothing.
THEOREM ImplementsByteQueue == Spec => RefinesByteQueue
<1>1. TypeOK /\ [Next]_vars => [Queue!Next]_<<Content(buffer), result>>
  BY StepFacts
<1> QED
  BY InitFacts, IndicesStayInside, <1>1, PTL DEF Spec, RefinesByteQueue, Queue!Spec
=============================================================================
