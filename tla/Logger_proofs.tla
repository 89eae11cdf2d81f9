--------------------------- MODULE Logger_proofs ---------------------------
(***************************************************************************)
(* Proofs about Logger, its AsyncLogger and its LogStream, for any number  *)
(* of threads, buffers and records, and for any lines.                     *)
(*   - BufferInv: where the buffers are while they change hands between    *)
(*     the appenders and the logging thread.                               *)
(*   - TextInv: what they hold, wherever they are, is one log.             *)
(*   - LinesReadBack: what the stream writes for a line reads as the line. *)
(*   - Begun and Latched: the start of the logger, and its types.          *)
(***************************************************************************)
EXTENDS Logger, SequenceTheorems, FiniteSetTheorems, WellFoundedInduction, TLAPS

(***************************************************************************)
(* The invariant.  The thread holds a batch from the exchange to the end   *)
(* of the refill; outside of that it has its two spares.  A batch has as   *)
(* many buffers as spares were given away, since nextBuffer_ is only empty *)
(* when a full buffer is queued.                                           *)
(***************************************************************************)
HasBatch(place_) == place_ \in {"trim", "write", "refill"}

Shape ==
  /\ currentBuffer \in Buffers
  /\ nextBuffer \in Pointers /\ newBuffer1 \in Pointers /\ newBuffer2 \in Pointers
  /\ buffers \in Seq(Buffers) /\ bufferToWrite \in Seq(Buffers)
  /\ text = [b \in Buffers |-> text[b]]
  /\ tpc \in ThreadLocations

Supply ==
  /\ nextBuffer = None => buffers # <<>>
  /\ tpc = "asleep" => buffers = <<>>
  /\ ~HasBatch(tpc) =>
       bufferToWrite = <<>> /\ newBuffer1 # None /\ newBuffer2 # None
  /\ HasBatch(tpc) =>
       Len(bufferToWrite) >= 1 /\ (newBuffer2 = None => Len(bufferToWrite) >= 2)

Apart ==
  /\ IsInjective(buffers) /\ IsInjective(bufferToWrite)
  /\ ToSet(buffers) \cap ToSet(bufferToWrite) = {}
  /\ currentBuffer \notin ToSet(buffers) \cup ToSet(bufferToWrite)
  /\ Spares \cap ({currentBuffer} \cup ToSet(buffers) \cup ToSet(bufferToWrite)) = {}
  /\ newBuffer1 # None => newBuffer1 \notin {newBuffer2, nextBuffer}
  /\ newBuffer2 # None => newBuffer2 # nextBuffer
  /\ \A b \in Spares : text[b] = <<>>

BufferInv == Shape /\ Supply /\ Apart

(***************************************************************************)
(* Sequences of buffers.                                                   *)
(***************************************************************************)
LEMMA NoneIsNoBuffer == None \notin Buffers
BY BuffersAssumption

LEMMA EmptyFacts ==
  <<>> \in Seq(Buffers) /\ Len(<<>>) = 0 /\ ToSet(<<>>) = {} /\ IsInjective(<<>>)
BY DEF ToSet, IsInjective

LEMMA AppendFacts ==
  ASSUME NEW s \in Seq(Buffers), IsInjective(s), NEW b \in Buffers, b \notin ToSet(s)
  PROVE  /\ Append(s, b) \in Seq(Buffers) /\ Len(Append(s, b)) = Len(s) + 1
         /\ Append(s, b) # <<>>
         /\ IsInjective(Append(s, b)) /\ ToSet(Append(s, b)) = ToSet(s) \cup {b}
<1>1. /\ Append(s, b) \in Seq(Buffers) /\ Len(Append(s, b)) = Len(s) + 1
      /\ Len(s) \in Nat /\ DOMAIN s = 1..Len(s)
      /\ DOMAIN Append(s, b) = 1..(Len(s) + 1)
      /\ \A i \in 1..Len(s) : Append(s, b)[i] = s[i]
      /\ Append(s, b)[Len(s) + 1] = b
  OBVIOUS
<1> DEFINE t == Append(s, b)
<1> HIDE DEF t
<1>2. \A i \in 1..(Len(s) + 1) : i \in 1..Len(s) \/ i = Len(s) + 1
  BY <1>1
<1>3. IsInjective(t)
  BY <1>1, <1>2 DEF IsInjective, ToSet, t
<1>4. ToSet(t) = ToSet(s) \cup {b}
  <2>1. ToSet(t) \subseteq ToSet(s) \cup {b}
    BY <1>1, <1>2 DEF ToSet, t
  <2>2. ToSet(s) \subseteq ToSet(t)
    <3> SUFFICES ASSUME NEW i \in 1..Len(s) PROVE s[i] \in ToSet(t)
      BY <1>1 DEF ToSet
    <3>1. t[i] = s[i] /\ i \in DOMAIN t
      BY <1>1 DEF t
    <3> QED
      BY <3>1 DEF ToSet
  <2>3. b \in ToSet(t)
    <3>1. Len(s) + 1 \in DOMAIN t /\ t[Len(s) + 1] = b
      BY <1>1 DEF t
    <3> QED
      BY <3>1 DEF ToSet
  <2> QED
    BY <2>1, <2>2, <2>3
<1> QED
  BY <1>1, <1>3, <1>4 DEF t

LEMMA PrefixFacts ==
  ASSUME NEW s \in Seq(Buffers), IsInjective(s), NEW n \in 0..Len(s)
  PROVE  /\ SubSeq(s, 1, n) \in Seq(Buffers) /\ Len(SubSeq(s, 1, n)) = n
         /\ \A i \in 1..n : SubSeq(s, 1, n)[i] = s[i]
         /\ IsInjective(SubSeq(s, 1, n)) /\ ToSet(SubSeq(s, 1, n)) \subseteq ToSet(s)
<1>1. \A i \in 1..n : s[i] \in Buffers /\ i \in DOMAIN s
  OBVIOUS
<1>2. /\ SubSeq(s, 1, n) \in Seq(Buffers) /\ Len(SubSeq(s, 1, n)) = n
      /\ \A i \in 1..n : SubSeq(s, 1, n)[i] = s[i]
  BY <1>1, SubSeqProperties
<1>3. DOMAIN SubSeq(s, 1, n) = 1..n
  BY <1>2
<1>4. IsInjective(SubSeq(s, 1, n))
  BY <1>1, <1>2, <1>3 DEF IsInjective
<1>5. ToSet(SubSeq(s, 1, n)) \subseteq ToSet(s)
  BY <1>1, <1>2, <1>3 DEF ToSet
<1> QED
  BY <1>2, <1>4, <1>5

LEMMA ConcatFacts ==
  ASSUME NEW s \in Seq(Buffers), NEW t \in Seq(Buffers),
         IsInjective(s), IsInjective(t), ToSet(s) \cap ToSet(t) = {}
  PROVE  /\ s \o t \in Seq(Buffers) /\ IsInjective(s \o t)
         /\ ToSet(s \o t) \subseteq ToSet(s) \cup ToSet(t)
<1>1. /\ s \o t \in Seq(Buffers) /\ Len(s \o t) = Len(s) + Len(t)
      /\ \A i \in 1..Len(s) + Len(t) :
           (s \o t)[i] = IF i <= Len(s) THEN s[i] ELSE t[i - Len(s)]
  BY ConcatProperties
<1>2. /\ DOMAIN (s \o t) = 1..Len(s) + Len(t) /\ DOMAIN s = 1..Len(s)
      /\ DOMAIN t = 1..Len(t) /\ Len(s) \in Nat /\ Len(t) \in Nat
  BY <1>1
<1> DEFINE u == s \o t
<1> HIDE DEF u
<1>3. ASSUME NEW i \in DOMAIN u
      PROVE  \/ i \in DOMAIN s /\ u[i] = s[i] /\ u[i] \in ToSet(s)
             \/ i - Len(s) \in DOMAIN t /\ u[i] = t[i - Len(s)] /\ u[i] \in ToSet(t)
  <2>1. CASE i <= Len(s)
    BY <1>1, <1>2, <1>3, <2>1 DEF ToSet, u
  <2>2. CASE ~(i <= Len(s))
    <3>1. i - Len(s) \in DOMAIN t /\ u[i] = t[i - Len(s)]
      BY <1>1, <1>2, <1>3, <2>2 DEF u
    <3> QED
      BY <3>1 DEF ToSet
  <2> QED
    BY <2>1, <2>2
<1>4. IsInjective(u)
  <2> SUFFICES ASSUME NEW i \in DOMAIN u, NEW j \in DOMAIN u, u[i] = u[j] PROVE i = j
    BY DEF IsInjective
  <2>1. i \in Int /\ j \in Int
    BY <1>2 DEF u
  <2>2. \/ i \in DOMAIN s /\ j \in DOMAIN s /\ s[i] = s[j]
        \/ /\ i - Len(s) \in DOMAIN t /\ j - Len(s) \in DOMAIN t
           /\ t[i - Len(s)] = t[j - Len(s)]
    BY <1>3
  <2>3. i = j \/ i - Len(s) = j - Len(s)
    BY <2>2 DEF IsInjective
  <2> QED
    BY <1>2, <2>1, <2>3
<1>5. ToSet(u) \subseteq ToSet(s) \cup ToSet(t)
  <2> SUFFICES ASSUME NEW i \in DOMAIN u PROVE u[i] \in ToSet(s) \cup ToSet(t)
    BY DEF ToSet
  <2> QED
    BY <1>3
<1> QED
  BY <1>1, <1>4, <1>5 DEF u

(***************************************************************************)
(* Initial states, and the steps that move no buffer.                      *)
(***************************************************************************)
LEMMA BuffersInit == InitLogger => BufferInv
<1> SUFFICES ASSUME InitLogger PROVE BufferInv
  OBVIOUS
<1>1. /\ Four \in [1..4 -> Buffers] /\ IsInjective(Four)
  BY BuffersAssumption DEF Four
<1>2. /\ Four[1] \in Buffers /\ Four[2] \in Buffers
      /\ Four[3] \in Buffers /\ Four[4] \in Buffers
      /\ Four[1] # Four[2] /\ Four[1] # Four[3] /\ Four[1] # Four[4]
      /\ Four[2] # Four[3] /\ Four[2] # Four[4] /\ Four[3] # Four[4]
  BY <1>1 DEF IsInjective
<1>3. /\ currentBuffer = Four[1] /\ nextBuffer = Four[2]
      /\ newBuffer1 = Four[3] /\ newBuffer2 = Four[4]
      /\ buffers = <<>> /\ bufferToWrite = <<>> /\ tpc = "none"
      /\ text = [b \in Buffers |-> <<>>]
  BY DEF InitLogger, Init
<1>4. Shape
  BY <1>2, <1>3, EmptyFacts DEF Shape, Pointers, ThreadLocations
<1>5. Supply
  BY <1>2, <1>3, NoneIsNoBuffer DEF Supply, HasBatch
<1>6. Apart
  BY <1>2, <1>3, EmptyFacts DEF Apart, Spares
<1> QED
  BY <1>4, <1>5, <1>6 DEF BufferInv

bufferVars == <<currentBuffer, nextBuffer, buffers, newBuffer1, newBuffer2,
                bufferToWrite, text>>

LEMMA BuffersStay ==
  ASSUME BufferInv, UNCHANGED bufferVars, tpc' \in ThreadLocations,
         HasBatch(tpc') <=> HasBatch(tpc), tpc' = "asleep" => buffers = <<>>
  PROVE  BufferInv'
<1>1. Shape'
  BY DEF BufferInv, Shape, bufferVars
<1>2. Supply'
  BY DEF BufferInv, Supply, bufferVars, HasBatch
<1>3. Apart'
  BY DEF BufferInv, Apart, Spares, bufferVars
<1> QED
  BY <1>1, <1>2, <1>3 DEF BufferInv

(***************************************************************************)
(* Appending.                                                              *)
(***************************************************************************)
LEMMA FitsStep ==
  ASSUME BufferInv, NEW r, AppendFits(r), UNCHANGED threadVars
  PROVE  BufferInv'
<1>1. /\ UNCHANGED <<currentBuffer, nextBuffer, buffers, newBuffer1, newBuffer2,
                     bufferToWrite, tpc>>
      /\ text' = [text EXCEPT ![currentBuffer] = Put(currentBuffer, r)]
  BY DEF AppendFits, threadVars
<1>2. Shape'
  BY <1>1 DEF BufferInv, Shape
<1>3. Supply'
  BY <1>1 DEF BufferInv, Supply, HasBatch
<1>4. \A b \in Spares : b \in Buffers /\ b # currentBuffer
  BY DEF BufferInv, Apart, Shape, Spares, Pointers
<1>5. Apart'
  BY <1>1, <1>4 DEF BufferInv, Apart, Shape, Spares
<1> QED
  BY <1>2, <1>3, <1>5 DEF BufferInv

\* The buffer that takes a record for which there was no room is no one's.
LEMMA ReplacementFacts ==
  ASSUME BufferInv, nextBuffer = None => Free # {}
  PROVE  LET b == Replacement
         IN  /\ b \in Buffers /\ b # currentBuffer /\ b # newBuffer1 /\ b # newBuffer2
             /\ b \notin ToSet(buffers) \cup ToSet(bufferToWrite)
<1> DEFINE b == Replacement
<1>1. CASE nextBuffer # None
  <2>1. b = nextBuffer /\ b \in Buffers /\ b \in Spares
    BY <1>1 DEF Replacement, BufferInv, Shape, Pointers, Spares
  <2> QED
    BY <2>1, <1>1, NoneIsNoBuffer DEF BufferInv, Apart
<1>2. CASE nextBuffer = None
  <2>1. b \in Free
    BY <1>2 DEF Replacement, Fresh
  <2> QED
    BY <2>1 DEF Free, Owned
<1> QED
  BY <1>1, <1>2

LEMMA FullStep ==
  ASSUME BufferInv, NEW r, AppendFull(r), UNCHANGED threadVars
  PROVE  BufferInv'
<1> DEFINE b == Replacement
<1>1. /\ buffers' = Append(buffers, currentBuffer)
      /\ currentBuffer' = b /\ nextBuffer' = None
      /\ text' = [text EXCEPT ![b] = Put(b, r)]
      /\ tpc' = Notified /\ UNCHANGED <<newBuffer1, newBuffer2, bufferToWrite>>
  BY DEF AppendFull, threadVars
<1>2. /\ b \in Buffers /\ b # currentBuffer /\ b # newBuffer1 /\ b # newBuffer2
      /\ b \notin ToSet(buffers) \cup ToSet(bufferToWrite)
  BY ReplacementFacts DEF AppendFull
<1> HIDE DEF b
<1>3. /\ buffers' \in Seq(Buffers) /\ buffers' # <<>> /\ IsInjective(buffers')
      /\ ToSet(buffers') = ToSet(buffers) \cup {currentBuffer}
  BY <1>1, AppendFacts DEF BufferInv, Shape, Apart
<1>4. /\ tpc' \in ThreadLocations /\ tpc' # "asleep" /\ (HasBatch(tpc') <=> HasBatch(tpc))
  BY <1>1 DEF Notified, BufferInv, Shape, ThreadLocations, HasBatch
<1>5. Shape'
  BY <1>1, <1>2, <1>3, <1>4 DEF BufferInv, Shape, Pointers
<1>6. Supply'
  BY <1>1, <1>3, <1>4 DEF BufferInv, Supply
<1>7. Spares' = {newBuffer1, newBuffer2} \ {None}
  BY <1>1 DEF Spares
<1>8. Apart'
  <2>1. \A c \in Spares' : c \in Spares /\ c # b /\ c \in Buffers /\ c # currentBuffer
    BY <1>2, <1>7 DEF Spares, BufferInv, Shape, Pointers, Apart
  <2>2. \A c \in Spares' : text'[c] = <<>>
    BY <1>1, <2>1 DEF BufferInv, Apart, Shape
  <2>3. Spares' \cap ({currentBuffer'} \cup ToSet(buffers') \cup ToSet(bufferToWrite')) = {}
    BY <1>1, <1>3, <2>1 DEF BufferInv, Apart
  <2> QED
    BY <1>1, <1>2, <1>3, <2>2, <2>3 DEF BufferInv, Apart
<1> QED
  BY <1>5, <1>6, <1>8 DEF BufferInv

(***************************************************************************)
(* The thread: exchange, trim and refill.                                  *)
(***************************************************************************)
LEMMA SwapStep ==
  ASSUME BufferInv, Swap
  PROVE  BufferInv'
<1>1. /\ tpc' = "trim" /\ ~HasBatch(tpc) /\ UNCHANGED text
      /\ bufferToWrite' = Append(buffers, currentBuffer) /\ buffers' = bufferToWrite
      /\ currentBuffer' = newBuffer1 /\ newBuffer1' = None
      /\ IF nextBuffer = None THEN nextBuffer' = newBuffer2 /\ newBuffer2' = None
                              ELSE UNCHANGED <<nextBuffer, newBuffer2>>
  BY DEF Swap, Exchange, HasBatch
<1>2. /\ bufferToWrite = <<>>
      /\ newBuffer1 \in Buffers /\ newBuffer2 \in Buffers
      /\ newBuffer1 # None /\ newBuffer2 # None
  BY <1>1 DEF BufferInv, Supply, Shape, Pointers
<1>3. /\ bufferToWrite' \in Seq(Buffers) /\ Len(bufferToWrite') = Len(buffers) + 1
      /\ IsInjective(bufferToWrite')
      /\ ToSet(bufferToWrite') = ToSet(buffers) \cup {currentBuffer}
  BY <1>1, AppendFacts DEF BufferInv, Shape, Apart
<1>4. buffers' = <<>> /\ ToSet(buffers') = {} /\ IsInjective(buffers') /\ buffers' \in Seq(Buffers)
  BY <1>1, <1>2, EmptyFacts
<1>5. Shape'
  BY <1>1, <1>2, <1>3, <1>4 DEF BufferInv, Shape, Pointers, ThreadLocations
<1>6. Supply'
  <2>1. Len(buffers) \in Nat /\ (nextBuffer = None => Len(buffers) >= 1)
    BY EmptySeq DEF BufferInv, Shape, Supply
  <2>2. newBuffer2' = None <=> nextBuffer = None
    BY <1>1, <1>2
  <2>3. nextBuffer' # None
    BY <1>1, <1>2
  <2> QED
    BY <1>1, <1>3, <2>1, <2>2, <2>3 DEF Supply, HasBatch
<1>7. \A c \in Spares' : c \in Spares /\ c # newBuffer1
  BY <1>1, <1>2 DEF Spares, BufferInv, Apart
<1>8. Apart'
  <2>1. currentBuffer' \notin ToSet(buffers') \cup ToSet(bufferToWrite')
    BY <1>1, <1>2, <1>3, <1>4 DEF BufferInv, Apart, Spares
  <2>2. Spares' \cap ({currentBuffer'} \cup ToSet(buffers') \cup ToSet(bufferToWrite')) = {}
    BY <1>1, <1>3, <1>4, <1>7 DEF BufferInv, Apart
  <2>3. newBuffer2' # None => newBuffer2' # nextBuffer'
    BY <1>1, <1>2 DEF BufferInv, Apart
  <2>4. \A c \in Spares' : text'[c] = <<>>
    BY <1>1, <1>7 DEF BufferInv, Apart
  <2> QED
    BY <1>1, <1>3, <1>4, <2>1, <2>2, <2>3, <2>4 DEF Apart
<1> QED
  BY <1>5, <1>6, <1>8 DEF BufferInv

LEMMA TrimStep ==
  ASSUME BufferInv, Trim
  PROVE  BufferInv'
<1>1. /\ HasBatch(tpc) /\ tpc' = "write" /\ bufferToWrite' = Kept
      /\ text' = Emptied(ToSet(bufferToWrite) \ ToSet(Kept))
      /\ UNCHANGED <<currentBuffer, nextBuffer, buffers, newBuffer1, newBuffer2>>
  BY DEF Trim, HasBatch, appenderVars
<1>2. /\ Kept \in Seq(Buffers) /\ IsInjective(Kept)
      /\ ToSet(Kept) \subseteq ToSet(bufferToWrite)
      /\ Len(Kept) = Len(bufferToWrite) \/ Len(Kept) = 2
  <2>1. CASE Len(bufferToWrite) > MaxBuffers
    <3>1. 2 \in 0..Len(bufferToWrite) /\ Kept = SubSeq(bufferToWrite, 1, 2)
      BY <2>1, LimitAssumption DEF Kept, BufferInv, Shape
    <3> QED
      BY <3>1, PrefixFacts DEF BufferInv, Shape, Apart
  <2>2. CASE ~(Len(bufferToWrite) > MaxBuffers)
    BY <2>2 DEF Kept, BufferInv, Shape, Apart
  <2> QED
    BY <2>1, <2>2
<1>3. Shape'
  BY <1>1, <1>2 DEF BufferInv, Shape, Emptied, ThreadLocations
<1>4. Supply'
  <2>1. Len(bufferToWrite') >= 1 /\ (newBuffer2 = None => Len(bufferToWrite') >= 2)
    BY <1>1, <1>2 DEF BufferInv, Supply
  <2> QED
    BY <1>1, <2>1 DEF BufferInv, Supply, HasBatch
<1>5. \A c \in Spares : c \in Buffers /\ text'[c] = <<>>
  BY <1>1 DEF BufferInv, Apart, Shape, Spares, Pointers, Emptied
<1>6. Apart'
  BY <1>1, <1>2, <1>5 DEF BufferInv, Apart, Spares
<1> QED
  BY <1>3, <1>4, <1>6 DEF BufferInv

\* What comes back: one buffer, or two different ones if both spares are gone.
LEMMA RecycledFacts ==
  ASSUME BufferInv, HasBatch(tpc)
  PROVE  /\ Len(Recycled) >= Missing
         /\ Recycled \in Seq(Buffers) /\ Len(Recycled) \in 1..2
         /\ Last(Recycled) \in ToSet(bufferToWrite)
         /\ newBuffer2 = None =>
              /\ Last(Front(Recycled)) \in ToSet(bufferToWrite)
              /\ Last(Front(Recycled)) # Last(Recycled)
<1> DEFINE n == IF Len(bufferToWrite) > 2 THEN 2 ELSE Len(bufferToWrite)
<1>1. /\ bufferToWrite \in Seq(Buffers) /\ IsInjective(bufferToWrite)
      /\ Len(bufferToWrite) \in Nat /\ Len(bufferToWrite) >= 1
      /\ newBuffer2 = None => Len(bufferToWrite) >= 2
  BY DEF BufferInv, Shape, Supply, Apart
<1>2. n \in 1..2 /\ n \in 0..Len(bufferToWrite) /\ Recycled = SubSeq(bufferToWrite, 1, n)
  <2>1. Recycled = SubSeq(bufferToWrite, 1, n)
    BY DEF Recycled
  <2>2. \A k \in Nat : k >= 1 =>
          LET m == IF k > 2 THEN 2 ELSE k IN m \in 1..2 /\ m \in 0..k
    OBVIOUS
  <2>3. n \in 1..2 /\ n \in 0..Len(bufferToWrite)
    BY <1>1, <2>2
  <2> QED
    BY <2>1, <2>3
<1> HIDE DEF n
<1>3. /\ Recycled \in Seq(Buffers) /\ Len(Recycled) = n
      /\ \A i \in 1..n : Recycled[i] = bufferToWrite[i]
      /\ IsInjective(Recycled) /\ ToSet(Recycled) \subseteq ToSet(bufferToWrite)
  BY <1>1, <1>2, PrefixFacts
<1>4. \A i \in 1..n : Recycled[i] \in ToSet(bufferToWrite)
  BY <1>2, <1>3 DEF ToSet
<1>5. newBuffer2 = None => n = 2
  BY <1>1, <1>2 DEF n
<1>6. Len(Recycled) >= Missing
  BY <1>2, <1>3, <1>5 DEF Missing
<1>7. Last(Recycled) = Recycled[n]
  BY <1>3 DEF Last
<1>8. n = 2 => Last(Front(Recycled)) = Recycled[1]
  <2> SUFFICES ASSUME n = 2 PROVE Last(Front(Recycled)) = Recycled[1]
    OBVIOUS
  <2>1. Front(Recycled) = SubSeq(Recycled, 1, 1)
    BY <1>3 DEF Front
  <2>2. 1 \in 0..Len(Recycled)
    BY <1>3
  <2>3. /\ Len(SubSeq(Recycled, 1, 1)) = 1
        /\ \A i \in 1..1 : SubSeq(Recycled, 1, 1)[i] = Recycled[i]
    BY <1>3, <2>2, PrefixFacts
  <2> QED
    BY <2>1, <2>3 DEF Last
<1>9. n = 2 => Recycled[1] # Recycled[2]
  BY <1>3 DEF IsInjective
<1> QED
  BY <1>2, <1>3, <1>4, <1>5, <1>6, <1>7, <1>8, <1>9

LEMMA RefillStep ==
  ASSUME BufferInv, Refill
  PROVE  BufferInv'
<1>1. HasBatch(tpc) /\ tpc' = "flush" /\ ~HasBatch(tpc')
  BY DEF Refill, HasBatch
<1>2. /\ bufferToWrite' = <<>> /\ text' = Emptied(ToSet(bufferToWrite))
      /\ UNCHANGED <<currentBuffer, nextBuffer, buffers>>
  BY DEF Refill, appenderVars
<1>3. \E x \in ToSet(bufferToWrite), y \in ToSet(bufferToWrite) :
        /\ newBuffer1' = IF newBuffer1 = None THEN x ELSE newBuffer1
        /\ newBuffer2' = IF newBuffer2 = None THEN y ELSE newBuffer2
        /\ newBuffer1 = None /\ newBuffer2 = None => x # y
  <2>1. CASE newBuffer1 = None
    <3>1. /\ newBuffer1' = Last(Recycled)
          /\ newBuffer2' = IF newBuffer2 = None THEN Last(Front(Recycled)) ELSE newBuffer2
      BY <2>1 DEF Refill
    <3> QED
      BY <1>1, <2>1, <3>1, RecycledFacts
  <2>2. CASE newBuffer1 # None
    <3>1. /\ newBuffer1' = newBuffer1
          /\ newBuffer2' = IF newBuffer2 = None THEN Last(Recycled) ELSE newBuffer2
      BY <2>2 DEF Refill
    <3> QED
      BY <1>1, <2>2, <3>1, RecycledFacts
  <2> QED
    BY <2>1, <2>2
<1>4. ToSet(bufferToWrite) \subseteq Buffers
  BY DEF ToSet, BufferInv, Shape
<1>5. /\ newBuffer1' \in Buffers /\ newBuffer2' \in Buffers /\ newBuffer1' # newBuffer2'
      /\ newBuffer1' # None /\ newBuffer2' # None
      /\ {newBuffer1', newBuffer2'} \subseteq ToSet(bufferToWrite) \cup Spares
      /\ nextBuffer # None => nextBuffer \notin {newBuffer1', newBuffer2'}
  BY <1>3, <1>4, NoneIsNoBuffer DEF BufferInv, Shape, Pointers, Apart, Spares
<1>6. Shape'
  BY <1>1, <1>2, <1>5, EmptyFacts DEF BufferInv, Shape, Pointers, Emptied, ThreadLocations
<1>7. Supply'
  BY <1>1, <1>2, <1>5 DEF BufferInv, Supply
<1>8. Apart'
  <2>1. \A c \in Spares' : c \in ToSet(bufferToWrite) \cup Spares /\ c \in Buffers
    BY <1>2, <1>5 DEF Spares, BufferInv, Shape, Pointers
  <2>2. \A c \in Spares' : text'[c] = <<>>
    BY <1>2, <2>1 DEF Emptied, BufferInv, Apart
  <2>3. Spares' \cap ({currentBuffer'} \cup ToSet(buffers') \cup ToSet(bufferToWrite')) = {}
    BY <1>2, <2>1, EmptyFacts DEF BufferInv, Apart
  <2> QED
    BY <1>2, <1>5, <2>2, <2>3, EmptyFacts DEF BufferInv, Apart
<1> QED
  BY <1>6, <1>7, <1>8 DEF BufferInv

(***************************************************************************)
(* All steps.                                                              *)
(***************************************************************************)
LEMMA ThreadKeepsBuffers == BufferInv /\ ThreadStep => BufferInv'
<1> SUFFICES ASSUME BufferInv, ThreadStep PROVE BufferInv'
  OBVIOUS
<1>1. CASE CountDown \/ Test \/ Sleep \/ TimeoutOrSpurious
  BY <1>1, BuffersStay
  DEF CountDown, Test, Sleep, TimeoutOrSpurious, appenderVars, threadVars, bufferVars,
      HasBatch, ThreadLocations
<1>2. CASE WriteBuffer \/ EndWrite \/ Flush
  BY <1>2, BuffersStay
  DEF WriteBuffer, EndWrite, Flush, appenderVars, threadVars, bufferVars,
      HasBatch, ThreadLocations
<1> QED
  BY <1>1, <1>2, SwapStep, TrimStep, RefillStep DEF ThreadStep

\* start() creates the thread once: it finds none that could hold a batch.
NotCreated == opc = "new" => tpc = "none"

LEMMA CreatedOnce == Spec => []NotCreated
<1>1. InitLogger => NotCreated
  BY DEF InitLogger, Init, NotCreated
<1>2. NotCreated /\ [Next]_allVars => NotCreated'
  <2> SUFFICES ASSUME NotCreated, [Next]_allVars PROVE NotCreated'
    OBVIOUS
  <2>1. CASE \E th \in Threads : Log(th) \/ Once(th)
    BY <2>1 DEF NotCreated, Log, Once, Start, vars
  <2>2. CASE \E th \in Threads : OnceInit(th) \/ Output(th)
    BY <2>2 DEF NotCreated, OnceInit, LatchWait, Output, AppendRecord, AppendFits, AppendFull,
                Notified
  <2>3. CASE LogExit \/ Spurious
    BY <2>3 DEF NotCreated, LogExit, Stop, Notify, Join, Spurious, LatchSpurious
  <2>4. CASE ThreadFun
    BY <2>4 DEF NotCreated, ThreadFun, ThreadStep, CountDown, Test, Sleep, TimeoutOrSpurious,
                Swap, Trim, WriteBuffer, EndWrite, Refill, Flush
  <2>5. CASE UNCHANGED allVars
    BY <2>5 DEF NotCreated, allVars, vars
  <2> QED
    BY <2>1, <2>2, <2>3, <2>4, <2>5 DEF Next, CallerStep
<1> QED
  BY <1>1, <1>2, PTL DEF Spec

LEMMA BuffersStep == BufferInv /\ NotCreated /\ [Next]_allVars => BufferInv'
<1> SUFFICES ASSUME BufferInv, NotCreated, [Next]_allVars PROVE BufferInv'
  OBVIOUS
<1>1. ASSUME NEW th \in Threads, Log(th) PROVE BufferInv'
  BY <1>1, BuffersStay
  DEF Log, vars, appenderVars, threadVars, bufferVars, BufferInv, Shape, Supply
<1>2. ASSUME NEW th \in Threads, Once(th) PROVE BufferInv'
  <2>1. CASE Start
    <3>1. /\ UNCHANGED bufferVars /\ tpc = "none"
          /\ tpc' \in {"spawned", "failed"}
      BY <2>1 DEF Start, CreateThread, NotCreated, appenderVars, threadVars, bufferVars
    <3> QED
      BY <3>1, BuffersStay DEF HasBatch, ThreadLocations
  <2>2. CASE UNCHANGED vars
    BY <2>2, BuffersStay
    DEF vars, appenderVars, threadVars, bufferVars, BufferInv, Shape, Supply
  <2> QED
    BY <1>2, <2>1, <2>2 DEF Once
<1>3. ASSUME NEW th \in Threads, OnceInit(th) PROVE BufferInv'
  BY <1>3, BuffersStay
  DEF OnceInit, LatchWait, appenderVars, threadVars, bufferVars, BufferInv, Shape, Supply
<1>4. ASSUME NEW th \in Threads, Output(th) PROVE BufferInv'
  BY <1>4, FitsStep, FullStep DEF Output, AppendRecord
<1>5. CASE LogExit
  BY <1>5, BuffersStay
  DEF LogExit, Stop, Notify, Join, Notified, appenderVars, threadVars, bufferVars,
      HasBatch, ThreadLocations, BufferInv, Shape, Supply
<1>6. CASE ThreadFun
  BY <1>6, ThreadKeepsBuffers DEF ThreadFun
<1>7. CASE Spurious
  BY <1>7, BuffersStay
  DEF Spurious, LatchSpurious, appenderVars, threadVars, bufferVars, BufferInv, Shape, Supply
<1>8. CASE UNCHANGED allVars
  BY <1>8, BuffersStay
  DEF allVars, vars, appenderVars, threadVars, bufferVars, BufferInv, Shape, Supply
<1> QED
  BY <1>1, <1>2, <1>3, <1>4, <1>5, <1>6, <1>7, <1>8 DEF Next, CallerStep

LEMMA BuffersInvariant == Spec => []BufferInv
BY BuffersInit, BuffersStep, CreatedOnce, PTL DEF Spec

\* threadFun() always finds its two spares before it takes the mutex and enough
\* written buffers to replace them, and never sleeps while a full buffer is
\* queued, whatever the number of buffers, records and threads.
THEOREM SparesAlwaysReturn == Spec => []SparesReturn
<1>1. BufferInv => SparesReturn
  <2> SUFFICES ASSUME BufferInv PROVE SparesReturn
    OBVIOUS
  <2>1. tpc = "refill" => Len(Recycled) >= Missing
    BY RecycledFacts DEF HasBatch
  <2>2. tpc \in {"spawned", "test", "lock", "asleep", "woken"} => Missing = 0
    BY DEF BufferInv, Supply, HasBatch, Missing
  <2>3. tpc = "asleep" => buffers = <<>>
    BY DEF BufferInv, Supply
  <2> QED
    BY <2>1, <2>2, <2>3 DEF SparesReturn
<1> QED
  BY BuffersInvariant, <1>1, PTL

\* A buffer has one owner: appenders never write to one that is queued, being
\* written to the file or kept as a spare, and spares are empty.
THEOREM BuffersHaveOneOwner == Spec => []OneOwner
<1>1. BufferInv => OneOwner
  <2> SUFFICES ASSUME BufferInv PROVE OneOwner
    OBVIOUS
  <2>1. /\ buffers \in Seq(Buffers) /\ bufferToWrite \in Seq(Buffers)
        /\ IsInjective(buffers) /\ IsInjective(bufferToWrite)
        /\ ToSet(buffers) \cap ToSet(bufferToWrite) = {} /\ currentBuffer \in Buffers
        /\ currentBuffer \notin ToSet(buffers) \cup ToSet(bufferToWrite)
    BY DEF BufferInv, Shape, Apart
  <2>2. /\ <<currentBuffer>> \in Seq(Buffers) /\ IsInjective(<<currentBuffer>>)
        /\ ToSet(<<currentBuffer>>) = {currentBuffer}
    BY <2>1 DEF IsInjective, ToSet
  <2> DEFINE u == <<currentBuffer>> \o buffers
  <2>3. /\ u \in Seq(Buffers) /\ IsInjective(u)
        /\ ToSet(u) \subseteq {currentBuffer} \cup ToSet(buffers)
    <3>1. ToSet(<<currentBuffer>>) \cap ToSet(buffers) = {}
      BY <2>1, <2>2
    <3> QED
      BY <2>1, <2>2, <3>1, ConcatFacts
  <2> HIDE DEF u
  <2>4. /\ IsInjective(u \o bufferToWrite)
        /\ ToSet(u \o bufferToWrite)
             \subseteq {currentBuffer} \cup ToSet(buffers) \cup ToSet(bufferToWrite)
    BY <2>1, <2>3, ConcatFacts
  <2>5. /\ Spares \cap ToSet(u \o bufferToWrite) = {}
        /\ newBuffer1 # None => newBuffer1 \notin {newBuffer2, nextBuffer}
        /\ newBuffer2 # None => newBuffer2 # nextBuffer
        /\ \A b \in Spares : text[b] = <<>>
    BY <2>4 DEF BufferInv, Apart
  <2> QED
    BY <2>4, <2>5 DEF OneOwner, u
<1> QED
  BY BuffersInvariant, <1>1, PTL

(***************************************************************************)
(* Sets of numbers and sequences that are put one behind the other.        *)
(***************************************************************************)
LEMMA LeastNat ==
  ASSUME NEW T \in SUBSET Nat, T # {}
  PROVE  \E x \in T : \A y \in T : x <= y
<1> DEFINE R == OpToRel(<, Nat)
<1>1. IsWellFoundedOn(R, Nat)
  BY NatLessThanWellFounded
<1>2. \A x, y \in Nat : <<x, y>> \in R <=> x < y
  BY DEF OpToRel
<1> HIDE DEF R
<1>3. PICK x \in T : \A y \in T : ~(<<y, x>> \in R)
  BY <1>1, WFMin
<1> SUFFICES ASSUME NEW y \in T PROVE x <= y
  BY <1>3
<1>4. x \in Nat /\ y \in Nat /\ ~(y < x)
  BY <1>2, <1>3
<1> QED
  BY <1>4

\* Induction, with a set of numbers for what is to be shown.
LEMMA AllNumbers ==
  ASSUME NEW T, 0 \in T, \A n \in Nat : n \in T => n + 1 \in T
  PROVE  \A n \in Nat : n \in T
<1> SUFFICES ASSUME Nat \ T # {} PROVE FALSE
  OBVIOUS
<1>1. PICK x \in Nat \ T : \A y \in Nat \ T : x <= y
  BY LeastNat
<1>2. x - 1 \in Nat /\ ~(x <= x - 1) /\ x = (x - 1) + 1
  BY <1>1
<1> QED
  BY <1>1, <1>2

\* The function in the definition of FlattenSeq.
IsFlat(ss, f) ==
  f = [i \in 1..Len(ss) |-> IF i = 1 THEN ss[i] ELSE f[i - 1] \o ss[i]]

LEMMA FlatExists ==
  ASSUME NEW S, NEW ss \in Seq(Seq(S))
  PROVE  \E f : IsFlat(ss, f)
<1> DEFINE Upto(n, f) ==
             \A i \in 1..n : f[i] = IF i = 1 THEN ss[i] ELSE f[i - 1] \o ss[i]
           T == {n \in Nat : n <= Len(ss) => \E f \in [1..n -> Seq(S)] : Upto(n, f)}
<1>1. 0 \in T
  <2> DEFINE e == [i \in {} |-> ss[1]]
  <2>1. 1..0 = {}
    OBVIOUS
  <2>2. e \in [1..0 -> Seq(S)]
    BY <2>1
  <2> HIDE DEF e
  <2>3. Upto(0, e)
    BY <2>1
  <2> QED
    BY <2>2, <2>3
<1>2. ASSUME NEW n \in Nat, n \in T PROVE n + 1 \in T
  <2>0. n + 1 \in Nat
    OBVIOUS
  <2> SUFFICES ASSUME n + 1 <= Len(ss)
               PROVE  \E f \in [1..(n + 1) -> Seq(S)] : Upto(n + 1, f)
    BY <2>0, Zenon
  <2>6. n <= Len(ss)
    OBVIOUS
  <2>1. PICK f \in [1..n -> Seq(S)] : Upto(n, f)
    BY <1>2, <2>6, Zenon
  <2>2. Len(ss) \in Nat /\ ss[n + 1] \in Seq(S)
    OBVIOUS
  <2> DEFINE x == IF n + 1 = 1 THEN ss[n + 1] ELSE f[n] \o ss[n + 1]
             g == [i \in 1..(n + 1) |-> IF i = n + 1 THEN x ELSE f[i]]
  <2>3. x \in Seq(S)
    <3>1. CASE n = 0
      BY <2>2, <3>1
    <3>2. CASE n # 0
      <4>1. f[n] \in Seq(S)
        BY <2>1, <3>2
      <4> QED
        BY <2>2, <3>2, <4>1, ConcatProperties
    <3> QED
      BY <3>1, <3>2
  <2> HIDE DEF x
  <2>4. g \in [1..(n + 1) -> Seq(S)]
    BY <2>1, <2>3
  <2>5. Upto(n + 1, g)
    <3> SUFFICES ASSUME NEW i \in 1..(n + 1)
                 PROVE  g[i] = IF i = 1 THEN ss[i] ELSE g[i - 1] \o ss[i]
      OBVIOUS
    <3>1. CASE i = n + 1
      <4>1. i # 1 => i - 1 \in 1..n /\ g[i - 1] = f[n] /\ n + 1 # 1
        BY <3>1
      <4>2. g[i] = x
        BY <3>1
      <4> QED
        BY <3>1, <4>1, <4>2 DEF x
    <3>2. CASE i # n + 1
      <4>1. i \in 1..n /\ g[i] = f[i] /\ (i # 1 => g[i - 1] = f[i - 1])
        BY <3>2
      <4> QED
        BY <2>1, <4>1
    <3> QED
      BY <3>1, <3>2
  <2> QED
    BY <2>4, <2>5
<1>3. \A n \in Nat : n \in T
  <2> HIDE DEF T
  <2> QED
    BY <1>1, <1>2, AllNumbers
<1>4. PICK f \in [1..Len(ss) -> Seq(S)] : Upto(Len(ss), f)
  <2>1. Len(ss) \in Nat /\ Len(ss) <= Len(ss)
    OBVIOUS
  <2> QED
    BY <1>3, <2>1, Zenon
<1>5. f = [i \in 1..Len(ss) |-> IF i = 1 THEN ss[i] ELSE f[i - 1] \o ss[i]]
  BY <1>4
<1> QED
  BY <1>5 DEF IsFlat

\* FlattenSeq computes it.
LEMMA FlatDef ==
  ASSUME NEW S, NEW ss \in Seq(Seq(S))
  PROVE  \E f : IsFlat(ss, f) /\ FlattenSeq(ss) = IF Len(ss) = 0 THEN <<>> ELSE f[Len(ss)]
<1> DEFINE f == CHOOSE flatten : IsFlat(ss, flatten)
<1>1. \E g : IsFlat(ss, g)
  BY FlatExists
<1>2. IsFlat(ss, f)
  BY <1>1, Zenon
<1> HIDE DEF f
<1>3. FlattenSeq(ss) = IF Len(ss) = 0 THEN ss ELSE f[Len(ss)]
  BY Zenon DEF FlattenSeq, IsFlat, f
<1>4. Len(ss) = 0 => ss = <<>>
  BY EmptySeq
<1>5. FlattenSeq(ss) = IF Len(ss) = 0 THEN <<>> ELSE f[Len(ss)]
  BY <1>3, <1>4, Zenon
<1> QED
  BY <1>2, <1>5, Zenon

LEMMA FlatStep ==
  ASSUME NEW ss, NEW f, IsFlat(ss, f), NEW i \in 1..Len(ss)
  PROVE  f[i] = IF i = 1 THEN ss[i] ELSE f[i - 1] \o ss[i]
BY DEF IsFlat

\* Behind all but the last comes the last.
LEMMA FlatAppend ==
  ASSUME NEW S, NEW ss \in Seq(Seq(S)), NEW x \in Seq(S)
  PROVE  /\ FlattenSeq(ss) \in Seq(S)
         /\ FlattenSeq(Append(ss, x)) = FlattenSeq(ss) \o x
<1> DEFINE tt == Append(ss, x)
<1>1. /\ tt \in Seq(Seq(S)) /\ Len(tt) = Len(ss) + 1 /\ Len(ss) \in Nat
      /\ \A i \in 1..Len(ss) : tt[i] = ss[i] /\ ss[i] \in Seq(S)
      /\ tt[Len(ss) + 1] = x
  OBVIOUS
<1> HIDE DEF tt
<1>2. PICK f : IsFlat(ss, f) /\ FlattenSeq(ss) = IF Len(ss) = 0 THEN <<>> ELSE f[Len(ss)]
  BY FlatDef
<1>3. PICK g : IsFlat(tt, g) /\ FlattenSeq(tt) = IF Len(tt) = 0 THEN <<>> ELSE g[Len(tt)]
  BY <1>1, FlatDef
<1> DEFINE T == {n \in Nat : n \in 1..Len(ss) => g[n] = f[n] /\ f[n] \in Seq(S)}
<1>4. 0 \in T
  OBVIOUS
<1>5. ASSUME NEW n \in Nat, n \in T PROVE n + 1 \in T
  <2> SUFFICES ASSUME n + 1 \in 1..Len(ss) PROVE g[n + 1] = f[n + 1] /\ f[n + 1] \in Seq(S)
    OBVIOUS
  <2>1. /\ f[n + 1] = IF n + 1 = 1 THEN ss[n + 1] ELSE f[(n + 1) - 1] \o ss[n + 1]
        /\ g[n + 1] = IF n + 1 = 1 THEN tt[n + 1] ELSE g[(n + 1) - 1] \o tt[n + 1]
    <3>1. n + 1 \in 1..Len(tt)
      BY <1>1
    <3>2. g[n + 1] = IF n + 1 = 1 THEN tt[n + 1] ELSE g[(n + 1) - 1] \o tt[n + 1]
      BY <1>3, <3>1, FlatStep, Zenon
    <3>3. f[n + 1] = IF n + 1 = 1 THEN ss[n + 1] ELSE f[(n + 1) - 1] \o ss[n + 1]
      BY <1>2, FlatStep, Zenon
    <3> QED
      BY <3>2, <3>3, Zenon
  <2>2. tt[n + 1] = ss[n + 1] /\ ss[n + 1] \in Seq(S) /\ (n + 1) - 1 = n
    BY <1>1
  <2>3. CASE n = 0
    BY <2>1, <2>2, <2>3
  <2>4. CASE n # 0
    <3>1. g[n] = f[n] /\ f[n] \in Seq(S) /\ n + 1 # 1
      BY <1>5, <2>4
    <3>2. f[n] \o ss[n + 1] \in Seq(S)
      BY <2>2, <3>1, ConcatProperties
    <3> QED
      BY <2>1, <2>2, <3>1, <3>2
  <2> QED
    BY <2>3, <2>4
<1>6. \A n \in Nat : n \in T
  <2> HIDE DEF T
  <2> QED
    BY <1>4, <1>5, AllNumbers
<1>7. FlattenSeq(tt) = IF Len(ss) + 1 = 1 THEN tt[Len(ss) + 1] ELSE g[(Len(ss) + 1) - 1] \o tt[Len(ss) + 1]
  <2>1. Len(tt) # 0 /\ Len(tt) \in 1..Len(tt)
    BY <1>1
  <2> QED
    BY <1>1, <1>3, <2>1, FlatStep
<1>8. CASE Len(ss) = 0
  <2>1. FlattenSeq(ss) = <<>> /\ FlattenSeq(tt) = x
    BY <1>1, <1>2, <1>7, <1>8
  <2> QED
    BY <2>1, ConcatEmptySeq DEF tt
<1>9. CASE Len(ss) # 0
  <2>1. Len(ss) \in 1..Len(ss) /\ (Len(ss) + 1) - 1 = Len(ss) /\ Len(ss) + 1 # 1
    BY <1>1, <1>9
  <2>2. g[Len(ss)] = f[Len(ss)] /\ f[Len(ss)] \in Seq(S)
    BY <1>1, <1>6, <2>1
  <2> QED
    BY <1>1, <1>2, <1>7, <1>9, <2>1, <2>2 DEF tt
<1> QED
  BY <1>8, <1>9

LEMMA FlatEmpty ==
  ASSUME NEW ss, Len(ss) = 0 PROVE FlattenSeq(ss) = ss
BY DEF FlattenSeq

(***************************************************************************)
(* Sequences that are cut and put together.                                *)
(***************************************************************************)
Associate(a, b, c) == (a \o b) \o c = a \o (b \o c)

LEMMA AllAssociate ==
  ASSUME NEW R, NEW a \in Seq(R), NEW b \in Seq(R), NEW c \in Seq(R)
  PROVE  Associate(a, b, c)
BY ConcatAssociative DEF Associate

LEMMA ConcatParts ==
  ASSUME NEW R, NEW a \in Seq(R), NEW t \in Seq(R)
  PROVE  /\ a \o t \in Seq(R) /\ Len(a \o t) = Len(a) + Len(t)
         /\ Len(a) \in Nat /\ Len(t) \in Nat
         /\ SubSeq(a \o t, 1, Len(a)) = a
         /\ SubSeq(a \o t, Len(a) + 1, Len(a \o t)) = t
<1> DEFINE u == a \o t
<1>1. /\ u \in Seq(R) /\ Len(u) = Len(a) + Len(t)
      /\ \A i \in 1..Len(a) + Len(t) : u[i] = IF i <= Len(a) THEN a[i] ELSE t[i - Len(a)]
  BY ConcatProperties
<1>2. /\ Len(a) \in Nat /\ Len(t) \in Nat
  BY LenProperties
<1> HIDE DEF u
<1>3. \A i \in 1..Len(u) : u[i] \in R
  BY <1>1, ElementOfSeq
<1>4. SubSeq(u, 1, Len(a)) = a
  <2> DEFINE v == SubSeq(u, 1, Len(a))
  <2>1. \A i \in 1..Len(a) : u[i] \in R
    BY <1>1, <1>2, <1>3
  <2>2. /\ v \in Seq(R) /\ Len(v) = IF 1 <= Len(a) THEN Len(a) - 1 + 1 ELSE 0
        /\ \A i \in 1..(Len(a) - 1 + 1) : v[i] = u[1 + i - 1]
    BY <1>2, <2>1, SubSeqProperties
  <2>3. Len(v) = Len(a) /\ \A i \in 1..Len(a) : v[i] = u[i] /\ u[i] = a[i]
    BY <1>1, <1>2, <2>2
  <2> HIDE DEF v
  <2> QED
    BY <2>2, <2>3, SeqEqual DEF v
<1>5. SubSeq(u, Len(a) + 1, Len(u)) = t
  <2> DEFINE v == SubSeq(u, Len(a) + 1, Len(u))
  <2>1. \A i \in (Len(a) + 1)..Len(u) : u[i] \in R
    BY <1>1, <1>2, <1>3
  <2>2. /\ v \in Seq(R)
        /\ Len(v) = IF Len(a) + 1 <= Len(u) THEN Len(u) - (Len(a) + 1) + 1 ELSE 0
        /\ \A i \in 1..(Len(u) - (Len(a) + 1) + 1) : v[i] = u[(Len(a) + 1) + i - 1]
    BY <1>1, <1>2, <2>1, SubSeqProperties
  <2>3. Len(v) = Len(t)
    BY <1>1, <1>2, <2>2
  <2>4. ASSUME NEW i \in 1..Len(t) PROVE v[i] = t[i]
    <3>1. /\ (Len(a) + 1) + i - 1 = Len(a) + i /\ ~(Len(a) + i <= Len(a))
          /\ i \in 1..(Len(u) - (Len(a) + 1) + 1) /\ Len(a) + i - Len(a) = i
          /\ Len(a) + i \in 1..Len(a) + Len(t)
      BY <1>1, <1>2
    <3> QED
      BY <1>1, <2>2, <3>1
  <2> HIDE DEF v
  <2> QED
    BY <2>2, <2>3, <2>4, SeqEqual DEF v
<1> QED
  BY <1>1, <1>2, <1>4, <1>5 DEF u

Parts(P, R, a, b, c) ==
  /\ P \in Seq(R) /\ P = (a \o b) \o c /\ P = a \o (b \o c)
  /\ Len(a) \in Nat /\ Len(b) \in Nat /\ Len(c) \in Nat
  /\ Len(a \o b) = Len(a) + Len(b) /\ Len(P) = Len(a) + Len(b) + Len(c)
  /\ SubSeq(P, 1, Len(a)) = a /\ SubSeq(P, Len(a) + 1, Len(P)) = b \o c
  /\ SubSeq(P, Len(a \o b) + 1, Len(P)) = c

LEMMA ThreeParts ==
  ASSUME NEW R, NEW a \in Seq(R), NEW b \in Seq(R), NEW c \in Seq(R)
  PROVE  \E P : Parts(P, R, a, b, c)
<1> PICK P : P = (a \o b) \o c
  OBVIOUS
<1>1. PICK d : d = a \o b
  OBVIOUS
<1>2. PICK e : e = b \o c
  OBVIOUS
<1>3. /\ d \in Seq(R) /\ Len(d) = Len(a) + Len(b) /\ Len(a) \in Nat /\ Len(b) \in Nat
      /\ e \in Seq(R) /\ Len(e) = Len(b) + Len(c) /\ Len(c) \in Nat
  BY <1>1, <1>2, ConcatParts
<1>8. (a \o b) \o c = a \o (b \o c)
  BY ConcatAssociative
<1>4. P = a \o e
  BY <1>2, <1>8, Zenon
<1>5. /\ P \in Seq(R) /\ Len(P) = Len(a) + Len(e)
      /\ SubSeq(P, 1, Len(a)) = a /\ SubSeq(P, Len(a) + 1, Len(P)) = e
  <2>0. e \in Seq(R)
    BY <1>3
  <2>1. /\ a \o e \in Seq(R) /\ Len(a \o e) = Len(a) + Len(e)
        /\ SubSeq(a \o e, 1, Len(a)) = a /\ SubSeq(a \o e, Len(a) + 1, Len(a \o e)) = e
    BY <2>0, ConcatParts
  <2> QED
    BY <1>4, <2>1, Zenon
<1>6. SubSeq(P, Len(d) + 1, Len(P)) = c
  BY <1>1, <1>3, ConcatParts
<1>7. Len(P) = Len(a) + Len(b) + Len(c)
  BY <1>3, <1>5
<1>9. Parts(P, R, a, b, c)
  BY <1>1, <1>2, <1>3, <1>4, <1>5, <1>6, <1>7, Zenon DEF Parts
<1> QED
  BY <1>9, Zenon

\* What leaves stdio is the beginning of what was waiting.
Leaves(w, rest, f, g, P) ==
  /\ g - f \in 0..Len(P)
  /\ SubSeq(w, 1, g) = SubSeq(w, 1, f) \o SubSeq(P, 1, g - f)
  /\ SubSeq(w, g + 1, Len(w)) \o rest = SubSeq(P, (g - f) + 1, Len(P))

LEMMA FlushFacts ==
  ASSUME NEW R, NEW w \in Seq(R), NEW rest \in Seq(R), NEW f \in 0..Len(w), NEW g \in f..Len(w)
  PROVE  Leaves(w, rest, f, g, SubSeq(w, f + 1, Len(w)) \o rest)
<1>1. Len(w) \in Nat /\ f \in Int /\ g \in Int /\ 0 <= f /\ f <= g /\ g <= Len(w)
  BY LenProperties
<1>2. \A i \in 1..Len(w) : w[i] \in R
  BY ElementOfSeq
<1>3. PICK A \in Seq(R) : A = SubSeq(w, f + 1, g) /\ Len(A) = g - f
  <2>1. \A i \in (f + 1)..g : w[i] \in R
    BY <1>1, <1>2
  <2>2. f + 1 \in Int
    BY <1>1
  <2>3. /\ SubSeq(w, f + 1, g) \in Seq(R)
        /\ Len(SubSeq(w, f + 1, g)) = IF f + 1 <= g THEN g - (f + 1) + 1 ELSE 0
    BY <1>1, <2>1, <2>2, SubSeqProperties
  <2>4. Len(SubSeq(w, f + 1, g)) = g - f
    BY <1>1, <2>3
  <2> QED
    BY <2>3, <2>4, Zenon
<1>4. PICK B \in Seq(R) : B = SubSeq(w, g + 1, Len(w))
  <2>1. \A i \in (g + 1)..Len(w) : w[i] \in R
    BY <1>1, <1>2
  <2>2. g + 1 \in Int
    BY <1>1
  <2>3. SubSeq(w, g + 1, Len(w)) \in Seq(R)
    BY <1>1, <2>1, <2>2, SubSeqProperties
  <2> QED
    BY <2>3, Zenon
<1>5. SubSeq(w, f + 1, Len(w)) = A \o B
  <2>1. /\ f + 1 \in 1..Len(w) + 1 /\ g \in (f + 1) - 1 .. Len(w) /\ Len(w) \in g..Len(w)
    BY <1>1
  <2> QED
    BY <1>3, <1>4, <2>1, ConcatAdjacentSubSeq
<1>6. SubSeq(w, 1, g) = SubSeq(w, 1, f) \o A
  <2>1. /\ 1 \in 1..Len(w) + 1 /\ f \in 1 - 1 .. Len(w) /\ g \in f..Len(w)
    BY <1>1
  <2> QED
    BY <1>3, <2>1, ConcatAdjacentSubSeq
<1> PICK P : Parts(P, R, A, B, rest)
  BY ThreeParts, Zenon
<1>7. /\ P \in Seq(R) /\ P = (A \o B) \o rest /\ Len(P) = Len(A) + Len(B) + Len(rest)
      /\ Len(B) \in Nat /\ Len(rest) \in Nat
      /\ SubSeq(P, 1, Len(A)) = A /\ SubSeq(P, Len(A) + 1, Len(P)) = B \o rest
  BY Zenon DEF Parts
<1>8. P = SubSeq(w, f + 1, Len(w)) \o rest
  BY <1>5, <1>7, Zenon
<1>9. g - f \in 0..Len(P)
  BY <1>1, <1>3, <1>7
<1>10. /\ SubSeq(w, 1, g) = SubSeq(w, 1, f) \o SubSeq(P, 1, g - f)
       /\ SubSeq(w, g + 1, Len(w)) \o rest = SubSeq(P, (g - f) + 1, Len(P))
  BY <1>3, <1>4, <1>6, <1>7, Zenon
<1>11. Leaves(w, rest, f, g, P)
  BY <1>9, <1>10, Zenon DEF Leaves
<1> QED
  BY <1>8, <1>11, Zenon

\* A part in the middle goes.
Drops(P, Q) ==
  \E i \in 1..Len(P) : \E j \in i..Len(P) : Q = SubSeq(P, 1, i) \o SubSeq(P, j + 1, Len(P))

LEMMA DropFacts ==
  ASSUME NEW R, NEW a \in Seq(R), NEW b \in Seq(R), NEW c \in Seq(R), a # <<>>
  PROVE  Drops((a \o b) \o c, a \o c)
<1> PICK P : Parts(P, R, a, b, c)
  BY ThreeParts, Zenon
<1>1. /\ P = (a \o b) \o c
      /\ Len(a) \in Nat /\ Len(b) \in Nat /\ Len(c) \in Nat
      /\ Len(a \o b) = Len(a) + Len(b) /\ Len(P) = Len(a) + Len(b) + Len(c)
      /\ SubSeq(P, 1, Len(a)) = a /\ SubSeq(P, Len(a \o b) + 1, Len(P)) = c
  BY Zenon DEF Parts
<1>2. Len(a) # 0
  BY EmptySeq
<1>3. Len(a) \in 1..Len(P) /\ Len(a \o b) \in Len(a)..Len(P)
  BY <1>1, <1>2
<1>4. a \o c = SubSeq(P, 1, Len(a)) \o SubSeq(P, Len(a \o b) + 1, Len(P))
  BY <1>1
<1>5. Drops(P, a \o c)
  BY <1>3, <1>4, Zenon DEF Drops
<1> QED
  BY <1>1, <1>5, Zenon

(***************************************************************************)
(* What a sequence of buffers holds.                                       *)
(***************************************************************************)
Records == 1..Len(Size)
AllTexts == [Buffers -> Seq(Records)]
In(tx, s) == FlattenSeq([i \in DOMAIN s |-> tx[s[i]]])

LEMMA TextsOf ==
  ASSUME NEW tx \in AllTexts, NEW s \in Seq(Buffers)
  PROVE  /\ [i \in DOMAIN s |-> tx[s[i]]] \in Seq(Seq(Records))
         /\ Len([i \in DOMAIN s |-> tx[s[i]]]) = Len(s)
<1>1. /\ Len(s) \in Nat /\ DOMAIN s = 1..Len(s)
      /\ \A i \in 1..Len(s) : s[i] \in Buffers
  BY LenProperties, ElementOfSeq
<1>2. \A i \in 1..Len(s) : tx[s[i]] \in Seq(Records)
  BY <1>1 DEF AllTexts
<1> DEFINE T == Seq(Records)
<1> HIDE DEF T
<1>3. [i \in 1..Len(s) |-> tx[s[i]]] \in Seq(T) /\ Len([i \in 1..Len(s) |-> tx[s[i]]]) = Len(s)
  BY <1>1, <1>2 DEF T
<1> QED
  BY <1>1, <1>3 DEF T

LEMMA InEmpty == ASSUME NEW tx PROVE In(tx, <<>>) = <<>>
<1>1. Len([i \in DOMAIN <<>> |-> tx[<<>>[i]]]) = 0 /\ [i \in DOMAIN <<>> |-> tx[<<>>[i]]] = <<>>
  OBVIOUS
<1> QED
  BY <1>1, FlatEmpty DEF In

LEMMA InAppend ==
  ASSUME NEW tx \in AllTexts, NEW s \in Seq(Buffers), NEW b \in Buffers
  PROVE  /\ In(tx, s) \in Seq(Records) /\ tx[b] \in Seq(Records)
         /\ In(tx, Append(s, b)) = In(tx, s) \o tx[b]
<1> DEFINE ss == [i \in DOMAIN s |-> tx[s[i]]]
           tt == [i \in DOMAIN Append(s, b) |-> tx[Append(s, b)[i]]]
<1>1. tx[b] \in Seq(Records)
  BY DEF AllTexts
<1>2. ss \in Seq(Seq(Records)) /\ Len(ss) = Len(s)
  BY TextsOf
<1>3. /\ Append(s, b) \in Seq(Buffers) /\ Len(Append(s, b)) = Len(s) + 1
      /\ \A i \in 1..Len(s) : Append(s, b)[i] = s[i]
      /\ Append(s, b)[Len(s) + 1] = b
  BY AppendProperties
<1>4. tt \in Seq(Seq(Records)) /\ Len(tt) = Len(s) + 1
  BY <1>3, TextsOf
<1>5. Len(s) \in Nat /\ DOMAIN s = 1..Len(s) /\ DOMAIN Append(s, b) = 1..(Len(s) + 1)
  BY <1>3, LenProperties
<1>6. \A i \in 1..(Len(s) + 1) : tt[i] = IF i = Len(s) + 1 THEN tx[b] ELSE ss[i]
  BY <1>3, <1>5
<1> HIDE DEF ss, tt
<1>7. tt = Append(ss, tx[b])
  <2> DEFINE vv == Append(ss, tx[b])
             T == Seq(Records)
  <2> HIDE DEF T
  <2>1. /\ vv \in Seq(T) /\ Len(vv) = Len(ss) + 1
        /\ \A i \in 1..Len(ss) : vv[i] = ss[i]
        /\ vv[Len(ss) + 1] = tx[b]
    BY <1>1, <1>2, AppendProperties DEF T
  <2> HIDE DEF vv
  <2>2. ASSUME NEW i \in 1..Len(tt) PROVE tt[i] = vv[i]
    <3>1. i \in 1..(Len(s) + 1) /\ (i = Len(s) + 1 \/ i \in 1..Len(s))
      BY <1>4, <1>5
    <3> QED
      BY <1>2, <1>5, <1>6, <2>1, <3>1
  <2>3. vv = tt
    BY <1>2, <1>4, <2>1, <2>2, SeqEqual DEF T
  <2> QED
    BY <2>3 DEF vv
<1>8. FlattenSeq(ss) \in Seq(Records) /\ FlattenSeq(tt) = FlattenSeq(ss) \o tx[b]
  BY <1>1, <1>2, <1>7, FlatAppend
<1> QED
  BY <1>1, <1>8 DEF In, ss, tt

LEMMA InAgree ==
  ASSUME NEW tx, NEW ty, NEW s, \A b \in ToSet(s) : tx[b] = ty[b]
  PROVE  In(tx, s) = In(ty, s)
<1>1. \A i \in DOMAIN s : tx[s[i]] = ty[s[i]]
  BY DEF ToSet
<1>2. [i \in DOMAIN s |-> tx[s[i]]] = [i \in DOMAIN s |-> ty[s[i]]]
  BY <1>1
<1> QED
  BY <1>2 DEF In

LEMMA InSeq ==
  ASSUME NEW tx \in AllTexts, NEW s \in Seq(Buffers)
  PROVE  In(tx, s) \in Seq(Records)
BY TextsOf, FlatAppend, InEmpty DEF In

\* The first m buffers, and those behind the n-th of them.
LEMMA InPrefix ==
  ASSUME NEW tx \in AllTexts, NEW s \in Seq(Buffers), NEW n \in Nat, NEW m \in 0..Len(s), n <= m
  PROVE  In(tx, SubSeq(s, 1, m)) = In(tx, SubSeq(s, 1, n)) \o In(tx, SubSeq(s, n + 1, m))
<1> DEFINE U(k) == SubSeq(s, 1, k)
           V(k) == SubSeq(s, n + 1, k)
           T == {k \in Nat : n + k <= Len(s) =>
                              In(tx, U(n + k)) = In(tx, U(n)) \o In(tx, V(n + k))}
<1>1. Len(s) \in Nat /\ \A i \in 1..Len(s) : s[i] \in Buffers
  BY LenProperties, ElementOfSeq
<1>2. ASSUME NEW k \in Nat, k <= Len(s)
      PROVE  /\ U(k) \in Seq(Buffers) /\ V(k) \in Seq(Buffers)
             /\ In(tx, U(k)) \in Seq(Records) /\ In(tx, V(k)) \in Seq(Records)
  <2>1. (\A i \in 1..k : s[i] \in Buffers) /\ (\A i \in (n + 1)..k : s[i] \in Buffers)
    BY <1>1, <1>2
  <2>2. U(k) \in Seq(Buffers) /\ V(k) \in Seq(Buffers)
    BY <2>1, SubSeqProperties
  <2> QED
    BY <2>2, InSeq, Zenon
<1>3. ASSUME NEW k \in Nat, k + 1 <= Len(s)
      PROVE  /\ U(k + 1) = Append(U(k), s[k + 1])
             /\ n <= k => V(k + 1) = Append(V(k), s[k + 1])
             /\ In(tx, U(k + 1)) = In(tx, U(k)) \o tx[s[k + 1]]
             /\ n <= k => In(tx, V(k + 1)) = In(tx, V(k)) \o tx[s[k + 1]]
             /\ tx[s[k + 1]] \in Seq(Records)
  <2>1. k <= Len(s) /\ k + 1 \in 1..Len(s) /\ k + 1 \in 1..(k + 1) /\ s[k + 1] \in Buffers
    BY <1>1, <1>3
  <2>2. U(k) \in Seq(Buffers) /\ V(k) \in Seq(Buffers)
    BY <1>2, <2>1
  <2>3. U(k + 1) = Append(U(k), s[k + 1])
    <3>1. 1 \in 1..Len(s) /\ k + 1 \in 1..Len(s) /\ (k + 1) - 1 = k
      BY <1>1, <1>3
    <3>2. SubSeq(s, 1, k + 1) = SubSeq(s, 1, (k + 1) - 1) \o <<s[k + 1]>>
      BY <3>1, SubSeqRecursiveSecond
    <3> QED
      BY <2>1, <2>2, <3>1, <3>2, AppendIsConcat
  <2>4. ASSUME n <= k PROVE V(k + 1) = Append(V(k), s[k + 1])
    <3>1. n + 1 \in 1..Len(s) /\ k + 1 \in (n + 1)..Len(s) /\ (k + 1) - 1 = k
      BY <1>1, <1>3, <2>4
    <3>2. SubSeq(s, n + 1, k + 1) = SubSeq(s, n + 1, (k + 1) - 1) \o <<s[k + 1]>>
      BY <3>1, SubSeqRecursiveSecond
    <3> QED
      BY <2>1, <2>2, <3>1, <3>2, AppendIsConcat
  <2> HIDE DEF U, V
  <2>5. tx[s[k + 1]] \in Seq(Records)
    BY <2>1 DEF AllTexts
  <2>6. In(tx, U(k + 1)) = In(tx, U(k)) \o tx[s[k + 1]]
    BY <2>1, <2>2, <2>3, InAppend
  <2>7. n <= k => In(tx, V(k + 1)) = In(tx, V(k)) \o tx[s[k + 1]]
    BY <2>1, <2>2, <2>4, InAppend
  <2> QED
    BY <2>3, <2>4, <2>5, <2>6, <2>7
<1>4. 0 \in T
  <2> SUFFICES ASSUME n <= Len(s) PROVE In(tx, U(n)) = In(tx, U(n)) \o In(tx, V(n))
    OBVIOUS
  <2>1. V(n) = <<>>
    BY SubSeqEmpty
  <2>2. In(tx, V(n)) = <<>>
    BY <2>1, InEmpty, Zenon
  <2>3. In(tx, U(n)) \in Seq(Records)
    BY <1>2
  <2> QED
    BY <2>2, <2>3, ConcatEmptySeq
<1>5. ASSUME NEW k \in Nat, k \in T PROVE k + 1 \in T
  <2> SUFFICES ASSUME n + (k + 1) <= Len(s)
               PROVE  In(tx, U(n + (k + 1))) = In(tx, U(n)) \o In(tx, V(n + (k + 1)))
    OBVIOUS
  <2> DEFINE j == n + k
  <2>1. /\ j \in Nat /\ j <= Len(s) /\ j + 1 <= Len(s) /\ n <= j /\ n <= Len(s)
        /\ n + (k + 1) = j + 1
    BY <1>1
  <2>2. In(tx, U(j)) = In(tx, U(n)) \o In(tx, V(j))
    BY <1>5, <2>1
  <2> HIDE DEF j, T
  <2>3. /\ In(tx, U(j + 1)) = In(tx, U(j)) \o tx[s[j + 1]]
        /\ In(tx, V(j + 1)) = In(tx, V(j)) \o tx[s[j + 1]]
        /\ tx[s[j + 1]] \in Seq(Records)
    BY <1>3, <2>1
  <2>4. In(tx, U(n)) \in Seq(Records) /\ In(tx, V(j)) \in Seq(Records)
    BY <1>2, <2>1
  <2> HIDE DEF U, V
  <2>5. (In(tx, U(n)) \o In(tx, V(j))) \o tx[s[j + 1]] = In(tx, U(n)) \o (In(tx, V(j)) \o tx[s[j + 1]])
    <3>1. Associate(In(tx, U(n)), In(tx, V(j)), tx[s[j + 1]])
      BY <2>3, <2>4, AllAssociate
    <3> QED
      BY <3>1, Zenon DEF Associate
  <2> QED
    BY <2>1, <2>2, <2>3, <2>5, Zenon
<1>6. \A k \in Nat : k \in T
  <2> HIDE DEF T
  <2> QED
    BY <1>4, <1>5, AllNumbers
<1>7. m - n \in Nat /\ n + (m - n) = m /\ n + (m - n) <= Len(s)
  BY <1>1
<1>8. m - n \in T
  BY <1>6, <1>7, Zenon
<1>9. In(tx, U(n + (m - n))) = In(tx, U(n)) \o In(tx, V(n + (m - n)))
  BY <1>7, <1>8
<1> QED
  BY <1>7, <1>9

LEMMA InSplit ==
  ASSUME NEW tx \in AllTexts, NEW s \in Seq(Buffers), NEW n \in 0..Len(s)
  PROVE  /\ In(tx, s) = In(tx, SubSeq(s, 1, n)) \o In(tx, SubSeq(s, n + 1, Len(s)))
         /\ SubSeq(s, 1, n) \in Seq(Buffers) /\ SubSeq(s, n + 1, Len(s)) \in Seq(Buffers)
<1>1. Len(s) \in Nat /\ n \in Nat /\ n <= Len(s) /\ Len(s) \in 0..Len(s)
  BY LenProperties
<1>2. SubSeq(s, 1, Len(s)) = s
  BY SubSeqFull
<1>3. \A i \in 1..Len(s) : s[i] \in Buffers
  BY ElementOfSeq
<1>4. (\A i \in 1..n : s[i] \in Buffers) /\ (\A i \in (n + 1)..Len(s) : s[i] \in Buffers)
  BY <1>1, <1>3
<1>5. SubSeq(s, 1, n) \in Seq(Buffers) /\ SubSeq(s, n + 1, Len(s)) \in Seq(Buffers)
  BY <1>1, <1>4, SubSeqProperties
<1>6. In(tx, SubSeq(s, 1, Len(s))) = In(tx, SubSeq(s, 1, n)) \o In(tx, SubSeq(s, n + 1, Len(s)))
  BY <1>1, InPrefix
<1> QED
  BY <1>2, <1>5, <1>6, Zenon

\* As many records as there are buffers that are not empty, at least.
LEMMA InLong ==
  ASSUME NEW tx \in AllTexts, NEW s \in Seq(Buffers), NEW n \in 0..Len(s),
         \A i \in 1..n : tx[s[i]] # <<>>
  PROVE  Len(In(tx, SubSeq(s, 1, n))) >= n
<1> DEFINE U(k) == SubSeq(s, 1, k)
           T == {k \in Nat : k <= n => Len(In(tx, U(k))) >= k}
<1>1. Len(s) \in Nat /\ n \in Nat /\ n <= Len(s) /\ \A i \in 1..Len(s) : s[i] \in Buffers
  BY LenProperties, ElementOfSeq
<1>2. 0 \in T
  <2>1. U(0) = <<>>
    BY SubSeqEmpty
  <2>2. Len(In(tx, U(0))) = 0
    BY <2>1, InEmpty, EmptySeq
  <2> QED
    BY <2>2
<1>3. ASSUME NEW k \in Nat, k \in T PROVE k + 1 \in T
  <2> SUFFICES ASSUME k + 1 <= n PROVE Len(In(tx, U(k + 1))) >= k + 1
    OBVIOUS
  <2>1. k <= n /\ k + 1 \in 1..n /\ k + 1 \in 1..Len(s) /\ k \in 0..Len(s) /\ s[k + 1] \in Buffers
    BY <1>1
  <2>2. U(k) \in Seq(Buffers)
    BY <2>1, InSplit
  <2>3. U(k + 1) = Append(U(k), s[k + 1])
    <3>1. 1 \in 1..Len(s) /\ k + 1 \in 1..Len(s) /\ (k + 1) - 1 = k
      BY <1>1, <2>1
    <3>2. SubSeq(s, 1, k + 1) = SubSeq(s, 1, (k + 1) - 1) \o <<s[k + 1]>>
      BY <3>1, SubSeqRecursiveSecond
    <3> QED
      BY <2>1, <2>2, <3>1, <3>2, AppendIsConcat
  <2>4. Len(In(tx, U(k))) >= k
    BY <1>3, <2>1
  <2> HIDE DEF U, T
  <2>5. /\ In(tx, U(k)) \in Seq(Records) /\ tx[s[k + 1]] \in Seq(Records)
        /\ In(tx, U(k + 1)) = In(tx, U(k)) \o tx[s[k + 1]]
    BY <2>1, <2>2, <2>3, InAppend
  <2>6. Len(tx[s[k + 1]]) \in Nat \ {0}
    BY <2>1, <2>5, EmptySeq
  <2>7. /\ Len(In(tx, U(k + 1))) = Len(In(tx, U(k))) + Len(tx[s[k + 1]])
        /\ Len(In(tx, U(k))) \in Nat
    BY <2>5, ConcatParts
  <2> QED
    BY <2>4, <2>6, <2>7
<1>4. \A k \in Nat : k \in T
  <2> HIDE DEF T
  <2> QED
    BY <1>2, <1>3, AllNumbers
<1>5. n \in T
  BY <1>1, <1>4, Zenon
<1> QED
  BY <1>1, <1>5

\* An empty buffer has room for any record.
LEMMA UsedEmpty ==
  ASSUME NEW b, text[b] = <<>>
  PROVE  Used(b) = 0
<1>1. DOMAIN text[b] = {}
  OBVIOUS
<1> QED
  BY <1>1 DEF Used, FoldLeft, MapThenFoldSet

(***************************************************************************)
(* The second invariant: what the buffers hold.                            *)
(***************************************************************************)
Texts ==
  /\ text \in AllTexts
  /\ written \in Seq(Records) /\ flushed \in 0..Len(written)

\* A buffer that is no one's is empty,
Clean ==
  \A b \in Buffers :
    b \notin {currentBuffer} \cup ToSet(buffers) \cup ToSet(bufferToWrite) => text[b] = <<>>

\* and a buffer that was queued because a record did not fit is not.
Full ==
  /\ \A i \in 1..Len(buffers) : text[buffers[i]] # <<>>
  /\ tpc = "trim" =>
       \A i \in 1..(Len(bufferToWrite) - 1) : text[bufferToWrite[i]] # <<>>

Progress ==
  /\ cursor \in 1..(Len(bufferToWrite) + 1)
  /\ tpc = "trim" => cursor = 1
  /\ tpc = "refill" => cursor > Len(bufferToWrite)

TextInv == Texts /\ Clean /\ Full /\ Progress

\* Who is about to append has a record for it.
Busy == {th \in Threads : place[th] # "idle"}
Count ==
  /\ place \in [Threads -> Places] /\ appended \in Nat
  /\ IsFiniteSet(Busy) /\ appended + Cardinality(Busy) <= Len(Size)

LEMMA SizeFacts ==
  /\ Len(Size) \in Nat /\ LargeBuffer \in Nat
  /\ \A r \in Records : Size[r] \in Nat /\ Size[r] < LargeBuffer
BY SizeAssumption DEF Records

LEMMA CountInit == InitLogger => Count
<1> SUFFICES ASSUME InitLogger PROVE Count
  OBVIOUS
<1>1. appended = 0 /\ place = [th \in Threads |-> "idle"]
  BY DEF InitLogger, Init
<1>2. Busy = {} /\ place \in [Threads -> Places]
  BY <1>1 DEF Busy, Places
<1>3. IsFiniteSet(Busy) /\ Cardinality(Busy) = 0
  BY <1>2, FS_EmptySet
<1> QED
  BY <1>1, <1>2, <1>3, SizeFacts DEF Count

LEMMA CountStays ==
  ASSUME Count, UNCHANGED appended, place' \in [Threads -> Places],
         \A th \in Threads : place'[th] # "idle" <=> place[th] # "idle"
  PROVE  Count'
<1>1. Busy' = Busy
  BY DEF Busy
<1> QED
  BY <1>1 DEF Count

LEMMA RecordToAppend ==
  ASSUME Count, NEW th \in Threads, place[th] = "append"
  PROVE  appended + 1 \in Records
<1>1. th \in Busy
  BY DEF Busy
<1>2. Cardinality(Busy) \in Nat /\ Cardinality(Busy) # 0
  BY <1>1, FS_EmptySet, FS_CardinalityType DEF Count
<1> QED
  BY <1>2, SizeFacts DEF Count, Records

LEMMA CountStep == Count /\ [Next]_allVars => Count'
<1> SUFFICES ASSUME Count, [Next]_allVars PROVE Count'
  OBVIOUS
<1>1. ASSUME NEW th \in Threads, Log(th) PROVE Count'
  <2>1. /\ place[th] = "idle" /\ place' = [place EXCEPT ![th] = "once"]
        /\ appended' = appended /\ appended + Cardinality(Busy) < Len(Size)
    BY <1>1 DEF Log, Go, vars, appenderVars, Busy
  <2>2. th \notin Busy /\ Busy' = Busy \cup {th}
    BY <2>1 DEF Busy, Count
  <2>3. IsFiniteSet(Busy') /\ Cardinality(Busy') = Cardinality(Busy) + 1 /\ Cardinality(Busy) \in Nat
    BY <2>2, FS_AddElement, FS_CardinalityType DEF Count
  <2>4. place' \in [Threads -> Places]
    BY <2>1 DEF Count, Places
  <2> QED
    BY <2>1, <2>3, <2>4, SizeFacts DEF Count
<1>2. ASSUME NEW th \in Threads, Once(th) \/ OnceInit(th) PROVE Count'
  <2>1. appended' = appended
    BY <1>2 DEF Once, OnceInit, Start, LatchWait, vars, appenderVars
  <2>2. place[th] # "idle" /\ (place' = place \/ \E p \in {"init", "append"} : place' = [place EXCEPT ![th] = p])
    BY <1>2 DEF Once, OnceInit, Go, loggerVars
  <2>3. place' \in [Threads -> Places]
    BY <2>2 DEF Count, Places
  <2>4. \A t \in Threads : place'[t] # "idle" <=> place[t] # "idle"
    BY <2>2 DEF Count
  <2> QED
    BY <2>1, <2>3, <2>4, CountStays
<1>3. ASSUME NEW th \in Threads, Output(th) PROVE Count'
  <2>1. /\ place[th] = "append" /\ place' = [place EXCEPT ![th] = "idle"]
        /\ appended' = appended + 1
    BY <1>3 DEF Output, Go, AppendRecord
  <2>2. th \in Busy /\ Busy' = Busy \ {th}
    BY <2>1 DEF Busy, Count
  <2>3. IsFiniteSet(Busy') /\ Cardinality(Busy') = Cardinality(Busy) - 1 /\ Cardinality(Busy) \in Nat
    BY <2>2, FS_RemoveElement, FS_CardinalityType DEF Count
  <2>4. place' \in [Threads -> Places]
    BY <2>1 DEF Count, Places
  <2> QED
    BY <2>1, <2>3, <2>4, SizeFacts DEF Count
<1>4. CASE LogExit \/ Spurious
  <2>1. UNCHANGED <<appended, place>>
    BY <1>4 DEF LogExit, Stop, Notify, Join, Spurious, LatchSpurious, loggerVars, appenderVars
  <2> QED
    BY <2>1, CountStays DEF Count
<1>5. CASE ThreadFun
  <2>1. UNCHANGED <<appended, place>>
    BY <1>5 DEF ThreadFun, ThreadStep, CountDown, Test, Sleep, TimeoutOrSpurious, Swap, Trim,
                WriteBuffer, EndWrite, Refill, Flush, loggerVars, appenderVars
  <2> QED
    BY <2>1, CountStays DEF Count
<1>6. CASE UNCHANGED allVars
  <2>1. UNCHANGED <<appended, place>>
    BY <1>6 DEF allVars, vars, loggerVars, appenderVars
  <2> QED
    BY <2>1, CountStays DEF Count
<1> QED
  BY <1>1, <1>2, <1>3, <1>4, <1>5, <1>6 DEF Next, CallerStep

LEMMA CountInvariant == Spec => []Count
BY CountInit, CountStep, PTL DEF Spec

LEMMA AppendEnd ==
  ASSUME NEW R, NEW a \in Seq(R), NEW c \in Seq(R), NEW r \in R
  PROVE  a \o Append(c, r) = Append(a \o c, r)
<1>1. Append(c, r) = c \o <<r>> /\ <<r>> \in Seq(R)
  BY AppendIsConcat
<1>2. a \o c \in Seq(R)
  BY ConcatProperties
<1>3. Append(a \o c, r) = (a \o c) \o <<r>>
  BY <1>2, AppendIsConcat
<1>4. (a \o c) \o <<r>> = a \o (c \o <<r>>)
  BY <1>1, ConcatAssociative
<1> QED
  BY <1>1, <1>3, <1>4, Zenon

LEMMA RestFacts ==
  ASSUME NEW s \in Seq(Buffers), NEW m \in 1..(Len(s) + 1)
  PROVE  /\ SubSeq(s, m, Len(s)) \in Seq(Buffers)
         /\ ToSet(SubSeq(s, m, Len(s))) \subseteq ToSet(s)
<1>1. Len(s) \in Nat /\ DOMAIN s = 1..Len(s) /\ \A i \in 1..Len(s) : s[i] \in Buffers
  BY LenProperties, ElementOfSeq
<1>2. PICK t : t = SubSeq(s, m, Len(s))
  OBVIOUS
<1>3. \A i \in m..Len(s) : s[i] \in Buffers
  BY <1>1
<1>4. /\ t \in Seq(Buffers) /\ Len(t) = IF m <= Len(s) THEN Len(s) - m + 1 ELSE 0
      /\ \A i \in 1..(Len(s) - m + 1) : t[i] = s[m + i - 1]
  BY <1>1, <1>2, <1>3, SubSeqProperties
<1>5. ASSUME NEW i \in DOMAIN t PROVE t[i] \in ToSet(s)
  <2>1. DOMAIN t = 1..Len(t)
    BY <1>4, LenProperties
  <2>2. i \in 1..(Len(s) - m + 1) /\ m + i - 1 \in 1..Len(s)
    BY <1>1, <1>4, <1>5, <2>1
  <2> QED
    BY <1>1, <1>4, <2>2 DEF ToSet
<1>6. ToSet(t) \subseteq ToSet(s)
  BY <1>5 DEF ToSet
<1> QED
  BY <1>2, <1>4, <1>6

\* The three parts of what is not on the disk, and the current buffer.
Stdio == SubSeq(written, flushed + 1, Len(written))
Batch == In(text, SubSeq(bufferToWrite, cursor, Len(bufferToWrite)))
Queued == In(text, buffers)
Current == text[currentBuffer]

LEMMA PendingIs == Pending = ((Stdio \o Batch) \o Queued) \o Current
BY DEF Pending, Contents, In, Stdio, Batch, Queued, Current

LEMMA PartsTyped ==
  ASSUME BufferInv, TextInv
  PROVE  /\ Stdio \in Seq(Records) /\ Batch \in Seq(Records)
         /\ Queued \in Seq(Records) /\ Current \in Seq(Records)
<1>1. Stdio \in Seq(Records)
  <2>1. /\ Len(written) \in Nat /\ flushed \in Nat
        /\ \A i \in (flushed + 1)..Len(written) : written[i] \in Records
    BY LenProperties, ElementOfSeq DEF TextInv, Texts
  <2> QED
    BY <2>1, SubSeqProperties DEF Stdio
<1>2. Batch \in Seq(Records)
  <2>1. SubSeq(bufferToWrite, cursor, Len(bufferToWrite)) \in Seq(Buffers)
    BY RestFacts DEF BufferInv, Shape, TextInv, Progress
  <2> QED
    BY <2>1, InSeq DEF Batch, TextInv, Texts
<1>3. Queued \in Seq(Records)
  BY InSeq DEF Queued, BufferInv, Shape, TextInv, Texts
<1>4. Current \in Seq(Records)
  BY DEF Current, BufferInv, Shape, TextInv, Texts, AllTexts
<1> QED
  BY <1>1, <1>2, <1>3, <1>4

\* A step that changes no text of a buffer that is in use.
LEMMA PartsStay ==
  ASSUME BufferInv, TextInv, NEW S \in SUBSET Buffers,
         \A b \in Buffers : b \notin S => text'[b] = text[b]
  PROVE  /\ S \cap ToSet(buffers) = {} => In(text', buffers) = Queued
         /\ S \cap ToSet(bufferToWrite) = {} =>
              In(text', SubSeq(bufferToWrite, cursor, Len(bufferToWrite))) = Batch
         /\ currentBuffer \notin S => text'[currentBuffer] = Current
<1>1. ToSet(buffers) \subseteq Buffers /\ ToSet(bufferToWrite) \subseteq Buffers
  BY DEF ToSet, BufferInv, Shape
<1>2. ASSUME S \cap ToSet(buffers) = {} PROVE In(text', buffers) = Queued
  <2>1. \A b \in ToSet(buffers) : text'[b] = text[b]
    BY <1>1, <1>2
  <2> QED
    BY <2>1, InAgree DEF Queued
<1>3. ASSUME S \cap ToSet(bufferToWrite) = {}
      PROVE  In(text', SubSeq(bufferToWrite, cursor, Len(bufferToWrite))) = Batch
  <2>1. ToSet(SubSeq(bufferToWrite, cursor, Len(bufferToWrite))) \subseteq ToSet(bufferToWrite)
    BY RestFacts DEF BufferInv, Shape, TextInv, Progress
  <2>2. \A b \in ToSet(SubSeq(bufferToWrite, cursor, Len(bufferToWrite))) : text'[b] = text[b]
    BY <1>1, <1>3, <2>1
  <2> QED
    BY <2>2, InAgree DEF Batch
<1>4. currentBuffer \notin S => text'[currentBuffer] = Current
  BY DEF Current, BufferInv, Shape
<1> QED
  BY <1>2, <1>3, <1>4

LEMMA TextsStay ==
  ASSUME TextInv,
         UNCHANGED <<currentBuffer, buffers, bufferToWrite, text, written, flushed, cursor>>,
         tpc' = "trim" => tpc = "trim",
         tpc' = "refill" => tpc = "refill" \/ cursor > Len(bufferToWrite)
  PROVE  TextInv' /\ Pending' = Pending /\ OnDisk' = OnDisk
<1>1. Texts' /\ Clean'
  BY DEF TextInv, Texts, Clean
<1>2. Full' /\ Progress'
  BY DEF TextInv, Full, Progress
<1>3. Pending' = Pending /\ OnDisk' = OnDisk
  BY DEF Pending, Contents, OnDisk
<1> QED
  BY <1>1, <1>2, <1>3 DEF TextInv

LEMMA TextInit == InitLogger => TextInv /\ log!Init
<1> SUFFICES ASSUME InitLogger PROVE TextInv /\ log!Init
  OBVIOUS
<1>1. /\ text = [b \in Buffers |-> <<>>] /\ written = <<>> /\ flushed = 0 /\ cursor = 1
      /\ buffers = <<>> /\ bufferToWrite = <<>> /\ tpc = "none" /\ opc = "new" /\ appended = 0
  BY DEF InitLogger, Init
<1>2. <<>> \in Seq(Records) /\ Len(<<>>) = 0
  OBVIOUS
<1>3. Texts
  BY <1>1, <1>2 DEF Texts, AllTexts
<1>4. Clean
  BY <1>1 DEF Clean
<1>5. Full
  BY <1>1, <1>2 DEF Full
<1>6. Progress
  BY <1>1, <1>2 DEF Progress
<1>7. TextInv
  BY <1>3, <1>4, <1>5, <1>6 DEF TextInv
<1>8. Stdio = <<>> /\ OnDisk = <<>>
  BY <1>1, SubSeqEmpty DEF Stdio, OnDisk
<1>9. Batch = <<>> /\ Queued = <<>>
  <2>1. SubSeq(bufferToWrite, cursor, Len(bufferToWrite)) = <<>>
    BY <1>1, <1>2, SubSeqEmpty
  <2> QED
    BY <1>1, <2>1, InEmpty, Zenon DEF Batch, Queued
<1>10. Current = <<>>
  BY <1>1, BuffersInit DEF Current, BufferInv, Shape
<1>11. Pending = <<>>
  BY <1>8, <1>9, <1>10, PendingIs
<1> QED
  BY <1>1, <1>7, <1>8, <1>11 DEF log!Init

\* A record is put behind all that is pending.
LEMMA FitsAppends ==
  ASSUME BufferInv, TextInv, NEW r \in Records, AppendFits(r), UNCHANGED <<threadVars, fileVars>>
  PROVE  TextInv' /\ Pending' = Append(Pending, r) /\ OnDisk' = OnDisk
<1>1. /\ UNCHANGED <<currentBuffer, buffers, bufferToWrite, cursor, written, flushed, tpc>>
      /\ text' = [text EXCEPT ![currentBuffer] = Append(text[currentBuffer], r)]
  BY DEF AppendFits, Fits, Put, threadVars, fileVars
<1>2. /\ currentBuffer \in Buffers /\ text \in AllTexts /\ text[currentBuffer] \in Seq(Records)
      /\ currentBuffer \notin ToSet(buffers) \cup ToSet(bufferToWrite)
  BY DEF BufferInv, Shape, Apart, TextInv, Texts, AllTexts
<1>3. Append(text[currentBuffer], r) \in Seq(Records) /\ Append(text[currentBuffer], r) # <<>>
  BY <1>2, AppendProperties
<1>4. text' \in AllTexts
  BY <1>1, <1>2, <1>3 DEF AllTexts
<1>5. \A b \in Buffers : b \notin {currentBuffer} => text'[b] = text[b]
  BY <1>1, <1>2 DEF AllTexts
<1>6. Texts' /\ Clean' /\ Progress'
  BY <1>1, <1>4, <1>5 DEF TextInv, Texts, Clean, Progress
<1>7. Full'
  <2>1. ASSUME NEW b \in Buffers, text[b] # <<>> PROVE text'[b] # <<>>
    BY <1>1, <1>2, <1>3, <1>5, <2>1 DEF AllTexts
  <2>2. /\ \A i \in 1..Len(buffers) : buffers[i] \in Buffers
        /\ \A i \in 1..(Len(bufferToWrite) - 1) : bufferToWrite[i] \in Buffers
    BY LenProperties, ElementOfSeq DEF BufferInv, Shape
  <2> QED
    BY <1>1, <2>1, <2>2 DEF TextInv, Full
<1>8. Stdio' = Stdio /\ OnDisk' = OnDisk
  BY <1>1 DEF Stdio, OnDisk
<1>9. Batch' = Batch /\ Queued' = Queued
  <2>1. {currentBuffer} \cap ToSet(buffers) = {} /\ {currentBuffer} \cap ToSet(bufferToWrite) = {}
    BY <1>2
  <2>2. {currentBuffer} \in SUBSET Buffers
    BY <1>2
  <2>3. In(text', buffers) = Queued
    BY <1>5, <2>1, <2>2, PartsStay
  <2>4. In(text', SubSeq(bufferToWrite, cursor, Len(bufferToWrite))) = Batch
    BY <1>5, <2>1, <2>2, PartsStay
  <2>5. Queued' = In(text', buffers)
    BY <1>1 DEF Queued
  <2>6. Batch' = In(text', SubSeq(bufferToWrite, cursor, Len(bufferToWrite)))
    BY <1>1 DEF Batch
  <2> QED
    BY <2>3, <2>4, <2>5, <2>6, Zenon
<1>10. Current' = Append(Current, r)
  BY <1>1, <1>2 DEF Current, AllTexts
<1>11. PICK a : a = (Stdio \o Batch) \o Queued
  OBVIOUS
<1>12. a \in Seq(Records)
  BY <1>11, PartsTyped, ConcatProperties
<1>13. Pending = a \o Current
  BY <1>11, PendingIs, Zenon
<1>14. Pending' = a \o Append(Current, r)
  <2>1. Pending' = ((Stdio' \o Batch') \o Queued') \o Current'
    BY DEF Pending, Contents, In, Stdio, Batch, Queued, Current
  <2> QED
    BY <1>8, <1>9, <1>10, <1>11, <2>1, Zenon
<1>15. a \o Append(Current, r) = Append(a \o Current, r)
  BY <1>12, PartsTyped, AppendEnd
<1> QED
  BY <1>6, <1>7, <1>8, <1>13, <1>14, <1>15, Zenon DEF TextInv

LEMMA FullAppends ==
  ASSUME BufferInv, TextInv, NEW r \in Records, AppendFull(r), UNCHANGED <<threadVars, fileVars>>
  PROVE  TextInv' /\ Pending' = Append(Pending, r) /\ OnDisk' = OnDisk
<1> PICK b : b = Replacement
  OBVIOUS
<1>1. /\ UNCHANGED <<bufferToWrite, cursor, written, flushed>>
      /\ buffers' = Append(buffers, currentBuffer) /\ currentBuffer' = b
      /\ text' = [text EXCEPT ![b] = Put(b, r)]
      /\ tpc' = Notified /\ ~Fits(r)
  BY DEF AppendFull, threadVars, fileVars
<1>2. /\ b \in Buffers /\ b # currentBuffer
      /\ b \notin ToSet(buffers) \cup ToSet(bufferToWrite)
  BY ReplacementFacts DEF AppendFull
<1>3. /\ currentBuffer \in Buffers /\ text \in AllTexts /\ text[currentBuffer] \in Seq(Records)
      /\ buffers \in Seq(Buffers) /\ bufferToWrite \in Seq(Buffers)
      /\ currentBuffer \notin ToSet(buffers) \cup ToSet(bufferToWrite)
  BY DEF BufferInv, Shape, Apart, TextInv, Texts, AllTexts
<1>4. text[b] = <<>>
  BY <1>2 DEF TextInv, Clean
<1>5. Put(b, r) = <<r>>
  <2>1. Avail(b) > Size[r]
    BY <1>4, UsedEmpty, SizeFacts DEF Avail
  <2>2. Put(b, r) = Append(<<>>, r)
    BY <1>4, <2>1, Zenon DEF Put
  <2>3. Append(<<>>, r) = <<r>>
    OBVIOUS
  <2> QED
    BY <2>2, <2>3, Zenon
<1>6. text[currentBuffer] # <<>>
  <2> SUFFICES ASSUME text[currentBuffer] = <<>> PROVE FALSE
    OBVIOUS
  <2>1. Avail(currentBuffer) > Size[r]
    BY UsedEmpty, SizeFacts DEF Avail
  <2> QED
    BY <1>1, <2>1, Zenon DEF Fits
<1>7. /\ text' = [text EXCEPT ![b] = <<r>>]
      /\ <<r>> \in Seq(Records) /\ text' \in AllTexts
  <2>1. text' = [text EXCEPT ![b] = <<r>>]
    BY <1>1, <1>5, Zenon
  <2>2. <<r>> \in Seq(Records)
    OBVIOUS
  <2> QED
    BY <1>3, <2>1, <2>2 DEF AllTexts
<1>8. (\A c \in Buffers : c \notin {b} => text'[c] = text[c]) /\ text'[b] = <<r>>
  BY <1>2, <1>3, <1>7 DEF AllTexts
<1>9. /\ buffers' \in Seq(Buffers) /\ Len(buffers') = Len(buffers) + 1
      /\ ToSet(buffers') = ToSet(buffers) \cup {currentBuffer}
      /\ \A i \in 1..Len(buffers) : buffers'[i] = buffers[i]
      /\ buffers'[Len(buffers) + 1] = currentBuffer
  BY <1>1, <1>3, AppendFacts, AppendProperties DEF BufferInv, Apart
<1>10. Texts' /\ Progress'
  <2>1. (tpc' = "trim" <=> tpc = "trim") /\ (tpc' = "refill" <=> tpc = "refill")
    BY <1>1 DEF Notified
  <2> QED
    BY <1>1, <1>7, <2>1 DEF TextInv, Texts, Progress
<1>11. Clean'
  BY <1>1, <1>8, <1>9 DEF TextInv, Clean
<1>12. Full'
  <2>1. \A i \in 1..Len(buffers) : buffers[i] \in Buffers /\ buffers[i] # b
    <3>1. \A i \in 1..Len(buffers) : buffers[i] \in ToSet(buffers)
      BY <1>3, LenProperties DEF ToSet
    <3> QED
      BY <1>2, <1>3, <3>1, ElementOfSeq
  <2>2. \A i \in 1..(Len(bufferToWrite) - 1) : bufferToWrite[i] \in Buffers /\ bufferToWrite[i] # b
    <3>1. Len(bufferToWrite) \in Nat /\ \A i \in 1..Len(bufferToWrite) : bufferToWrite[i] \in ToSet(bufferToWrite)
      BY <1>3, LenProperties DEF ToSet
    <3>2. \A i \in 1..(Len(bufferToWrite) - 1) : i \in 1..Len(bufferToWrite)
      BY <3>1
    <3> QED
      BY <1>2, <1>3, <3>1, <3>2, ElementOfSeq
  <2>3. tpc' = "trim" <=> tpc = "trim"
    BY <1>1 DEF Notified
  <2>4. Len(buffers) \in Nat
    BY <1>3
  <2>5. \A i \in 1..Len(buffers') : text'[buffers'[i]] # <<>>
    <3> SUFFICES ASSUME NEW i \in 1..Len(buffers') PROVE text'[buffers'[i]] # <<>>
      OBVIOUS
    <3>1. CASE i = Len(buffers) + 1
      BY <1>2, <1>3, <1>6, <1>8, <1>9, <3>1
    <3>2. CASE i # Len(buffers) + 1
      <4>1. i \in 1..Len(buffers)
        BY <1>9, <2>4, <3>2
      <4> QED
        BY <1>8, <1>9, <2>1, <4>1 DEF TextInv, Full
    <3> QED
      BY <3>1, <3>2
  <2>6. tpc' = "trim" => \A i \in 1..(Len(bufferToWrite') - 1) : text'[bufferToWrite'[i]] # <<>>
    BY <1>1, <1>8, <2>2, <2>3 DEF TextInv, Full
  <2> QED
    BY <2>5, <2>6 DEF Full
<1>13. Stdio' = Stdio /\ OnDisk' = OnDisk
  BY <1>1 DEF Stdio, OnDisk
<1>14. Batch' = Batch /\ In(text', buffers) = Queued /\ text'[currentBuffer] = Current
  <2>1. /\ {b} \cap ToSet(buffers) = {} /\ {b} \cap ToSet(bufferToWrite) = {}
        /\ {b} \in SUBSET Buffers /\ currentBuffer \notin {b}
    BY <1>2
  <2>2. In(text', buffers) = Queued /\ text'[currentBuffer] = Current
    BY <1>8, <2>1, PartsStay
  <2>3. In(text', SubSeq(bufferToWrite, cursor, Len(bufferToWrite))) = Batch
    BY <1>8, <2>1, PartsStay
  <2>4. Batch' = In(text', SubSeq(bufferToWrite, cursor, Len(bufferToWrite)))
    BY <1>1 DEF Batch
  <2> QED
    BY <2>2, <2>3, <2>4, Zenon
<1>15. Queued' = Queued \o Current
  <2>1. Queued' = In(text', Append(buffers, currentBuffer))
    BY <1>1 DEF Queued
  <2>2. In(text', Append(buffers, currentBuffer)) = In(text', buffers) \o text'[currentBuffer]
    BY <1>3, <1>7, InAppend
  <2> QED
    BY <1>14, <2>1, <2>2, Zenon
<1>16. Current' = <<r>>
  BY <1>1, <1>8 DEF Current
<1>17. PICK a : a = Stdio \o Batch
  OBVIOUS
<1>18. PICK p : p = a \o (Queued \o Current)
  OBVIOUS
<1>19. a \in Seq(Records) /\ Queued \in Seq(Records) /\ Current \in Seq(Records)
  BY <1>17, PartsTyped, ConcatProperties
<1>20. p \in Seq(Records) /\ p = (a \o Queued) \o Current
  BY <1>18, <1>19, ConcatProperties, ConcatAssociative
<1>21. Pending = p
  BY <1>17, <1>20, PendingIs, Zenon
<1>22. Pending' = p \o <<r>>
  <2>1. Pending' = ((Stdio' \o Batch') \o Queued') \o Current'
    BY DEF Pending, Contents, In, Stdio, Batch, Queued, Current
  <2> QED
    BY <1>13, <1>14, <1>15, <1>16, <1>17, <1>18, <2>1, Zenon
<1>23. p \o <<r>> = Append(p, r)
  BY <1>20, AppendIsConcat
<1> QED
  BY <1>10, <1>11, <1>12, <1>13, <1>21, <1>22, <1>23, Zenon DEF TextInv

\* What was added to a file, of which a part may be flushed.
Appended(w, f, W, g, rest, p) ==
  \E k \in 0..Len(p) :
    /\ SubSeq(W, 1, g) = SubSeq(w, 1, f) \o SubSeq(p, 1, k)
    /\ SubSeq(W, g + 1, Len(W)) \o rest = SubSeq(p, k + 1, Len(p))

LEMMA AppendedFacts ==
  ASSUME NEW R, NEW w \in Seq(R), NEW t \in Seq(R), NEW rest \in Seq(R), NEW f \in 0..Len(w),
         NEW g \in f..Len(w \o t)
  PROVE  Appended(w, f, w \o t, g, rest, SubSeq(w, f + 1, Len(w)) \o (t \o rest))
<1> PICK W : W = w \o t
  OBVIOUS
<1> PICK p : p = SubSeq(w, f + 1, Len(w)) \o (t \o rest)
  OBVIOUS
<1>1. /\ W \in Seq(R) /\ Len(W) = Len(w) + Len(t) /\ Len(w) \in Nat /\ Len(t) \in Nat
      /\ SubSeq(W, Len(w) + 1, Len(W)) = t
  BY ConcatParts
<1>2. \A i \in 1..Len(w) : w[i] \in R
  BY ElementOfSeq
<1>3. f \in 0..Len(W) /\ f <= Len(w) /\ f \in Nat
  BY <1>1
<1>4. SubSeq(W, 1, f) = SubSeq(w, 1, f)
  <2>1. CASE f = 0
    BY <2>1, SubSeqEmpty
  <2>2. CASE f # 0
    <3>1. 1 \in 1..Len(w) /\ f \in 1..Len(w)
      BY <1>1, <1>3, <2>2
    <3> QED
      BY <3>1, SubSeqOfConcat1
  <2> QED
    BY <2>1, <2>2
<1>5. SubSeq(W, f + 1, Len(w)) = SubSeq(w, f + 1, Len(w))
  <2>1. CASE f = Len(w)
    <3>1. Len(w) < f + 1 /\ f + 1 \in Int /\ Len(w) \in Int
      BY <1>1, <2>1
    <3> QED
      BY <3>1, SubSeqEmpty
  <2>2. CASE f # Len(w)
    <3>1. f + 1 \in 1..Len(w) /\ Len(w) \in 1..Len(w)
      BY <1>1, <1>3, <2>2
    <3> QED
      BY <3>1, SubSeqOfConcat1
  <2> QED
    BY <2>1, <2>2
<1>6. SubSeq(W, f + 1, Len(W)) = SubSeq(w, f + 1, Len(w)) \o t
  <2>1. /\ f + 1 \in 1..Len(W) + 1 /\ Len(w) \in (f + 1) - 1 .. Len(W)
        /\ Len(W) \in Len(w)..Len(W)
    BY <1>1, <1>3
  <2>2. SubSeq(W, f + 1, Len(w)) \o SubSeq(W, Len(w) + 1, Len(W)) = SubSeq(W, f + 1, Len(W))
    BY <1>1, <2>1, ConcatAdjacentSubSeq
  <2> QED
    BY <1>1, <1>5, <2>2, Zenon
<1>7. p = SubSeq(W, f + 1, Len(W)) \o rest
  <2>1. PICK d : d = SubSeq(w, f + 1, Len(w))
    OBVIOUS
  <2>2. \A i \in (f + 1)..Len(w) : w[i] \in R
    BY <1>1, <1>2, <1>3
  <2>3. d \in Seq(R)
    BY <1>1, <1>3, <2>1, <2>2, SubSeqProperties
  <2>4. Associate(d, t, rest)
    BY <2>3, AllAssociate
  <2> QED
    BY <1>6, <2>1, <2>4, Zenon DEF Associate
<1>8. Leaves(W, rest, f, g, p)
  <2>1. Leaves(W, rest, f, g, SubSeq(W, f + 1, Len(W)) \o rest)
    BY <1>1, <1>3, FlushFacts
  <2> QED
    BY <1>7, <2>1, Zenon
<1>9. Appended(w, f, W, g, rest, p)
  BY <1>4, <1>8, Zenon DEF Leaves, Appended
<1> QED
  BY <1>9, Zenon

FirstApart(a, b, c, d) == ((a \o b) \o c) \o d = a \o ((b \o c) \o d)

LEMMA PartsAssociate ==
  ASSUME NEW R, NEW a \in Seq(R), NEW b \in Seq(R), NEW c \in Seq(R), NEW d \in Seq(R)
  PROVE  FirstApart(a, b, c, d)
<1> PICK e : e = b \o c
  OBVIOUS
<1>1. e \in Seq(R)
  BY ConcatProperties
<1>2. Associate(a, b, c)
  BY AllAssociate
<1>3. Associate(a, e, d)
  BY <1>1, AllAssociate
<1> QED
  BY <1>2, <1>3, Zenon DEF FirstApart, Associate

\* The same for a file, a batch of which the text t goes first, what is queued and
\* what is current.
Stored(w, f, W, g, p, p1) ==
  \E k \in 0..Len(p) :
    /\ SubSeq(W, 1, g) = SubSeq(w, 1, f) \o SubSeq(p, 1, k)
    /\ p1 = SubSeq(p, k + 1, Len(p))

LEMMA StoreFacts ==
  ASSUME NEW R, NEW w \in Seq(R), NEW t \in Seq(R), NEW b \in Seq(R), NEW q \in Seq(R),
         NEW c \in Seq(R), NEW f \in 0..Len(w), NEW g \in f..Len(w \o t)
  PROVE  Stored(w, f, w \o t, g, ((SubSeq(w, f + 1, Len(w)) \o (t \o b)) \o q) \o c,
                ((SubSeq(w \o t, g + 1, Len(w \o t)) \o b) \o q) \o c)
<1> PICK W : W = w \o t
  OBVIOUS
<1> PICK d : d = SubSeq(w, f + 1, Len(w))
  OBVIOUS
<1> PICK e : e = SubSeq(W, g + 1, Len(W))
  OBVIOUS
<1> PICK rest : rest = (b \o q) \o c
  OBVIOUS
<1> PICK u : u = t \o b
  OBVIOUS
<1>1. rest \in Seq(R) /\ u \in Seq(R)
  BY ConcatProperties
<1>2. W \in Seq(R) /\ Len(W) = Len(w) + Len(t) /\ Len(w) \in Nat /\ Len(t) \in Nat
  BY ConcatParts
<1>3. d \in Seq(R)
  <2>1. \A i \in (f + 1)..Len(w) : w[i] \in R
    BY <1>2, ElementOfSeq
  <2> QED
    BY <1>2, <2>1, SubSeqProperties
<1>4. e \in Seq(R)
  <2>1. g \in Nat /\ \A i \in (g + 1)..Len(W) : W[i] \in R
    BY <1>2, ElementOfSeq
  <2> QED
    BY <1>2, <2>1, SubSeqProperties
<1>5. PICK p : p = d \o (t \o rest)
  OBVIOUS
<1>6. ((d \o u) \o q) \o c = p
  <2>1. FirstApart(d, u, q, c)
    BY <1>1, <1>3, PartsAssociate
  <2>2. FirstApart(t, b, q, c)
    BY PartsAssociate
  <2> QED
    BY <1>5, <2>1, <2>2, Zenon DEF FirstApart
<1>7. ((e \o b) \o q) \o c = e \o rest
  <2>1. FirstApart(e, b, q, c)
    BY <1>4, PartsAssociate
  <2> QED
    BY <2>1, Zenon DEF FirstApart
<1>8. Appended(w, f, W, g, rest, p)
  <2>1. Appended(w, f, w \o t, g, rest, SubSeq(w, f + 1, Len(w)) \o (t \o rest))
    BY <1>1, AppendedFacts
  <2> QED
    BY <1>5, <2>1, Zenon
<1>9. Stored(w, f, W, g, p, e \o rest)
  BY <1>8, Zenon DEF Stored, Appended
<1> QED
  BY <1>6, <1>7, <1>9, Zenon

LEMMA InFirst ==
  ASSUME NEW tx \in AllTexts, NEW s \in Seq(Buffers), NEW m \in 1..Len(s)
  PROVE  /\ In(tx, SubSeq(s, m, Len(s))) = tx[s[m]] \o In(tx, SubSeq(s, m + 1, Len(s)))
         /\ tx[s[m]] \in Seq(Records) /\ In(tx, SubSeq(s, m + 1, Len(s))) \in Seq(Records)
<1> PICK u : u = SubSeq(s, m, Len(s))
  OBVIOUS
<1>1. Len(s) \in Nat /\ s[m] \in Buffers /\ m \in 1..(Len(s) + 1) /\ m + 1 \in 1..(Len(s) + 1)
  BY LenProperties, ElementOfSeq
<1>2. u \in Seq(Buffers) /\ SubSeq(s, m + 1, Len(s)) \in Seq(Buffers)
  BY <1>1, RestFacts
<1>3. \A i \in m..Len(s) : s[i] \in Buffers
  BY ElementOfSeq
<1>4. Len(u) \in Nat \ {0} /\ u[1] = s[m]
  <2>1. /\ Len(u) = IF m <= Len(s) THEN Len(s) - m + 1 ELSE 0
        /\ \A i \in 1..(Len(s) - m + 1) : u[i] = s[m + i - 1]
    BY <1>1, <1>3, SubSeqProperties
  <2>2. 1 \in 1..(Len(s) - m + 1) /\ m + 1 - 1 = m
    BY <1>1
  <2> QED
    BY <1>1, <2>1, <2>2
<1>5. SubSeq(u, 2, Len(u)) = SubSeq(s, m + 1, Len(s))
  <2>1. Len(s) \in m..Len(s)
    BY <1>1
  <2>2. Tail(u) = SubSeq(s, m + 1, Len(s))
    BY <2>1, HeadTailOfSubSeq
  <2>3. u # <<>>
    BY <1>4
  <2> QED
    BY <1>2, <2>2, <2>3, TailIsSubSeq
<1>6. SubSeq(u, 1, 1) = Append(<<>>, s[m])
  <2>1. 1 \in 1..Len(u)
    BY <1>4
  <2>2. SubSeq(u, 1, 1) = SubSeq(u, 1, 1 - 1) \o <<u[1]>>
    BY <1>2, <2>1, SubSeqRecursiveSecond
  <2>3. SubSeq(u, 1, 1 - 1) = <<>>
    BY SubSeqEmpty
  <2>4. Append(<<>>, s[m]) = <<>> \o <<s[m]>>
    BY <1>1, EmptySeq, AppendIsConcat
  <2> QED
    BY <1>4, <2>2, <2>3, <2>4
<1>7. In(tx, SubSeq(u, 1, 1)) = tx[s[m]] /\ tx[s[m]] \in Seq(Records)
  <2>1. <<>> \in Seq(Buffers)
    BY EmptySeq
  <2>2. /\ tx[s[m]] \in Seq(Records)
        /\ In(tx, Append(<<>>, s[m])) = In(tx, <<>>) \o tx[s[m]]
    BY <1>1, <2>1, InAppend
  <2>3. In(tx, <<>>) = <<>>
    BY InEmpty
  <2>4. <<>> \o tx[s[m]] = tx[s[m]]
    BY <2>2, ConcatEmptySeq
  <2> QED
    BY <1>6, <2>2, <2>3, <2>4, Zenon
<1>8. In(tx, u) = In(tx, SubSeq(u, 1, 1)) \o In(tx, SubSeq(u, 2, Len(u)))
  <2>1. 1 \in 0..Len(u) /\ 1 + 1 = 2
    BY <1>4
  <2>2. In(tx, u) = In(tx, SubSeq(u, 1, 1)) \o In(tx, SubSeq(u, 1 + 1, Len(u)))
    BY <1>2, <2>1, InSplit
  <2> QED
    BY <2>1, <2>2
<1>9. In(tx, SubSeq(s, m + 1, Len(s))) \in Seq(Records)
  BY <1>2, InSeq
<1> QED
  BY <1>5, <1>7, <1>8, <1>9, Zenon

\* What a step of the thread puts on the disk is the beginning of what is pending.
Stores(k) ==
  /\ OnDisk' = OnDisk \o SubSeq(Pending, 1, k)
  /\ Pending' = SubSeq(Pending, k + 1, Len(Pending))

LEMMA WriteStores ==
  ASSUME BufferInv, TextInv, WriteBuffer
  PROVE  TextInv' /\ \E k \in 0..Len(Pending) : Stores(k)
<1> PICK t : t = text[bufferToWrite[cursor]]
  OBVIOUS
<1>1. /\ UNCHANGED <<currentBuffer, buffers, bufferToWrite, text>>
      /\ tpc = "write" /\ tpc' = "write" /\ cursor' = cursor + 1 /\ cursor <= Len(bufferToWrite)
      /\ written' = written \o t
      /\ flushed' = Len(written') \/ flushed' \in flushed..Len(written')
  BY DEF WriteBuffer, LogFileAppend, FileAppend, LogFileFlush, appenderVars
<1>2. /\ bufferToWrite \in Seq(Buffers) /\ Len(bufferToWrite) \in Nat
      /\ cursor \in 1..Len(bufferToWrite)
      /\ text \in AllTexts /\ written \in Seq(Records) /\ flushed \in 0..Len(written)
  BY <1>1, LenProperties DEF BufferInv, Shape, TextInv, Texts, Progress
<1> PICK rest0 : rest0 = In(text, SubSeq(bufferToWrite, cursor + 1, Len(bufferToWrite)))
  OBVIOUS
<1>3. Batch = t \o rest0 /\ t \in Seq(Records) /\ rest0 \in Seq(Records)
  BY <1>2, InFirst DEF Batch
<1>4. /\ written' \in Seq(Records) /\ Len(written') = Len(written) + Len(t)
      /\ Len(t) \in Nat /\ Len(written) \in Nat
  BY <1>1, <1>2, <1>3, ConcatParts
<1>5. flushed' \in flushed..Len(written') /\ flushed' \in 0..Len(written')
  BY <1>1, <1>2, <1>4
<1>6. TextInv'
  <2>1. Texts' /\ Clean'
    BY <1>1, <1>4, <1>5 DEF TextInv, Texts, Clean
  <2>2. Full' /\ Progress'
    BY <1>1, <1>2 DEF TextInv, Full, Progress
  <2> QED
    BY <2>1, <2>2 DEF TextInv
<1>7. Batch' = rest0 /\ Queued' = Queued /\ Current' = Current
  BY <1>1 DEF Batch, Queued, Current
<1>8. Queued \in Seq(Records) /\ Current \in Seq(Records)
  BY PartsTyped
<1>9. Pending = ((SubSeq(written, flushed + 1, Len(written)) \o (t \o rest0)) \o Queued) \o Current
  BY <1>3, PendingIs, Zenon DEF Stdio
<1>10. Pending' = ((SubSeq(written', flushed' + 1, Len(written')) \o rest0) \o Queued) \o Current
  <2>1. Pending' = ((Stdio' \o Batch') \o Queued') \o Current'
    BY DEF Pending, Contents, In, Stdio, Batch, Queued, Current
  <2> QED
    BY <1>7, <2>1, Zenon DEF Stdio
<1> PICK g : g = flushed'
  OBVIOUS
<1>11. g \in flushed..Len(written \o t)
  BY <1>1, <1>5
<1>12. Stored(written, flushed, written \o t, g,
              ((SubSeq(written, flushed + 1, Len(written)) \o (t \o rest0)) \o Queued) \o Current,
              ((SubSeq(written \o t, g + 1, Len(written \o t)) \o rest0) \o Queued) \o Current)
  BY <1>2, <1>3, <1>8, <1>11, StoreFacts
<1>13. Stored(written, flushed, written', flushed', Pending, Pending')
  BY <1>1, <1>9, <1>10, <1>12, Zenon
<1> QED
  BY <1>6, <1>13, Zenon DEF Stored, Stores, OnDisk

PendingThen == ((Stdio' \o Batch') \o Queued') \o Current'

LEMMA PendingThenIs == Pending' = PendingThen
BY DEF PendingThen, Pending, Contents, In, Stdio, Batch, Queued, Current

LEMMA FlushStores ==
  ASSUME BufferInv, TextInv, Flush
  PROVE  TextInv' /\ \E k \in 0..Len(Pending) : Stores(k)
<1>1. /\ UNCHANGED <<currentBuffer, buffers, bufferToWrite, cursor, text, written>>
      /\ tpc' \in {"test", "finished"} /\ flushed' = Len(written')
  BY DEF Flush, LogFileFlush, appenderVars, threadVars
<1>2. written \in Seq(Records) /\ flushed \in 0..Len(written) /\ Len(written) \in Nat
  BY LenProperties DEF TextInv, Texts
<1>3. TextInv'
  <2>1. Texts' /\ Clean'
    BY <1>1, <1>2 DEF TextInv, Texts, Clean
  <2>2. Full' /\ Progress'
    BY <1>1 DEF TextInv, Full, Progress
  <2> QED
    BY <2>1, <2>2 DEF TextInv
<1>4. Batch' = Batch /\ Queued' = Queued /\ Current' = Current
  BY <1>1 DEF Batch, Queued, Current
<1>5. Batch \in Seq(Records) /\ Queued \in Seq(Records) /\ Current \in Seq(Records)
  BY PartsTyped
<1> PICK e : e = <<>>
  OBVIOUS
<1>6. e \in Seq(Records) /\ e \o Batch = Batch /\ written \o e = written
  BY <1>2, <1>5, ConcatEmptySeq, EmptySeq
<1> PICK g : g = flushed'
  OBVIOUS
<1>7. g \in flushed..Len(written \o e)
  BY <1>1, <1>2, <1>6
<1>8. Stored(written, flushed, written \o e, g,
             ((SubSeq(written, flushed + 1, Len(written)) \o (e \o Batch)) \o Queued) \o Current,
             ((SubSeq(written \o e, g + 1, Len(written \o e)) \o Batch) \o Queued) \o Current)
  BY <1>2, <1>5, <1>6, <1>7, StoreFacts
<1>9. Pending = ((SubSeq(written, flushed + 1, Len(written)) \o Batch) \o Queued) \o Current
  BY PendingIs, Zenon DEF Stdio
<1>10. Pending' = ((SubSeq(written', flushed' + 1, Len(written')) \o Batch) \o Queued) \o Current
  BY <1>4, PendingThenIs, Zenon DEF PendingThen, Stdio
<1>11. Stored(written, flushed, written', flushed', Pending, Pending')
  BY <1>1, <1>6, <1>8, <1>9, <1>10, Zenon
<1> QED
  BY <1>3, <1>11, Zenon DEF Stored, Stores, OnDisk

\* Buffers change hands: what is queued and what is current are the batch.
LEMMA SwapKeeps ==
  ASSUME BufferInv, TextInv, Swap
  PROVE  TextInv' /\ Pending' = Pending /\ OnDisk' = OnDisk
<1>1. /\ tpc' = "trim" /\ ~HasBatch(tpc) /\ UNCHANGED <<text, written, flushed>> /\ cursor' = 1
      /\ bufferToWrite' = Append(buffers, currentBuffer) /\ buffers' = bufferToWrite
      /\ currentBuffer' = newBuffer1
  BY DEF Swap, Exchange, HasBatch, fileVars
<1>2. /\ bufferToWrite = <<>> /\ newBuffer1 \in Buffers /\ text[newBuffer1] = <<>>
      /\ buffers \in Seq(Buffers) /\ currentBuffer \in Buffers /\ text \in AllTexts
  BY <1>1 DEF BufferInv, Supply, Shape, Pointers, Apart, Spares, TextInv, Texts
<1>3. /\ bufferToWrite' \in Seq(Buffers) /\ Len(bufferToWrite') = Len(buffers) + 1
      /\ Len(buffers) \in Nat
      /\ \A i \in 1..Len(buffers) : bufferToWrite'[i] = buffers[i]
      /\ ToSet(bufferToWrite') = ToSet(buffers) \cup {currentBuffer}
  BY <1>1, <1>2, AppendFacts, AppendProperties, LenProperties DEF BufferInv, Apart
<1>4. buffers' = <<>> /\ Len(buffers') = 0 /\ ToSet(buffers') = {} /\ ToSet(bufferToWrite) = {}
  BY <1>1, <1>2, EmptyFacts
<1>5. TextInv'
  <2>1. Texts'
    BY <1>1 DEF TextInv, Texts
  <2>2. Clean'
    BY <1>1, <1>3, <1>4 DEF TextInv, Clean
  <2>3. Full'
    BY <1>1, <1>3, <1>4 DEF TextInv, Full
  <2>4. Progress'
    BY <1>1, <1>3 DEF Progress
  <2> QED
    BY <2>1, <2>2, <2>3, <2>4 DEF TextInv
<1>6. Stdio' = Stdio /\ OnDisk' = OnDisk
  BY <1>1 DEF Stdio, OnDisk
<1>7. Batch' = Queued \o Current
  <2>1. SubSeq(bufferToWrite', 1, Len(bufferToWrite')) = bufferToWrite'
    BY <1>3, SubSeqFull
  <2>2. Batch' = In(text', SubSeq(bufferToWrite', cursor', Len(bufferToWrite')))
    BY DEF Batch
  <2>3. Batch' = In(text, Append(buffers, currentBuffer))
    BY <1>1, <2>1, <2>2, Zenon
  <2>4. In(text, Append(buffers, currentBuffer)) = In(text, buffers) \o text[currentBuffer]
    BY <1>2, InAppend
  <2> QED
    BY <2>3, <2>4, Zenon DEF Queued, Current
<1>8. Queued' = <<>> /\ Current' = <<>>
  <2>1. Queued' = In(text', buffers') /\ Current' = text'[currentBuffer']
    BY DEF Queued, Current
  <2> QED
    BY <1>1, <1>2, <1>4, <2>1, InEmpty, Zenon
<1>9. Batch = <<>>
  <2>1. bufferToWrite = <<>> /\ cursor = 1 /\ Len(bufferToWrite) = 0
    BY <1>2, EmptyFacts DEF TextInv, Progress
  <2>2. SubSeq(bufferToWrite, cursor, Len(bufferToWrite)) = <<>>
    BY <2>1, SubSeqEmpty
  <2> QED
    BY <2>2, InEmpty, Zenon DEF Batch
<1>10. Stdio \in Seq(Records) /\ Queued \in Seq(Records) /\ Current \in Seq(Records)
  BY PartsTyped
<1> PICK b : b = Queued \o Current
  OBVIOUS
<1> PICK d : d = Stdio \o b
  OBVIOUS
<1> PICK e : e = <<>>
  OBVIOUS
<1>11. d \in Seq(Records)
  BY <1>10, ConcatProperties
<1>12. d \o e = d /\ Stdio \o e = Stdio
  BY <1>10, <1>11, ConcatEmptySeq
<1>13. Pending' = d
  BY <1>6, <1>7, <1>8, <1>12, PendingThenIs, Zenon DEF PendingThen
<1>14. Pending = d
  <2>1. Associate(Stdio, Queued, Current)
    BY <1>10, AllAssociate
  <2>2. (Stdio \o Queued) \o Current = d
    BY <2>1, Zenon DEF Associate
  <2>3. Pending = ((Stdio \o e) \o Queued) \o Current
    BY <1>9, PendingIs, Zenon
  <2> QED
    BY <1>12, <2>2, <2>3, Zenon
<1> QED
  BY <1>5, <1>6, <1>13, <1>14, Zenon

\* Nothing is left in a batch that is written.
LEMMA RefillKeeps ==
  ASSUME BufferInv, TextInv, Refill
  PROVE  TextInv' /\ Pending' = Pending /\ OnDisk' = OnDisk
<1> PICK S : S = ToSet(bufferToWrite)
  OBVIOUS
<1>1. /\ tpc = "refill" /\ tpc' = "flush" /\ cursor' = 1 /\ bufferToWrite' = <<>>
      /\ UNCHANGED <<currentBuffer, buffers, written, flushed>>
      /\ text' = [b \in Buffers |-> IF b \in S THEN <<>> ELSE text[b]]
  BY DEF Refill, appenderVars, fileVars, Emptied
<1>2. /\ S \in SUBSET Buffers /\ S \cap ToSet(buffers) = {} /\ currentBuffer \notin S
      /\ buffers \in Seq(Buffers) /\ currentBuffer \in Buffers /\ text \in AllTexts
      /\ bufferToWrite \in Seq(Buffers)
  <2>1. ToSet(bufferToWrite) \subseteq Buffers
    BY DEF ToSet, BufferInv, Shape
  <2> QED
    BY <2>1 DEF BufferInv, Shape, Apart, TextInv, Texts
<1>3. (\A b \in Buffers : b \notin S => text'[b] = text[b]) /\ \A b \in S : text'[b] = <<>>
  BY <1>1, <1>2
<1>4. Len(bufferToWrite') = 0 /\ ToSet(bufferToWrite') = {}
  BY <1>1, EmptyFacts
<1>5. TextInv'
  <2>1. text' \in AllTexts
    <3>1. <<>> \in Seq(Records)
      BY EmptySeq
    <3> QED
      BY <1>1, <1>2, <3>1 DEF AllTexts
  <2>2. Texts'
    BY <1>1, <2>1 DEF TextInv, Texts
  <2>3. Clean'
    BY <1>1, <1>2, <1>3, <1>4 DEF TextInv, Clean
  <2>4. Full'
    <3>1. \A i \in 1..Len(buffers) : buffers[i] \in Buffers /\ buffers[i] \in ToSet(buffers)
      BY <1>2, LenProperties, ElementOfSeq DEF ToSet
    <3>2. \A i \in 1..Len(buffers) : text'[buffers[i]] # <<>>
      BY <1>2, <1>3, <3>1 DEF TextInv, Full
    <3> QED
      BY <1>1, <3>2 DEF Full
  <2>5. Progress'
    BY <1>1, <1>4 DEF Progress
  <2> QED
    BY <2>2, <2>3, <2>4, <2>5 DEF TextInv
<1>6. Stdio' = Stdio /\ OnDisk' = OnDisk
  BY <1>1 DEF Stdio, OnDisk
<1>7. Queued' = Queued /\ Current' = Current
  <2>1. In(text', buffers) = Queued /\ text'[currentBuffer] = Current
    BY <1>2, <1>3, PartsStay
  <2>2. Queued' = In(text', buffers) /\ Current' = text'[currentBuffer]
    BY <1>1 DEF Queued, Current
  <2> QED
    BY <2>1, <2>2, Zenon
<1>8. Batch = <<>>
  <2>1. cursor > Len(bufferToWrite) /\ cursor \in Int /\ Len(bufferToWrite) \in Int
    BY <1>1, <1>2, LenProperties DEF TextInv, Progress
  <2>2. SubSeq(bufferToWrite, cursor, Len(bufferToWrite)) = <<>>
    BY <2>1, SubSeqEmpty
  <2> QED
    BY <2>2, InEmpty, Zenon DEF Batch
<1>9. Batch' = <<>>
  <2>1. SubSeq(bufferToWrite', 1, Len(bufferToWrite')) = <<>>
    BY <1>4, SubSeqEmpty
  <2>2. Batch' = In(text', SubSeq(bufferToWrite', cursor', Len(bufferToWrite')))
    BY DEF Batch
  <2> QED
    BY <1>1, <2>1, <2>2, InEmpty, Zenon
<1>10. Pending' = Pending
  BY <1>6, <1>7, <1>8, <1>9, PendingThenIs, PendingIs, Zenon DEF PendingThen
<1> QED
  BY <1>5, <1>6, <1>10

\* A batch that is too long loses what is behind its first two buffers.
LEMMA TrimDrops ==
  ASSUME BufferInv, TextInv, Trim
  PROVE  /\ TextInv' /\ OnDisk' = OnDisk
         /\ Pending' = Pending \/ (Len(Pending) >= MaxBuffers /\ Drops(Pending, Pending'))
<1> PICK n : n = Len(bufferToWrite)
  OBVIOUS
<1> PICK kept : kept = Kept
  OBVIOUS
<1> PICK S : S = ToSet(bufferToWrite) \ ToSet(kept)
  OBVIOUS
<1>1. /\ UNCHANGED <<currentBuffer, buffers, cursor, written, flushed>>
      /\ tpc = "trim" /\ tpc' = "write" /\ cursor = 1 /\ bufferToWrite' = kept
      /\ text' = [b \in Buffers |-> IF b \in S THEN <<>> ELSE text[b]]
  BY DEF Trim, appenderVars, fileVars, Emptied, TextInv, Progress
<1>2. /\ buffers \in Seq(Buffers) /\ currentBuffer \in Buffers /\ text \in AllTexts
      /\ bufferToWrite \in Seq(Buffers) /\ n \in Nat /\ IsInjective(bufferToWrite)
      /\ text = [b \in Buffers |-> text[b]]
  BY LenProperties DEF BufferInv, Shape, Apart, TextInv, Texts
<1>3. CASE ~(n > MaxBuffers)
  <2>1. kept = bufferToWrite
    BY <1>3 DEF Kept
  <2>2. S = {}
    BY <2>1
  <2>3. text' = text
    BY <1>1, <1>2, <2>2
  <2> QED
    BY <1>1, <2>1, <2>3, TextsStay
<1>4. CASE n > MaxBuffers
  <2> PICK X : X = In(text, kept)
    OBVIOUS
  <2> PICK Y : Y = In(text, SubSeq(bufferToWrite, 3, n))
    OBVIOUS
  <2>1. /\ MaxBuffers \in Nat /\ MaxBuffers >= 2 /\ 2 \in 0..n /\ MaxBuffers \in 0..n
        /\ 2 <= n - 1 /\ MaxBuffers <= n - 1
    BY <1>2, <1>4, LimitAssumption
  <2>2. kept = SubSeq(bufferToWrite, 1, 2)
    BY <1>4 DEF Kept
  <2>3. kept \in Seq(Buffers) /\ Len(kept) = 2 /\ ToSet(kept) \subseteq ToSet(bufferToWrite)
    <3>1. 2 \in 0..Len(bufferToWrite)
      BY <2>1
    <3>2. /\ SubSeq(bufferToWrite, 1, 2) \in Seq(Buffers) /\ Len(SubSeq(bufferToWrite, 1, 2)) = 2
          /\ ToSet(SubSeq(bufferToWrite, 1, 2)) \subseteq ToSet(bufferToWrite)
      BY <1>2, <3>1, PrefixFacts
    <3> QED
      BY <2>2, <3>2, Zenon
  <2>4. ToSet(bufferToWrite) \subseteq Buffers
    BY DEF ToSet, BufferInv, Shape
  <2>5. /\ S \in SUBSET Buffers /\ S \cap ToSet(buffers) = {} /\ currentBuffer \notin S
        /\ S \cap ToSet(kept) = {} /\ S \cup ToSet(kept) = ToSet(bufferToWrite)
    BY <2>3, <2>4 DEF BufferInv, Apart
  <2>6. (\A b \in Buffers : b \notin S => text'[b] = text[b]) /\ \A b \in S : text'[b] = <<>>
    BY <1>1, <2>5
  <2>7. TextInv'
    <3>1. text' \in AllTexts
      <4>1. <<>> \in Seq(Records)
        BY EmptySeq
      <4> QED
        BY <1>1, <1>2, <4>1 DEF AllTexts
    <3>2. Texts'
      BY <1>1, <3>1 DEF TextInv, Texts
    <3>3. Clean'
      BY <1>1, <2>5, <2>6 DEF TextInv, Clean
    <3>4. Full'
      <4>1. \A i \in 1..Len(buffers) : buffers[i] \in Buffers /\ buffers[i] \in ToSet(buffers)
        BY <1>2, LenProperties, ElementOfSeq DEF ToSet
      <4>2. \A i \in 1..Len(buffers) : text'[buffers[i]] # <<>>
        BY <2>5, <2>6, <4>1 DEF TextInv, Full
      <4> QED
        BY <1>1, <4>2 DEF Full
    <3>5. Progress'
      BY <1>1, <2>3 DEF Progress
    <3> QED
      BY <3>2, <3>3, <3>4, <3>5 DEF TextInv
  <2>8. Stdio' = Stdio /\ OnDisk' = OnDisk
    BY <1>1 DEF Stdio, OnDisk
  <2>9. Queued' = Queued /\ Current' = Current
    <3>1. In(text', buffers) = Queued /\ text'[currentBuffer] = Current
      BY <2>5, <2>6, PartsStay
    <3>2. Queued' = In(text', buffers) /\ Current' = text'[currentBuffer]
      BY <1>1 DEF Queued, Current
    <3> QED
      BY <3>1, <3>2, Zenon
  <2>10. Batch' = X
    <3>1. \A b \in ToSet(kept) : text'[b] = text[b]
      BY <2>3, <2>4, <2>5, <2>6
    <3>2. In(text', kept) = In(text, kept)
      BY <3>1, InAgree
    <3>3. SubSeq(kept, 1, Len(kept)) = kept
      BY <2>3, SubSeqFull
    <3>4. Batch' = In(text', SubSeq(kept, 1, Len(kept)))
      BY <1>1 DEF Batch
    <3> QED
      BY <3>2, <3>3, <3>4, Zenon
  <2>11. Batch = In(text, bufferToWrite)
    <3>1. SubSeq(bufferToWrite, 1, n) = bufferToWrite
      BY <1>2, SubSeqFull
    <3>2. Batch = In(text, SubSeq(bufferToWrite, 1, n))
      BY <1>1 DEF Batch
    <3> QED
      BY <3>1, <3>2, Zenon
  <2>12. Batch = X \o Y
    <3>1. 2 + 1 = 3
      OBVIOUS
    <3>2. In(text, bufferToWrite)
            = In(text, SubSeq(bufferToWrite, 1, 2)) \o In(text, SubSeq(bufferToWrite, 2 + 1, n))
      BY <1>2, <2>1, InSplit
    <3>3. In(text, bufferToWrite)
            = In(text, SubSeq(bufferToWrite, 1, 2)) \o In(text, SubSeq(bufferToWrite, 3, n))
      BY <3>1, <3>2
    <3> QED
      BY <2>2, <2>11, <3>3, Zenon
  <2>13. X \in Seq(Records) /\ Y \in Seq(Records)
    <3>1. SubSeq(bufferToWrite, 3, n) \in Seq(Buffers)
      <4>1. 3 \in 1..(Len(bufferToWrite) + 1)
        BY <1>2, <2>1
      <4> QED
        BY <1>2, <4>1, RestFacts
    <3> QED
      BY <1>2, <2>3, <3>1, InSeq
  <2>14. \A i \in 1..(n - 1) : text[bufferToWrite[i]] # <<>>
    BY <1>1 DEF TextInv, Full
  <2>15. X # <<>>
    <3>1. \A i \in 1..2 : text[bufferToWrite[i]] # <<>>
      BY <1>2, <2>1, <2>14
    <3>2. Len(In(text, SubSeq(bufferToWrite, 1, 2))) >= 2
      BY <1>2, <2>1, <3>1, InLong
    <3>3. Len(X) >= 2
      BY <2>2, <3>2, Zenon
    <3> QED
      BY <2>13, <3>3, EmptySeq
  <2>16. Len(Batch) \in Nat /\ Len(Batch) >= MaxBuffers
    <3>1. \A i \in 1..MaxBuffers : text[bufferToWrite[i]] # <<>>
      BY <1>2, <2>1, <2>14
    <3> PICK u : u = In(text, SubSeq(bufferToWrite, 1, MaxBuffers))
      OBVIOUS
    <3> PICK v : v = In(text, SubSeq(bufferToWrite, MaxBuffers + 1, n))
      OBVIOUS
    <3>2. Len(u) >= MaxBuffers
      BY <1>2, <2>1, <3>1, InLong
    <3>3. In(text, bufferToWrite)
            = In(text, SubSeq(bufferToWrite, 1, MaxBuffers))
              \o In(text, SubSeq(bufferToWrite, MaxBuffers + 1, n))
      BY <1>2, <2>1, InSplit
    <3>4. Batch = u \o v
      BY <2>11, <3>3, Zenon
    <3>5. /\ SubSeq(bufferToWrite, 1, MaxBuffers) \in Seq(Buffers)
          /\ SubSeq(bufferToWrite, MaxBuffers + 1, n) \in Seq(Buffers)
      BY <1>2, <2>1, InSplit
    <3>6. u \in Seq(Records) /\ v \in Seq(Records)
      BY <1>2, <3>5, InSeq
    <3>7. Len(u \o v) = Len(u) + Len(v) /\ Len(u) \in Nat /\ Len(v) \in Nat
      BY <3>6, ConcatParts
    <3> QED
      BY <2>1, <3>2, <3>4, <3>7
  <2>17. Stdio \in Seq(Records) /\ Queued \in Seq(Records) /\ Current \in Seq(Records)
    BY PartsTyped
  <2> PICK a : a = Stdio \o X
    OBVIOUS
  <2> PICK c : c = Queued \o Current
    OBVIOUS
  <2> PICK d : d = a \o Y
    OBVIOUS
  <2>18. a \in Seq(Records) /\ c \in Seq(Records) /\ d \in Seq(Records)
    BY <2>13, <2>17, ConcatProperties
  <2>19. a # <<>>
    <3>1. Len(a) = Len(Stdio) + Len(X) /\ Len(Stdio) \in Nat /\ Len(X) \in Nat
      BY <2>13, <2>17, ConcatParts
    <3>2. Len(X) # 0
      BY <2>13, <2>15, EmptySeq
    <3>3. Len(a) # 0
      BY <3>1, <3>2
    <3> QED
      BY <2>18, <3>3, EmptySeq
  <2>20. Stdio \o Batch = d
    <3>1. Associate(Stdio, X, Y)
      BY <2>13, <2>17, AllAssociate
    <3> QED
      BY <2>12, <3>1, Zenon DEF Associate
  <2>21. Pending = d \o c
    <3>1. Associate(d, Queued, Current)
      BY <2>17, <2>18, AllAssociate
    <3> QED
      BY <2>20, <3>1, PendingIs, Zenon DEF Associate
  <2>22. Pending' = a \o c
    <3>1. Associate(a, Queued, Current)
      BY <2>17, <2>18, AllAssociate
    <3> QED
      BY <2>8, <2>9, <2>10, <3>1, PendingThenIs, Zenon DEF PendingThen, Associate
  <2>23. Drops(Pending, Pending')
    <3>1. Drops((a \o Y) \o c, a \o c)
      BY <2>13, <2>18, <2>19, DropFacts
    <3> QED
      BY <2>21, <2>22, <3>1, Zenon
  <2>24. Len(Pending) >= MaxBuffers
    <3>1. Batch \in Seq(Records)
      BY PartsTyped
    <3>2. Len(Stdio \o Batch) = Len(Stdio) + Len(Batch) /\ Len(Stdio) \in Nat
      BY <2>17, <3>1, ConcatParts
    <3>3. Len(d \o c) = Len(d) + Len(c) /\ Len(d) \in Nat /\ Len(c) \in Nat
      BY <2>18, ConcatParts
    <3>4. Len(d) = Len(Stdio) + Len(Batch)
      BY <2>20, <3>2, Zenon
    <3>5. Len(Pending) = Len(d) + Len(c)
      BY <2>21, <3>3, Zenon
    <3> QED
      BY <2>1, <2>16, <3>2, <3>3, <3>4, <3>5
  <2> QED
    BY <2>7, <2>8, <2>23, <2>24
<1> QED
  BY <1>3, <1>4

(***************************************************************************)
(* The steps, and those of RecordLog that they are.                        *)
(***************************************************************************)
Open == opc \in {"new", "latch", "started"}

LEMMA StaysStutter ==
  ASSUME Pending' = Pending, OnDisk' = OnDisk, UNCHANGED appended, Open' <=> Open
  PROVE  UNCHANGED log!vars
<1>1. (opc \in {"new", "latch", "started"})' = (opc \in {"new", "latch", "started"})
  <2>1. CASE Open
    BY <2>1 DEF Open
  <2>2. CASE ~Open
    BY <2>2 DEF Open
  <2> QED
    BY <2>1, <2>2
<1> QED
  BY <1>1, Zenon DEF log!vars

LEMMA StoresIsStore ==
  ASSUME Pending \in Seq(Records), OnDisk \in Seq(Records), UNCHANGED <<appended, opc>>,
         \E k \in 0..Len(Pending) : Stores(k)
  PROVE  [log!Next]_(log!vars)
<1>1. PICK k \in 0..Len(Pending) : Stores(k)
  OBVIOUS
<1>2. Open' <=> Open
  BY DEF Open
<1>3. CASE k = 0
  <2>1. SubSeq(Pending, 1, k) = <<>> /\ SubSeq(Pending, k + 1, Len(Pending)) = Pending
    BY <1>3, SubSeqEmpty, SubSeqFull
  <2>2. OnDisk \o <<>> = OnDisk
    BY ConcatEmptySeq
  <2>3. OnDisk' = OnDisk /\ Pending' = Pending
    BY <1>1, <2>1, <2>2, Zenon DEF Stores
  <2> QED
    BY <1>2, <2>3, StaysStutter, Zenon
<1>4. CASE k # 0
  <2>1. k \in 1..Len(Pending)
    BY <1>4
  <2>2. log!Store
    BY <1>1, <2>1, Zenon DEF Stores, log!Store
  <2> QED
    BY <2>2, Zenon DEF log!Next
<1> QED
  BY <1>3, <1>4

LEMMA DropsIsDrop ==
  ASSUME Pending' = Pending \/ (Len(Pending) >= MaxBuffers /\ Drops(Pending, Pending')),
         OnDisk' = OnDisk, UNCHANGED <<appended, opc>>
  PROVE  [log!Next]_(log!vars)
<1>1. CASE Pending' = Pending
  <2>1. Open' <=> Open
    BY DEF Open
  <2> QED
    BY <1>1, <2>1, StaysStutter, Zenon
<1>2. CASE Len(Pending) >= MaxBuffers /\ Drops(Pending, Pending')
  <2>1. log!Drop
    BY <1>2, Zenon DEF Drops, log!Drop
  <2> QED
    BY <2>1, Zenon DEF log!Next
<1> QED
  BY <1>1, <1>2

LEMMA PendingTyped ==
  ASSUME BufferInv, TextInv
  PROVE  Pending \in Seq(Records) /\ OnDisk \in Seq(Records)
<1>1. Pending \in Seq(Records)
  <2> PICK a : a = Stdio \o Batch
    OBVIOUS
  <2> PICK b : b = a \o Queued
    OBVIOUS
  <2>1. a \in Seq(Records)
    BY PartsTyped, ConcatProperties
  <2>2. b \in Seq(Records)
    BY <2>1, PartsTyped, ConcatProperties
  <2>3. b \o Current \in Seq(Records)
    BY <2>2, PartsTyped, ConcatProperties
  <2> QED
    BY <2>3, PendingIs, Zenon
<1>2. OnDisk \in Seq(Records)
  <2>1. /\ Len(written) \in Nat /\ flushed \in Nat /\ flushed <= Len(written)
        /\ \A i \in 1..Len(written) : written[i] \in Records
    BY LenProperties, ElementOfSeq DEF TextInv, Texts
  <2>2. \A i \in 1..flushed : written[i] \in Records
    BY <2>1
  <2> QED
    BY <2>1, <2>2, SubSeqProperties DEF OnDisk
<1> QED
  BY <1>1, <1>2

LEMMA OutputAccepts ==
  ASSUME BufferInv, Count, TextInv, NEW th \in Threads, Output(th)
  PROVE  TextInv' /\ log!Accept
<1> PICK r : r = appended'
  OBVIOUS
<1>1. /\ place[th] = "append" /\ r = appended + 1 /\ appended' = appended + 1
      /\ AppendFits(r) \/ AppendFull(r)
      /\ UNCHANGED <<threadVars, fileVars>> /\ opc' = opc
  BY DEF Output, AppendRecord
<1>2. r \in Records
  BY <1>1, RecordToAppend
<1>3. TextInv' /\ Pending' = Append(Pending, r) /\ OnDisk' = OnDisk
  BY <1>1, <1>2, FitsAppends, FullAppends
<1>4. log!Accept
  BY <1>1, <1>3, Zenon DEF log!Accept
<1> QED
  BY <1>3, <1>4

LEMMA ThreadStores ==
  ASSUME BufferInv, TextInv, ThreadStep
  PROVE  TextInv' /\ [log!Next]_(log!vars)
<1>1. UNCHANGED <<appended, opc>>
  BY DEF ThreadStep, CountDown, Test, Sleep, TimeoutOrSpurious, Swap, Trim, WriteBuffer,
         EndWrite, Refill, Flush, appenderVars
<1>2. Open' <=> Open
  BY <1>1 DEF Open
<1>3. CASE CountDown \/ Test \/ Sleep \/ TimeoutOrSpurious \/ EndWrite
  <2>1. /\ UNCHANGED <<currentBuffer, buffers, bufferToWrite, text, written, flushed, cursor>>
        /\ tpc' # "trim" /\ (tpc' = "refill" => cursor > Len(bufferToWrite))
    BY <1>3 DEF CountDown, Test, Sleep, TimeoutOrSpurious, EndWrite, appenderVars, threadVars,
                fileVars
  <2>2. TextInv' /\ Pending' = Pending /\ OnDisk' = OnDisk
    BY <2>1, TextsStay
  <2> QED
    BY <1>1, <1>2, <2>2, StaysStutter, Zenon
<1>4. CASE Swap
  BY <1>1, <1>2, <1>4, SwapKeeps, StaysStutter, Zenon
<1>5. CASE Refill
  BY <1>1, <1>2, <1>5, RefillKeeps, StaysStutter, Zenon
<1>6. CASE Trim
  BY <1>1, <1>6, TrimDrops, DropsIsDrop, Zenon
<1>7. CASE WriteBuffer
  BY <1>1, <1>7, PendingTyped, WriteStores, StoresIsStore, Zenon
<1>8. CASE Flush
  BY <1>1, <1>8, PendingTyped, FlushStores, StoresIsStore, Zenon
<1> QED
  BY <1>3, <1>4, <1>5, <1>6, <1>7, <1>8 DEF ThreadStep

\* A step of a thread that logs, or of the owner, that leaves the buffers alone.
LEMMA OthersStutter ==
  ASSUME TextInv, UNCHANGED <<appenderVars, threadVars, fileVars, text>>,
         tpc' = tpc \/ tpc' \in {"spawned", "failed", "woken"}, Open' <=> Open
  PROVE  TextInv' /\ [log!Next]_(log!vars)
<1>1. /\ UNCHANGED <<currentBuffer, buffers, bufferToWrite, text, written, flushed, cursor>>
      /\ UNCHANGED appended
      /\ (tpc' = "trim" => tpc = "trim") /\ (tpc' = "refill" => tpc = "refill")
  BY DEF appenderVars, threadVars, fileVars
<1>2. TextInv' /\ Pending' = Pending /\ OnDisk' = OnDisk
  BY <1>1, TextsStay
<1> QED
  BY <1>1, <1>2, StaysStutter, Zenon

LEMMA StopCloses ==
  ASSUME TextInv, Stop
  PROVE  TextInv' /\ log!Close
<1>1. /\ UNCHANGED <<currentBuffer, buffers, bufferToWrite, text, written, flushed, cursor>>
      /\ UNCHANGED <<appended, tpc>> /\ opc = "started" /\ opc' = "notify"
  BY DEF Stop, appenderVars, threadVars, fileVars
<1>2. TextInv' /\ Pending' = Pending /\ OnDisk' = OnDisk
  BY <1>1, TextsStay
<1>3. Open /\ (opc' \in {"new", "latch", "started"}) = FALSE
  BY <1>1 DEF Open
<1>4. log!Close
  BY <1>1, <1>2, <1>3, Zenon DEF log!Close, Open
<1> QED
  BY <1>2, <1>4

LEMMA LogStep ==
  BufferInv /\ Count /\ TextInv /\ [Next]_allVars => TextInv' /\ [log!Next]_(log!vars)
<1> SUFFICES ASSUME BufferInv, Count, TextInv, [Next]_allVars
             PROVE  TextInv' /\ [log!Next]_(log!vars)
  OBVIOUS
<1>1. ASSUME NEW th \in Threads, Log(th) PROVE TextInv' /\ [log!Next]_(log!vars)
  <2>1. UNCHANGED vars
    BY <1>1 DEF Log
  <2>2. /\ UNCHANGED <<appenderVars, threadVars, fileVars, text>>
        /\ tpc' = tpc /\ (Open' <=> Open)
    BY <2>1 DEF vars, Open
  <2> QED
    BY <2>2, OthersStutter, Zenon
<1>2. ASSUME NEW th \in Threads, Once(th) PROVE TextInv' /\ [log!Next]_(log!vars)
  <2>1. Start \/ UNCHANGED vars
    BY <1>2 DEF Once
  <2>2. /\ UNCHANGED <<appenderVars, threadVars, fileVars, text>>
        /\ tpc' = tpc \/ tpc' \in {"spawned", "failed", "woken"}
        /\ (Open' <=> Open)
    BY <2>1 DEF Start, CreateThread, vars, Open
  <2> QED
    BY <2>2, OthersStutter, Zenon
<1>3. ASSUME NEW th \in Threads, OnceInit(th) PROVE TextInv' /\ [log!Next]_(log!vars)
  <2>1. /\ UNCHANGED <<appenderVars, threadVars, fileVars, text>>
        /\ tpc' = tpc /\ (Open' <=> Open)
    BY <1>3 DEF OnceInit, LatchWait, Open
  <2> QED
    BY <2>1, OthersStutter, Zenon
<1>4. ASSUME NEW th \in Threads, Output(th) PROVE TextInv' /\ [log!Next]_(log!vars)
  <2>1. TextInv' /\ log!Accept
    BY <1>4, OutputAccepts
  <2> QED
    BY <2>1, Zenon DEF log!Next
<1>5. CASE LogExit
  <2>1. CASE Stop
    <3>1. TextInv' /\ log!Close
      BY <2>1, StopCloses
    <3> QED
      BY <3>1, Zenon DEF log!Next
  <2>2. CASE Notify \/ Join
    <3>1. /\ UNCHANGED <<appenderVars, threadVars, fileVars, text>>
          /\ tpc' = tpc \/ tpc' \in {"spawned", "failed", "woken"}
          /\ (Open' <=> Open)
      BY <2>2 DEF Notify, Join, Notified, Open
    <3> QED
      BY <3>1, OthersStutter, Zenon
  <2> QED
    BY <1>5, <2>1, <2>2 DEF LogExit
<1>6. CASE ThreadFun
  BY <1>6, ThreadStores DEF ThreadFun
<1>7. CASE Spurious \/ UNCHANGED allVars
  <2>1. /\ UNCHANGED <<appenderVars, threadVars, fileVars, text>>
        /\ tpc' = tpc /\ (Open' <=> Open)
    BY <1>7 DEF Spurious, LatchSpurious, allVars, vars, Open
  <2> QED
    BY <2>1, OthersStutter, Zenon
<1> QED
  BY <1>1, <1>2, <1>3, <1>4, <1>5, <1>6, <1>7 DEF Next, CallerStep

LEMMA TextInvariant == Spec => []TextInv
BY TextInit, LogStep, BuffersInvariant, CountInvariant, PTL DEF Spec

\* What the buffers hold, wherever they are, is one log: append() adds a record at
\* its end, the writes and flushes of the thread move the oldest ones to the file,
\* and the trim of a backlog drops a run of records behind the oldest.
THEOREM BuffersAreOneLog == Spec => log!SafeSpec
BY TextInit, LogStep, BuffersInvariant, CountInvariant, TextInvariant, PTL DEF Spec, log!SafeSpec

(***************************************************************************)
(* Folds.  An operator that is folded is given as a function of pairs on   *)
(* the values it is for, A and X.                                          *)
(***************************************************************************)
\* A set of places has a greatest one,
LEMMA MaxFacts ==
  ASSUME NEW n \in Nat, NEW s \in SUBSET (1..n), s # {}
  PROVE  Max(s) \in s /\ \A y \in s : Max(s) >= y
<1> DEFINE T == {y \in Nat : \A x \in s : x <= y}
<1>1. n \in T
  OBVIOUS
<1>2. PICK y \in T : \A z \in T : y <= z
  BY <1>1, LeastNat
<1>3. y \in s
  <2> SUFFICES ASSUME y \notin s PROVE FALSE
    OBVIOUS
  <2>1. PICK x \in s : x \in 1..n /\ x <= y
    BY <1>2
  <2>2. y - 1 \in Nat /\ \A z \in s : z <= y - 1
    BY <1>2, <2>1
  <2>3. y - 1 \in T /\ ~(y <= y - 1)
    BY <1>2, <2>2
  <2> QED
    BY <1>2, <2>3
<1>4. \A x \in s : y >= x
  BY <1>2
<1>5. \E m \in s : \A x \in s : m >= x
  BY <1>3, <1>4
<1> QED
  BY <1>5, Zenon DEF Max

\* which is the last place of a prefix.
LEMMA MaxOfPrefix ==
  ASSUME NEW n \in Nat
  PROVE  Max(1..(n + 1)) = n + 1 /\ 1..(n + 1) \ {n + 1} = 1..n /\ 1..(n + 1) # {}
<1>1. 1..(n + 1) # {} /\ n + 1 \in 1..(n + 1) /\ 1..(n + 1) \ {n + 1} = 1..n
  OBVIOUS
<1>2. /\ Max(1..(n + 1)) \in 1..(n + 1)
      /\ \A y \in 1..(n + 1) : Max(1..(n + 1)) >= y
  <2> PICK k : k = n + 1
    OBVIOUS
  <2> PICK s : s = 1..k
    OBVIOUS
  <2>1. k \in Nat /\ s \in SUBSET (1..k) /\ s # {}
    BY <1>1
  <2>2. Max(s) \in s /\ \A y \in s : Max(s) >= y
    BY <2>1, MaxFacts
  <2> QED
    BY <2>2, Zenon
<1> PICK m : m = Max(1..(n + 1))
  OBVIOUS
<1>3. m \in 1..(n + 1) /\ m >= n + 1
  BY <1>1, <1>2, Zenon
<1>4. m = n + 1
  BY <1>3
<1> QED
  BY <1>1, <1>4

\* What a fold needs of the function that it iterates.
Folds(it, F, A, base, q) ==
  /\ it[{}] = base
  /\ \A s \in SUBSET (DOMAIN q) :
       s # {} /\ it[s \ {Max(s)}] \in A => it[s] = F[<<it[s \ {Max(s)}], q[Max(s)]>>]

\* The function that a fold iterates exists, by induction over the places.
LEMMA FoldExists ==
  ASSUME NEW A, NEW X, NEW base \in A, NEW F \in [A \X X -> A], NEW q \in Seq(X)
  PROVE  \E it \in [SUBSET (DOMAIN q) -> A] : Folds(it, F, A, base, q)
<1> DEFINE D(n) == SUBSET (1..n)
           Upto(n, f) == f[{}] = base /\ \A s \in D(n) : s # {} => f[s] = F[<<f[s \ {Max(s)}], q[Max(s)]>>]
           T == {n \in Nat : n <= Len(q) => \E f \in [D(n) -> A] : Upto(n, f)}
<1>1. Len(q) \in Nat /\ DOMAIN q = 1..Len(q) /\ \A i \in 1..Len(q) : q[i] \in X
  BY LenProperties, ElementOfSeq
<1>2. 0 \in T
  <2> DEFINE f == [s \in D(0) |-> base]
  <2>1. \A s \in D(0) : s = {}
    OBVIOUS
  <2>2. {} \in D(0) /\ f \in [D(0) -> A]
    OBVIOUS
  <2>3. Upto(0, f)
    BY <2>1, <2>2
  <2> HIDE DEF f, Upto
  <2> QED
    BY <2>2, <2>3
<1>3. ASSUME NEW n \in Nat, n \in T PROVE n + 1 \in T
  <2>1. n + 1 \in Nat
    OBVIOUS
  <2> SUFFICES ASSUME n + 1 <= Len(q) PROVE \E f \in [D(n + 1) -> A] : Upto(n + 1, f)
    BY <2>1, Zenon
  <2>2. n <= Len(q) /\ q[n + 1] \in X
    BY <1>1
  <2>3. PICK f \in [D(n) -> A] : Upto(n, f)
    BY <1>3, <2>2, Zenon
  <2>4. \A s \in D(n + 1) : n + 1 \in s => s \ {n + 1} \in D(n)
    OBVIOUS
  <2>5. \A s \in D(n + 1) : n + 1 \notin s => s \in D(n)
    OBVIOUS
  <2>6. \A s \in D(n + 1) : n + 1 \in s => Max(s) = n + 1
    <3> SUFFICES ASSUME NEW s \in D(n + 1), n + 1 \in s PROVE Max(s) = n + 1
      OBVIOUS
    <3>1. Max(s) \in s /\ \A y \in s : Max(s) >= y
      BY <2>1, MaxFacts
    <3> PICK m : m = Max(s)
      OBVIOUS
    <3>2. m \in 1..(n + 1) /\ m >= n + 1
      BY <3>1
    <3>3. m = n + 1
      BY <3>2
    <3> QED
      BY <3>3
  <2>7. \A s \in D(n) : s \ {Max(s)} \in D(n)
    OBVIOUS
  <2> DEFINE g == [s \in D(n + 1) |-> IF n + 1 \in s THEN F[<<f[s \ {n + 1}], q[n + 1]>>] ELSE f[s]]
  <2>8. g \in [D(n + 1) -> A]
    <3> SUFFICES ASSUME NEW s \in D(n + 1) PROVE g[s] \in A
      OBVIOUS
    <3>1. CASE n + 1 \in s
      <4>1. f[s \ {n + 1}] \in A
        BY <2>3, <2>4, <3>1
      <4>2. F[<<f[s \ {n + 1}], q[n + 1]>>] \in A
        BY <2>2, <4>1
      <4> QED
        BY <3>1, <4>2
    <3>2. CASE n + 1 \notin s
      BY <2>3, <2>5, <3>2
    <3> QED
      BY <3>1, <3>2
  <2>9. \A s \in D(n) : g[s] = f[s] /\ s \in D(n + 1)
    <3> SUFFICES ASSUME NEW s \in D(n) PROVE g[s] = f[s] /\ s \in D(n + 1)
      OBVIOUS
    <3>1. s \in D(n + 1) /\ n + 1 \notin s
      OBVIOUS
    <3> QED
      BY <3>1
  <2>10. Upto(n + 1, g)
    <3>1. g[{}] = base
      <4>1. {} \in D(n)
        OBVIOUS
      <4> QED
        BY <2>3, <2>9, <4>1
    <3>2. ASSUME NEW s \in D(n + 1), s # {} PROVE g[s] = F[<<g[s \ {Max(s)}], q[Max(s)]>>]
      <4>1. CASE n + 1 \in s
        <5>1. Max(s) = n + 1 /\ s \ {n + 1} \in D(n)
          BY <2>4, <2>6, <4>1
        <5>2. g[s] = F[<<f[s \ {n + 1}], q[n + 1]>>]
          BY <4>1
        <5> HIDE DEF g
        <5> QED
          BY <2>9, <5>1, <5>2
      <4>2. CASE n + 1 \notin s
        <5>1. s \in D(n)
          BY <2>5, <4>2
        <5>2. s \ {Max(s)} \in D(n)
          BY <2>7, <3>2, <5>1
        <5>3. f[s] = F[<<f[s \ {Max(s)}], q[Max(s)]>>]
          BY <2>3, <3>2, <5>1
        <5> HIDE DEF g
        <5> QED
          BY <2>9, <5>1, <5>2, <5>3
      <4> QED
        BY <4>1, <4>2
    <3> HIDE DEF g
    <3> QED
      BY <3>1, <3>2
  <2> HIDE DEF g, Upto
  <2> QED
    BY <2>8, <2>10
<1>4. \A n \in Nat : n \in T
  <2> HIDE DEF T
  <2> QED
    BY <1>2, <1>3, AllNumbers
<1>5. PICK f \in [D(Len(q)) -> A] : Upto(Len(q), f)
  <2>1. Len(q) \in Nat /\ Len(q) <= Len(q)
    BY <1>1
  <2> QED
    BY <1>4, <2>1, Zenon
<1>6. Folds(f, F, A, base, q)
  BY <1>1, <1>5 DEF Folds
<1> QED
  BY <1>1, <1>5, <1>6

\* A fold takes its elements from the left.
StepOf(A, F, q, x, p, it, jt) == it[DOMAIN q] \in A /\ jt[DOMAIN p] = F[<<it[DOMAIN q], x>>]
OneMore(A, X, base, F, q, x, p, it, jt) ==
  /\ base \in A /\ F \in [A \X X -> A] /\ q \in Seq(X) /\ x \in X /\ p = Append(q, x)
  /\ Folds(it, F, A, base, q) /\ Folds(jt, F, A, base, p)

\* A fold over one more element applies F once more.
LEMMA FoldStep ==
  ASSUME NEW A, NEW X, NEW base, NEW F, NEW q, NEW x, NEW p, NEW it, NEW jt,
         OneMore(A, X, base, F, q, x, p, it, jt)
  PROVE  StepOf(A, F, q, x, p, it, jt)
<1>0. /\ base \in A /\ F \in [A \X X -> A] /\ q \in Seq(X) /\ x \in X /\ p = Append(q, x)
      /\ Folds(it, F, A, base, q) /\ Folds(jt, F, A, base, p)
  BY Zenon DEF OneMore
<1> USE <1>0
<1> DEFINE T == {n \in Nat : n <= Len(q) => it[1..n] \in A /\ jt[1..n] = it[1..n]}
<1>1. Len(q) \in Nat /\ DOMAIN q = 1..Len(q) /\ \A i \in 1..Len(q) : q[i] \in X
  BY LenProperties, ElementOfSeq
<1>2. /\ p \in Seq(X) /\ Len(p) = Len(q) + 1 /\ DOMAIN p = 1..(Len(q) + 1)
      /\ (\A i \in 1..Len(q) : p[i] = q[i]) /\ p[Len(q) + 1] = x
  BY <1>1, AppendProperties, LenProperties
<1>3. ASSUME NEW n \in Nat, n + 1 <= Len(q), it[1..n] \in A
      PROVE  it[1..(n + 1)] = F[<<it[1..n], q[n + 1]>>]
  <2> PICK s : s = 1..(n + 1)
    OBVIOUS
  <2>1. s \in SUBSET (DOMAIN q) /\ s # {}
    BY <1>1, <1>3
  <2>2. Max(s) = n + 1 /\ s \ {n + 1} = 1..n
    BY MaxOfPrefix
  <2>3. s \ {Max(s)} = 1..n
    BY <2>2, Zenon
  <2>4. it[s \ {Max(s)}] \in A
    BY <1>3, <2>3, Zenon
  <2>5. it[s] = F[<<it[s \ {Max(s)}], q[Max(s)]>>]
    BY <2>1, <2>4, Zenon DEF Folds
  <2> QED
    BY <2>2, <2>3, <2>5, Zenon
<1>4. ASSUME NEW n \in Nat, n + 1 <= Len(p), jt[1..n] \in A
      PROVE  jt[1..(n + 1)] = F[<<jt[1..n], p[n + 1]>>]
  <2> PICK s : s = 1..(n + 1)
    OBVIOUS
  <2>1. s \in SUBSET (DOMAIN p) /\ s # {}
    BY <1>1, <1>2, <1>4
  <2>2. Max(s) = n + 1 /\ s \ {n + 1} = 1..n
    BY MaxOfPrefix
  <2>3. s \ {Max(s)} = 1..n
    BY <2>2, Zenon
  <2>4. jt[s \ {Max(s)}] \in A
    BY <1>4, <2>3, Zenon
  <2>5. Folds(jt, F, A, base, p)
    BY Zenon
  <2>6. jt[s] = F[<<jt[s \ {Max(s)}], p[Max(s)]>>]
    BY <2>1, <2>4, <2>5, Zenon DEF Folds
  <2> QED
    BY <2>2, <2>3, <2>6, Zenon
<1>5. 0 \in T
  <2>1. 1..0 = {}
    OBVIOUS
  <2>2. it[{}] = base /\ jt[{}] = base
    BY DEF Folds
  <2> QED
    BY <2>1, <2>2
<1>6. ASSUME NEW n \in Nat, n \in T PROVE n + 1 \in T
  <2> SUFFICES ASSUME n + 1 <= Len(q) PROVE it[1..(n + 1)] \in A /\ jt[1..(n + 1)] = it[1..(n + 1)]
    OBVIOUS
  <2>1. it[1..n] \in A /\ jt[1..n] = it[1..n] /\ n + 1 <= Len(p) /\ n + 1 \in 1..Len(q)
    BY <1>1, <1>2, <1>6
  <2>2. it[1..(n + 1)] = F[<<it[1..n], q[n + 1]>>] /\ q[n + 1] \in X
    BY <1>1, <1>3, <2>1
  <2>3. jt[1..(n + 1)] = F[<<jt[1..n], p[n + 1]>>] /\ p[n + 1] = q[n + 1]
    BY <1>2, <1>4, <2>1
  <2>4. F[<<it[1..n], q[n + 1]>>] \in A
    BY <2>1, <2>2
  <2> QED
    BY <2>1, <2>2, <2>3, <2>4
<1>7. \A n \in Nat : n \in T
  <2> HIDE DEF T
  <2> QED
    BY <1>5, <1>6, AllNumbers
<1>8. it[1..Len(q)] \in A /\ jt[1..Len(q)] = it[1..Len(q)]
  BY <1>1, <1>7
<1>9. jt[1..(Len(q) + 1)] = F[<<jt[1..Len(q)], p[Len(q) + 1]>>]
  BY <1>1, <1>2, <1>4, <1>8
<1> QED
  BY <1>1, <1>2, <1>8, <1>9 DEF StepOf

(***************************************************************************)
(* The text of a record, piece by piece.                                   *)
(***************************************************************************)
\* STRING, and the characters the logger adds, which the provers do not know to be in it.
Alphabet == STRING \cup ToSet(Decimals) \cup ToSet(Hexadecimals) \cup {"-", "x", " ", ":", "\n"}
Strings == Seq(Alphabet)
Insertion(X) == [p \in Strings \X X |-> stream!Insert(p[1], p[2])]

IsText(it, q) ==
  it = [s \in SUBSET (DOMAIN q) |->
          IF s = {} THEN <<>>
          ELSE stream!Insert(it[s \ {stream!Max(s)}], q[stream!Max(s)])]

\* Text is the fold of Insert over the pieces of a record.
LEMMA TextIsFold ==
  ASSUME NEW q, \E it : IsText(it, q)
  PROVE  \E it : IsText(it, q) /\ stream!Text(q) = it[DOMAIN q]
<1> PICK it : it = CHOOSE iter : IsText(iter, q)
  OBVIOUS
<1>1. IsText(it, q)
  BY Zenon
<1>2. stream!Text(q) = it[DOMAIN q]
  BY Zenon DEF stream!Text, stream!FoldLeft, stream!MapThenFoldSet, IsText
<1> QED
  BY <1>1, <1>2, Zenon

IsNumber(it, q, digits) ==
  it = [s \in SUBSET (DOMAIN q) |->
          IF s = {} THEN 0
          ELSE Len(digits) * it[s \ {Max(s)}] + Digit(q[Max(s)], digits)]

\* Number is a fold over the digits, the first one first.
LEMMA NumberIsFold ==
  ASSUME NEW q, NEW digits, \E it : IsNumber(it, q, digits)
  PROVE  \E it : IsNumber(it, q, digits) /\ Number(q, digits) = it[DOMAIN q]
<1> PICK it : it = CHOOSE iter : IsNumber(iter, q, digits)
  OBVIOUS
<1>1. IsNumber(it, q, digits)
  BY Zenon
<1>2. Number(q, digits) = it[DOMAIN q]
  BY Zenon DEF Number, FoldLeft, MapThenFoldSet, IsNumber
<1> QED
  BY <1>1, <1>2, Zenon

LEMMA SameMax == \A s : stream!Max(s) = Max(s)
BY Zenon DEF Max, stream!Max

LEMMA LastElement ==
  ASSUME NEW X, NEW q \in Seq(X), NEW s \in SUBSET (DOMAIN q), s # {}
  PROVE  Max(s) \in DOMAIN q /\ q[Max(s)] \in X /\ s \ {Max(s)} \in SUBSET (DOMAIN q)
<1>1. Len(q) \in Nat /\ DOMAIN q = 1..Len(q) /\ \A i \in 1..Len(q) : q[i] \in X
  BY LenProperties, ElementOfSeq
<1>2. Max(s) \in s
  BY <1>1, MaxFacts
<1> QED
  BY <1>1, <1>2

\* Both are folds in the sense of Folds.
LEMMA TextFolds ==
  ASSUME NEW X, \A x \in X : stream!Characters(x) \in Strings, NEW q \in Seq(X)
  PROVE  /\ Insertion(X) \in [Strings \X X -> Strings]
         /\ \E it : IsText(it, q)
         /\ \A it : IsText(it, q) => Folds(it, Insertion(X), Strings, <<>>, q)
<1> PICK F : F = Insertion(X)
  OBVIOUS
<1>1. \A t \in Strings, x \in X : stream!Insert(t, x) \in Strings /\ F[<<t, x>>] = stream!Insert(t, x)
  <2> SUFFICES ASSUME NEW t \in Strings, NEW x \in X
               PROVE  stream!Insert(t, x) \in Strings /\ F[<<t, x>>] = stream!Insert(t, x)
    OBVIOUS
  <2>1. t \o stream!Characters(x) \in Strings
    BY ConcatProperties DEF Strings
  <2>2. stream!Insert(t, x) \in Strings
    BY <2>1, Zenon DEF stream!Insert
  <2>3. <<t, x>> \in Strings \X X /\ <<t, x>>[1] = t /\ <<t, x>>[2] = x
    OBVIOUS
  <2>4. F[<<t, x>>] = stream!Insert(<<t, x>>[1], <<t, x>>[2])
    BY <2>3, Zenon DEF Insertion
  <2> QED
    BY <2>2, <2>3, <2>4, Zenon
<1>2. F \in [Strings \X X -> Strings]
  <2>1. \A p \in Strings \X X : p[1] \in Strings /\ p[2] \in X
    OBVIOUS
  <2>2. \A p \in Strings \X X : stream!Insert(p[1], p[2]) \in Strings
    BY <1>1, <2>1
  <2> QED
    BY <2>2, Zenon DEF Insertion
<1>3. <<>> \in Strings
  BY EmptySeq DEF Strings
<1>4. \E it : IsText(it, q)
  <2>1. PICK it \in [SUBSET (DOMAIN q) -> Strings] : Folds(it, F, Strings, <<>>, q)
    BY <1>2, <1>3, FoldExists
  <2>2. ASSUME NEW s \in SUBSET (DOMAIN q)
        PROVE  it[s] = IF s = {} THEN <<>> ELSE stream!Insert(it[s \ {Max(s)}], q[Max(s)])
    <3>1. CASE s = {}
      BY <2>1, <3>1, Zenon DEF Folds
    <3>2. CASE s # {}
      <4>1. q[Max(s)] \in X /\ s \ {Max(s)} \in SUBSET (DOMAIN q)
        BY <3>2, LastElement
      <4>2. it[s \ {Max(s)}] \in Strings
        BY <2>1, <4>1, Zenon
      <4>3. it[s] = F[<<it[s \ {Max(s)}], q[Max(s)]>>]
        BY <2>1, <3>2, <4>2, Zenon DEF Folds
      <4> QED
        BY <1>1, <3>2, <4>1, <4>2, <4>3, Zenon
    <3> QED
      BY <3>1, <3>2
  <2>3. it = [s \in SUBSET (DOMAIN q) |->
                IF s = {} THEN <<>> ELSE stream!Insert(it[s \ {Max(s)}], q[Max(s)])]
    BY <2>1, <2>2, Zenon
  <2>4. IsText(it, q)
    BY <2>3, Zenon DEF IsText, Max, stream!Max
  <2> QED
    BY <2>4, Zenon
<1>5. ASSUME NEW it, IsText(it, q) PROVE Folds(it, F, Strings, <<>>, q)
  <2>1. it = [s \in SUBSET (DOMAIN q) |->
                IF s = {} THEN <<>> ELSE stream!Insert(it[s \ {Max(s)}], q[Max(s)])]
    BY <1>5, Zenon DEF IsText, Max, stream!Max
  <2>2. it[{}] = <<>>
    <3>1. {} \in SUBSET (DOMAIN q)
      OBVIOUS
    <3> QED
      BY <2>1, <3>1, Zenon
  <2>3. ASSUME NEW s \in SUBSET (DOMAIN q), s # {}, it[s \ {Max(s)}] \in Strings
        PROVE  it[s] = F[<<it[s \ {Max(s)}], q[Max(s)]>>]
    <3>1. q[Max(s)] \in X
      BY <2>3, LastElement
    <3>2. it[s] = stream!Insert(it[s \ {Max(s)}], q[Max(s)])
      BY <2>1, <2>3, Zenon
    <3> QED
      BY <1>1, <2>3, <3>1, <3>2, Zenon
  <2> QED
    BY <2>2, <2>3, Zenon DEF Folds
<1> QED
  BY <1>2, <1>4, <1>5, Zenon

\* operator<< of one more piece appends to the text, or leaves it as it is.
LEMMA TextStep ==
  ASSUME NEW X, \A x \in X : stream!Characters(x) \in Strings, NEW q \in Seq(X), NEW x \in X
  PROVE  /\ stream!Text(q) \in Strings
         /\ stream!Text(Append(q, x)) = stream!Insert(stream!Text(q), x)
<1> PICK F : F = Insertion(X)
  OBVIOUS
<1> PICK p : p = Append(q, x)
  OBVIOUS
<1>1. p \in Seq(X)
  BY AppendProperties
<1>2. F \in [Strings \X X -> Strings] /\ <<>> \in Strings
  BY TextFolds, EmptySeq DEF Strings
<1>3. PICK it : IsText(it, q) /\ stream!Text(q) = it[DOMAIN q]
  BY TextFolds, TextIsFold
<1>4. PICK jt : IsText(jt, p) /\ stream!Text(p) = jt[DOMAIN p]
  BY <1>1, TextFolds, TextIsFold
<1>5. Folds(it, F, Strings, <<>>, q)
  BY <1>3, TextFolds
<1>6. Folds(jt, F, Strings, <<>>, p)
  BY <1>1, <1>4, TextFolds
<1>7. it[DOMAIN q] \in Strings /\ jt[DOMAIN p] = F[<<it[DOMAIN q], x>>]
  <2>1. OneMore(Strings, X, <<>>, F, q, x, p, it, jt)
    BY <1>2, <1>5, <1>6, Zenon DEF OneMore
  <2>2. StepOf(Strings, F, q, x, p, it, jt)
    BY <2>1, FoldStep, Zenon
  <2> QED
    BY <2>2, Zenon DEF StepOf
<1> PICK t : t = it[DOMAIN q]
  OBVIOUS
<1>8. <<t, x>> \in Strings \X X /\ <<t, x>>[1] = t /\ <<t, x>>[2] = x
  BY <1>7
<1>9. F[<<t, x>>] = stream!Insert(<<t, x>>[1], <<t, x>>[2])
  BY <1>8, Zenon DEF Insertion
<1>10. F[<<t, x>>] = stream!Insert(t, x)
  BY <1>8, <1>9, Zenon
<1> QED
  BY <1>3, <1>4, <1>7, <1>10, Zenon DEF Strings

LEMMA TextEmpty == stream!Text(<<>>) = <<>>
<1>1. <<>> \in Seq({}) /\ \A x \in {} : stream!Characters(x) \in Strings
  BY EmptySeq
<1>2. PICK it : IsText(it, <<>>) /\ stream!Text(<<>>) = it[DOMAIN <<>>]
  BY <1>1, TextFolds, TextIsFold
<1>3. it[{}] = <<>>
  BY <1>1, <1>2, TextFolds, Zenon DEF Folds
<1>4. DOMAIN <<>> = {}
  OBVIOUS
<1> QED
  BY <1>2, <1>3, <1>4, Zenon

(***************************************************************************)
(* The number that digits write.                                           *)
(***************************************************************************)
IsDigits(digits, b) ==
  /\ b \in Nat \ {0} /\ Len(digits) = b
  /\ \A c \in ToSet(digits) : Digit(c, digits) \in 0..(b - 1)
  /\ \A n, d \in Nat : b * n \in Nat /\ b * n + d \in Nat

Shift(digits, b) == [p \in Nat \X ToSet(digits) |-> b * p[1] + Digit(p[2], digits)]

LEMMA NumberFolds ==
  ASSUME NEW digits, NEW b, IsDigits(digits, b), NEW q \in Seq(ToSet(digits))
  PROVE  /\ Shift(digits, b) \in [Nat \X ToSet(digits) -> Nat]
         /\ \E it : IsNumber(it, q, digits)
         /\ \A it : IsNumber(it, q, digits) => Folds(it, Shift(digits, b), Nat, 0, q)
<1> PICK F : F = Shift(digits, b)
  OBVIOUS
<1> PICK X : X = ToSet(digits)
  OBVIOUS
<1>0. \A x \in X : Digit(x, digits) \in Nat
  BY DEF IsDigits
<1>1. \A t \in Nat, x \in X : b * t + Digit(x, digits) \in Nat /\ F[<<t, x>>] = b * t + Digit(x, digits)
  <2> SUFFICES ASSUME NEW t \in Nat, NEW x \in X
               PROVE  b * t + Digit(x, digits) \in Nat /\ F[<<t, x>>] = b * t + Digit(x, digits)
    OBVIOUS
  <2>1. b * t + Digit(x, digits) \in Nat
    BY <1>0, Zenon DEF IsDigits
  <2>2. <<t, x>> \in Nat \X X /\ <<t, x>>[1] = t /\ <<t, x>>[2] = x
    OBVIOUS
  <2>3. F[<<t, x>>] = b * <<t, x>>[1] + Digit(<<t, x>>[2], digits)
    BY <2>2, Zenon DEF Shift
  <2> QED
    BY <2>1, <2>2, <2>3, Zenon
<1>2. F \in [Nat \X X -> Nat]
  <2>1. \A p \in Nat \X X : p[1] \in Nat /\ p[2] \in X
    OBVIOUS
  <2>2. \A p \in Nat \X X : b * p[1] + Digit(p[2], digits) \in Nat
    BY <1>1, <2>1, Zenon
  <2> QED
    BY <2>2, Zenon DEF Shift
<1>3. 0 \in Nat /\ q \in Seq(X)
  OBVIOUS
<1>4. \E it : IsNumber(it, q, digits)
  <2>1. PICK it \in [SUBSET (DOMAIN q) -> Nat] : Folds(it, F, Nat, 0, q)
    BY <1>2, <1>3, FoldExists
  <2>2. ASSUME NEW s \in SUBSET (DOMAIN q)
        PROVE  it[s] = IF s = {} THEN 0
                       ELSE Len(digits) * it[s \ {Max(s)}] + Digit(q[Max(s)], digits)
    <3>1. CASE s = {}
      BY <2>1, <3>1, Zenon DEF Folds
    <3>2. CASE s # {}
      <4>1. q[Max(s)] \in X /\ s \ {Max(s)} \in SUBSET (DOMAIN q)
        BY <1>3, <3>2, LastElement
      <4>2. it[s \ {Max(s)}] \in Nat
        BY <2>1, <4>1, Zenon
      <4>3. it[s] = F[<<it[s \ {Max(s)}], q[Max(s)]>>]
        BY <2>1, <3>2, <4>2, Zenon DEF Folds
      <4>4. it[s] = b * it[s \ {Max(s)}] + Digit(q[Max(s)], digits)
        BY <1>1, <4>1, <4>2, <4>3, Zenon
      <4>5. Len(digits) = b
        BY Zenon DEF IsDigits
      <4> QED
        BY <3>2, <4>4, <4>5, Zenon
    <3> QED
      BY <3>1, <3>2
  <2>3. it = [s \in SUBSET (DOMAIN q) |->
                IF s = {} THEN 0
                ELSE Len(digits) * it[s \ {Max(s)}] + Digit(q[Max(s)], digits)]
    BY <2>1, <2>2, Zenon
  <2> QED
    BY <2>3, Zenon DEF IsNumber
<1>5. ASSUME NEW it, IsNumber(it, q, digits) PROVE Folds(it, F, Nat, 0, q)
  <2>1. it = [s \in SUBSET (DOMAIN q) |->
                IF s = {} THEN 0
                ELSE Len(digits) * it[s \ {Max(s)}] + Digit(q[Max(s)], digits)]
    BY <1>5, Zenon DEF IsNumber
  <2>2. it[{}] = 0
    <3>1. {} \in SUBSET (DOMAIN q)
      OBVIOUS
    <3> QED
      BY <2>1, <3>1, Zenon
  <2>3. ASSUME NEW s \in SUBSET (DOMAIN q), s # {}, it[s \ {Max(s)}] \in Nat
        PROVE  it[s] = F[<<it[s \ {Max(s)}], q[Max(s)]>>]
    <3>1. q[Max(s)] \in X
      BY <1>3, <2>3, LastElement
    <3>2. it[s] = Len(digits) * it[s \ {Max(s)}] + Digit(q[Max(s)], digits)
      BY <2>1, <2>3, Zenon
    <3>3. Len(digits) = b
      BY Zenon DEF IsDigits
    <3> QED
      BY <1>1, <2>3, <3>1, <3>2, <3>3, Zenon
  <2> QED
    BY <2>2, <2>3, Zenon DEF Folds
<1> QED
  BY <1>2, <1>4, <1>5, Zenon

\* One more digit: b times the number so far, and the digit.
LEMMA NumberStep ==
  ASSUME NEW digits, NEW b, IsDigits(digits, b), NEW q \in Seq(ToSet(digits)),
         NEW x \in ToSet(digits)
  PROVE  /\ Number(q, digits) \in Nat
         /\ Number(Append(q, x), digits) = b * Number(q, digits) + Digit(x, digits)
<1> PICK F : F = Shift(digits, b)
  OBVIOUS
<1> PICK X : X = ToSet(digits)
  OBVIOUS
<1> PICK p : p = Append(q, x)
  OBVIOUS
<1>1. q \in Seq(X) /\ x \in X /\ p \in Seq(ToSet(digits))
  BY AppendProperties
<1>2. F \in [Nat \X X -> Nat] /\ 0 \in Nat
  BY NumberFolds
<1>3. PICK it : IsNumber(it, q, digits) /\ Number(q, digits) = it[DOMAIN q]
  BY NumberFolds, NumberIsFold
<1>4. PICK jt : IsNumber(jt, p, digits) /\ Number(p, digits) = jt[DOMAIN p]
  BY <1>1, NumberFolds, NumberIsFold
<1>5. Folds(it, F, Nat, 0, q)
  BY <1>3, NumberFolds
<1>6. Folds(jt, F, Nat, 0, p)
  BY <1>1, <1>4, NumberFolds
<1>7. it[DOMAIN q] \in Nat /\ jt[DOMAIN p] = F[<<it[DOMAIN q], x>>]
  <2>1. OneMore(Nat, X, 0, F, q, x, p, it, jt)
    BY <1>1, <1>2, <1>5, <1>6, Zenon DEF OneMore
  <2>2. StepOf(Nat, F, q, x, p, it, jt)
    BY <2>1, FoldStep, Zenon
  <2> QED
    BY <2>2, Zenon DEF StepOf
<1> PICK t : t = it[DOMAIN q]
  OBVIOUS
<1>8. <<t, x>> \in Nat \X X /\ <<t, x>>[1] = t /\ <<t, x>>[2] = x
  BY <1>7
<1>9. F[<<t, x>>] = b * <<t, x>>[1] + Digit(<<t, x>>[2], digits)
  BY <1>8, Zenon DEF Shift
<1>10. F[<<t, x>>] = b * t + Digit(x, digits)
  BY <1>8, <1>9, Zenon
<1> QED
  BY <1>3, <1>4, <1>7, <1>10, Zenon

LEMMA NumberEmpty ==
  ASSUME NEW digits, NEW b, IsDigits(digits, b)
  PROVE  Number(<<>>, digits) = 0
<1>1. <<>> \in Seq(ToSet(digits))
  BY EmptySeq
<1>2. PICK it : IsNumber(it, <<>>, digits) /\ Number(<<>>, digits) = it[DOMAIN <<>>]
  BY <1>1, NumberFolds, NumberIsFold
<1>3. it[{}] = 0
  BY <1>1, <1>2, NumberFolds, Zenon DEF Folds
<1>4. DOMAIN <<>> = {}
  OBVIOUS
<1> QED
  BY <1>2, <1>3, <1>4, Zenon

\* A digit stands for the place where it is in its list.
LEMMA DigitFacts ==
  ASSUME NEW digits, IsInjective(digits), NEW i \in DOMAIN digits
  PROVE  Digit(digits[i], digits) = i - 1
<1>1. \A j \in DOMAIN digits : digits[j] = digits[i] => j = i
  BY DEF IsInjective
<1> PICK j : j = CHOOSE k \in DOMAIN digits : digits[k] = digits[i]
  OBVIOUS
<1>2. j \in DOMAIN digits /\ digits[j] = digits[i]
  BY Zenon
<1>3. j = i
  BY <1>1, <1>2, Zenon
<1> QED
  BY <1>3, Zenon DEF Digit

\* A list of b digits.
DigitList(digits, b) ==
  /\ b \in Nat \ {0} /\ Len(digits) = b /\ DOMAIN digits = 1..b /\ IsInjective(digits)
  /\ \A n, d \in Nat : b * n \in Nat /\ b * n + d \in Nat

LEMMA DigitsFacts ==
  ASSUME NEW b, NEW digits, DigitList(digits, b)
  PROVE  IsDigits(digits, b)
<1>1. ASSUME NEW c \in ToSet(digits) PROVE Digit(c, digits) \in 0..(b - 1)
  <2>1. PICK i \in DOMAIN digits : c = digits[i]
    BY DEF ToSet
  <2>2. Digit(c, digits) = i - 1
    BY <2>1, DigitFacts DEF DigitList
  <2> QED
    BY <2>1, <2>2 DEF DigitList
<1> QED
  BY <1>1, Zenon DEF IsDigits, DigitList

LEMMA DecimalsFacts == DigitList(Decimals, 10) /\ IsDigits(Decimals, 10)
<1>1. Len(Decimals) = 10 /\ DOMAIN Decimals = 1..10
  BY DEF Decimals
<1>2. IsInjective(Decimals)
  <2>1. \A i, j \in 1..10 : Decimals[i] = Decimals[j] => i = j
    BY DEF Decimals
  <2> QED
    BY <1>1, <2>1 DEF IsInjective
<1>3. DigitList(Decimals, 10)
  BY <1>1, <1>2 DEF DigitList
<1> QED
  BY <1>3, DigitsFacts, Zenon

LEMMA HexadecimalsFacts == DigitList(Hexadecimals, 16) /\ IsDigits(Hexadecimals, 16)
<1>1. Len(Hexadecimals) = 16 /\ DOMAIN Hexadecimals = 1..16
  BY DEF Hexadecimals
<1>2. IsInjective(Hexadecimals)
  <2>1. \A i, j \in 1..16 : Hexadecimals[i] = Hexadecimals[j] => i = j
    BY DEF Hexadecimals
  <2> QED
    BY <1>1, <2>1 DEF IsInjective
<1>3. DigitList(Hexadecimals, 16)
  BY <1>1, <1>2 DEF DigitList
<1> QED
  BY <1>3, DigitsFacts, Zenon

(***************************************************************************)
(* Numbers written digit by digit.  The value of i is a[i], its last digit *)
(* d[i], and q[i] what is left of it.                                      *)
(***************************************************************************)
IsScale(I, C, a, d, q) ==
  \A i \in I : /\ a[i] \in Nat /\ d[i] \in C
               /\ q[i] # 0 => q[i] \in I /\ a[q[i]] < a[i]

Rest(f, i, q) == IF q[i] = 0 THEN <<>> ELSE f[q[i]]
Below(I, a, n) == {i \in I : a[i] < n}
Writes(f, S, C, d, q) ==
  f \in [S -> Seq(C)] /\ \A i \in S : f[i] = <<d[i]>> \o Rest(f, i, q)

Agree(f, g, I, a, n, m) == \A i \in I : a[i] < n /\ a[i] < m => f[i] = g[i]

\* Two functions that write digits agree where both are defined,
LEMMA WritesOne ==
  ASSUME NEW I, NEW C, NEW a, NEW d, NEW q, IsScale(I, C, a, d, q),
         NEW n \in Nat, NEW m \in Nat, NEW f, NEW g,
         Writes(f, Below(I, a, n), C, d, q), Writes(g, Below(I, a, m), C, d, q)
  PROVE  Agree(f, g, I, a, n, m)
<1> DEFINE T == {k \in Nat : \A i \in I : a[i] < k /\ a[i] < n /\ a[i] < m => f[i] = g[i]}
<1>0. \A i \in I : a[i] \in Nat /\ (q[i] # 0 => q[i] \in I /\ a[q[i]] < a[i])
  BY Zenon DEF IsScale
<1>1. \A i \in I : /\ a[i] < n => f[i] = <<d[i]>> \o Rest(f, i, q)
                   /\ a[i] < m => g[i] = <<d[i]>> \o Rest(g, i, q)
  BY Zenon DEF Writes, Below
<1>2. 0 \in T
  BY <1>0
<1>3. ASSUME NEW k \in Nat, k \in T PROVE k + 1 \in T
  <2> SUFFICES ASSUME NEW i \in I, a[i] < k + 1, a[i] < n, a[i] < m PROVE f[i] = g[i]
    BY <1>3
  <2>1. Rest(f, i, q) = Rest(g, i, q)
    <3>1. CASE q[i] = 0
      BY <3>1, Zenon DEF Rest
    <3>2. CASE q[i] # 0
      <4>1. q[i] \in I /\ a[q[i]] \in Nat /\ a[q[i]] < k /\ a[q[i]] < n /\ a[q[i]] < m
        BY <1>0, <3>2
      <4>2. f[q[i]] = g[q[i]]
        BY <1>3, <4>1
      <4> QED
        BY <3>2, <4>2, Zenon DEF Rest
    <3> QED
      BY <3>1, <3>2
  <2> QED
    BY <1>1, <2>1, Zenon
<1>4. \A k \in Nat : k \in T
  <2> HIDE DEF T
  <2> QED
    BY <1>2, <1>3, AllNumbers
<1> SUFFICES ASSUME NEW i \in I, a[i] < n, a[i] < m PROVE f[i] = g[i]
  BY Zenon DEF Agree
<1> QED
  BY <1>4

\* there is one for the numbers below any bound,
LEMMA WritesExists ==
  ASSUME NEW I, NEW C, NEW a, NEW d, NEW q, IsScale(I, C, a, d, q)
  PROVE  \A n \in Nat : \E f : Writes(f, Below(I, a, n), C, d, q)
<1> DEFINE T == {n \in Nat : \E f : Writes(f, Below(I, a, n), C, d, q)}
<1>0. \A i \in I : a[i] \in Nat /\ d[i] \in C /\ (q[i] # 0 => q[i] \in I /\ a[q[i]] < a[i])
  BY Zenon DEF IsScale
<1>1. 0 \in T
  <2>1. Below(I, a, 0) = {}
    BY <1>0 DEF Below
  <2> DEFINE f == [i \in {} |-> <<>>]
  <2>2. f \in [{} -> Seq(C)]
    OBVIOUS
  <2> HIDE DEF f
  <2>3. Writes(f, Below(I, a, 0), C, d, q)
    BY <2>1, <2>2, Zenon DEF Writes
  <2> QED
    BY <2>3
<1>2. ASSUME NEW n \in Nat, n \in T PROVE n + 1 \in T
  <2>1. PICK f : Writes(f, Below(I, a, n), C, d, q)
    BY <1>2, Zenon
  <2>2. /\ \A j \in I : a[j] < n => f[j] \in Seq(C)
        /\ \A j \in I : a[j] < n => f[j] = <<d[j]>> \o Rest(f, j, q)
    BY <2>1, Zenon DEF Writes, Below
  <2> DEFINE g == [i \in Below(I, a, n + 1) |-> <<d[i]>> \o Rest(f, i, q)]
  <2>3. ASSUME NEW i \in I, a[i] < n + 1 PROVE <<d[i]>> \o Rest(f, i, q) \in Seq(C)
    <3>1. Rest(f, i, q) \in Seq(C)
      <4>1. CASE q[i] = 0
        BY <4>1, EmptySeq DEF Rest
      <4>2. CASE q[i] # 0
        <5>1. q[i] \in I /\ a[q[i]] < n
          BY <1>0, <2>3, <4>2
        <5> QED
          BY <2>2, <4>2, <5>1, Zenon DEF Rest
      <4> QED
        BY <4>1, <4>2
    <3>2. <<d[i]>> \in Seq(C)
      BY <1>0
    <3> QED
      BY <3>1, <3>2, ConcatProperties
  <2>4. ASSUME NEW i \in I, a[i] < n PROVE g[i] = f[i]
    <3>1. i \in Below(I, a, n + 1)
      BY <1>0, <2>4 DEF Below
    <3> QED
      BY <2>2, <2>4, <3>1, Zenon
  <2>5. ASSUME NEW i \in I, a[i] < n + 1 PROVE Rest(g, i, q) = Rest(f, i, q)
    <3>1. CASE q[i] = 0
      BY <3>1, Zenon DEF Rest
    <3>2. CASE q[i] # 0
      <4>1. q[i] \in I /\ a[q[i]] < n
        BY <1>0, <2>5, <3>2
      <4>2. g[q[i]] = f[q[i]]
        BY <2>4, <4>1, Zenon
      <4> HIDE DEF g
      <4> QED
        BY <3>2, <4>2, Zenon DEF Rest
    <3> QED
      BY <3>1, <3>2
  <2>6. g \in [Below(I, a, n + 1) -> Seq(C)]
    BY <2>3, Zenon DEF Below
  <2>7. \A i \in Below(I, a, n + 1) : g[i] = <<d[i]>> \o Rest(g, i, q)
    <3> SUFFICES ASSUME NEW i \in Below(I, a, n + 1)
                 PROVE  g[i] = <<d[i]>> \o Rest(g, i, q)
      OBVIOUS
    <3>1. g[i] = <<d[i]>> \o Rest(f, i, q)
      BY Zenon
    <3>2. i \in I /\ a[i] < n + 1
      BY Zenon DEF Below
    <3> QED
      BY <2>5, <3>1, <3>2, Zenon
  <2> HIDE DEF g
  <2>8. Writes(g, Below(I, a, n + 1), C, d, q)
    BY <2>6, <2>7, Zenon DEF Writes
  <2> QED
    BY <2>8
<1> HIDE DEF T
<1>3. \A n \in Nat : n \in T
  BY <1>1, <1>2, AllNumbers
<1> QED
  BY <1>3, Zenon DEF T

\* and so the one that CHOOSE takes of decimal and hex is such a function.
LEMMA WritesAll ==
  ASSUME NEW I, NEW C, NEW a, NEW d, NEW q, IsScale(I, C, a, d, q)
  PROVE  \E f : Writes(f, I, C, d, q)
<1>0. \A i \in I : a[i] \in Nat /\ d[i] \in C /\ (q[i] # 0 => q[i] \in I /\ a[q[i]] < a[i])
  BY Zenon DEF IsScale
<1> DEFINE w(i) == CHOOSE f : Writes(f, Below(I, a, a[i] + 1), C, d, q)
           g == [i \in I |-> w(i)[i]]
<1>1. ASSUME NEW i \in I
      PROVE  /\ Writes(w(i), Below(I, a, a[i] + 1), C, d, q) /\ a[i] + 1 \in Nat
             /\ a[i] < a[i] + 1 /\ i \in Below(I, a, a[i] + 1)
  <2>1. a[i] + 1 \in Nat /\ a[i] < a[i] + 1
    BY <1>0
  <2>2. \E f : Writes(f, Below(I, a, a[i] + 1), C, d, q)
    BY <2>1, WritesExists, Zenon
  <2> QED
    BY <2>1, <2>2, Zenon DEF Below
<1> HIDE DEF w
<1>2. ASSUME NEW i \in I PROVE g[i] \in Seq(C) /\ g[i] = <<d[i]>> \o Rest(g, i, q)
  <2>1. w(i)[i] \in Seq(C) /\ w(i)[i] = <<d[i]>> \o Rest(w(i), i, q) /\ g[i] = w(i)[i]
    BY <1>1, Zenon DEF Writes
  <2>2. Rest(w(i), i, q) = Rest(g, i, q)
    <3>1. CASE q[i] = 0
      BY <3>1, Zenon DEF Rest
    <3>2. CASE q[i] # 0
      <4> PICK j : j = q[i]
        OBVIOUS
      <4>1. j \in I /\ a[j] < a[i] + 1
        BY <1>0, <3>2
      <4>2. w(i)[j] = w(j)[j]
        <5> PICK n : n = a[i] + 1
          OBVIOUS
        <5> PICK m : m = a[j] + 1
          OBVIOUS
        <5>1. /\ Writes(w(i), Below(I, a, n), C, d, q) /\ n \in Nat
              /\ Writes(w(j), Below(I, a, m), C, d, q) /\ m \in Nat /\ a[j] < m /\ a[j] < n
          BY <1>1, <4>1, Zenon
        <5> PICK f1, f2 : f1 = w(i) /\ f2 = w(j)
          OBVIOUS
        <5>2. Writes(f1, Below(I, a, n), C, d, q) /\ Writes(f2, Below(I, a, m), C, d, q)
          BY <5>1, Zenon
        <5>3. Agree(f1, f2, I, a, n, m)
          BY <5>1, <5>2, WritesOne, Zenon
        <5> QED
          BY <4>1, <5>1, <5>3, Zenon DEF Agree
      <4>3. g[j] = w(j)[j]
        BY <4>1, Zenon
      <4> HIDE DEF g
      <4> QED
        BY <3>2, <4>2, <4>3, Zenon DEF Rest
    <3> QED
      BY <3>1, <3>2
  <2> HIDE DEF g
  <2> QED
    BY <2>1, <2>2, Zenon
<1>3. g \in [I -> Seq(C)]
  BY <1>2, Zenon
<1> HIDE DEF g
<1>4. Writes(g, I, C, d, q)
  BY <1>2, <1>3, Zenon DEF Writes
<1> QED
  BY <1>4

\* Whatever is written so is a sequence of digits.
LEMMA WritesTyped ==
  ASSUME NEW I, NEW C, NEW a, NEW d, NEW q, IsScale(I, C, a, d, q), NEW f,
         f = [i \in I |-> f[i]], \A i \in I : f[i] = <<d[i]>> \o Rest(f, i, q)
  PROVE  Writes(f, I, C, d, q)
<1> DEFINE T == {n \in Nat : \A i \in I : a[i] < n => f[i] \in Seq(C)}
<1>0. \A i \in I : a[i] \in Nat /\ d[i] \in C /\ (q[i] # 0 => q[i] \in I /\ a[q[i]] < a[i])
  BY Zenon DEF IsScale
<1>1. 0 \in T
  BY <1>0
<1>2. ASSUME NEW n \in Nat, n \in T PROVE n + 1 \in T
  <2> SUFFICES ASSUME NEW i \in I, a[i] < n + 1 PROVE f[i] \in Seq(C)
    BY <1>2
  <2> PICK r : r = Rest(f, i, q)
    OBVIOUS
  <2>1. r \in Seq(C)
    <3>1. CASE q[i] = 0
      BY <3>1, EmptySeq DEF Rest
    <3>2. CASE q[i] # 0
      <4>1. q[i] \in I /\ a[q[i]] < n
        <5>1. q[i] \in I /\ a[q[i]] < a[i] /\ a[i] \in Nat /\ a[q[i]] \in Nat
          BY <1>0, <3>2, Zenon
        <5> QED
          BY <5>1
      <4>2. f[q[i]] \in Seq(C)
        BY <1>2, <4>1, Zenon
      <4> QED
        BY <3>2, <4>2, Zenon DEF Rest
    <3> QED
      BY <3>1, <3>2
  <2> PICK c : c = <<d[i]>>
    OBVIOUS
  <2>2. c \in Seq(C)
    BY <1>0
  <2>3. f[i] = c \o r
    BY Zenon
  <2>4. c \o r \in Seq(C)
    BY <2>1, <2>2, ConcatParts, Zenon
  <2> QED
    BY <2>3, <2>4, Zenon
<1>3. \A n \in Nat : n \in T
  <2> HIDE DEF T
  <2> QED
    BY <1>1, <1>2, AllNumbers
<1>4. ASSUME NEW i \in I PROVE f[i] \in Seq(C)
  <2>1. a[i] + 1 \in Nat /\ a[i] < a[i] + 1
    BY <1>0
  <2> QED
    BY <1>3, <2>1, Zenon
<1> QED
  BY <1>4, Zenon DEF Writes

Reversal(C, r, v) == v \in Seq(C) /\ v = Reverse(r) /\ Len(v) = Len(r) /\ Len(r) \in Nat

\* std::reverse() of what was written, last digit first.
LEMMA ReverseIs ==
  ASSUME NEW C, NEW r \in Seq(C)
  PROVE  \E v : Reversal(C, r, v)
<1> PICK v : v = Reverse(r)
  OBVIOUS
<1>1. Len(r) \in Nat /\ \A i \in 1..Len(r) : r[i] \in C
  BY LenProperties, ElementOfSeq
<1>2. v = [i \in 1..Len(r) |-> r[(Len(r) - i) + 1]]
  BY DEF Reverse
<1>3. \A i \in 1..Len(r) : (Len(r) - i) + 1 \in 1..Len(r)
  BY <1>1
<1>4. v \in [1..Len(r) -> C]
  BY <1>1, <1>2, <1>3
<1>5. v \in Seq(C) /\ Len(v) = Len(r)
  BY <1>1, <1>4
<1> QED
  BY <1>1, <1>5, Zenon DEF Reversal

LEMMA ReverseCons ==
  ASSUME NEW C, NEW c \in C, NEW r \in Seq(C), NEW v, Reversal(C, r, v)
  PROVE  Reversal(C, <<c>> \o r, Append(v, c))
<1>0. v \in Seq(C) /\ v = Reverse(r) /\ Len(v) = Len(r) /\ Len(r) \in Nat
  BY Zenon DEF Reversal
<1> PICK s : s = <<c>> \o r
  OBVIOUS
<1> PICK w : w = Append(v, c)
  OBVIOUS
<1>1. <<c>> \in Seq(C) /\ Len(<<c>>) = 1 /\ <<c>>[1] = c
  OBVIOUS
<1>2. /\ s \in Seq(C) /\ Len(s) = 1 + Len(r)
      /\ \A i \in 1..(1 + Len(r)) : s[i] = IF i <= 1 THEN <<c>>[i] ELSE r[i - 1]
  BY <1>1, ConcatProperties
<1>3. /\ w \in Seq(C) /\ Len(w) = Len(v) + 1
      /\ (\A i \in 1..Len(v) : w[i] = v[i]) /\ w[Len(v) + 1] = c
  BY <1>0, AppendProperties
<1>4. PICK u : Reversal(C, s, u)
  BY <1>2, ReverseIs
<1>5. u \in Seq(C) /\ u = Reverse(s) /\ Len(u) = Len(s)
  BY <1>4, Zenon DEF Reversal
<1>6. ASSUME NEW i \in 1..Len(u) PROVE u[i] = w[i]
  <2>1. u[i] = s[(Len(s) - i) + 1]
    BY <1>5 DEF Reverse
  <2>2. CASE i = Len(v) + 1
    <3>1. (Len(s) - i) + 1 = 1 /\ 1 \in 1..(1 + Len(r))
      BY <1>0, <1>2, <2>2
    <3>2. s[1] = c
      BY <1>1, <1>2, <3>1
    <3> QED
      BY <1>3, <2>1, <2>2, <3>1, <3>2
  <2>3. CASE i # Len(v) + 1
    <3> PICK j : j = (Len(s) - i) + 1
      OBVIOUS
    <3>1. /\ j \in 1..(1 + Len(r)) /\ ~(j <= 1) /\ i \in 1..Len(v)
          /\ j - 1 = (Len(r) - i) + 1
      BY <1>0, <1>2, <1>5, <2>3
    <3>2. s[j] = r[j - 1]
      BY <1>2, <3>1
    <3>3. v[i] = r[(Len(r) - i) + 1]
      BY <1>0, <3>1 DEF Reverse
    <3> QED
      BY <1>3, <2>1, <3>1, <3>2, <3>3
  <2> QED
    BY <2>2, <2>3
<1>7. u = w
  <2>1. Len(u) = Len(w)
    BY <1>0, <1>2, <1>3, <1>5
  <2> QED
    BY <1>3, <1>5, <1>6, <2>1, SeqEqual
<1> QED
  BY <1>4, <1>7

\* What is put last comes first.
LEMMA ReverseLast ==
  ASSUME NEW C, NEW c \in C, NEW r \in Seq(C), NEW v, Reversal(C, r, v)
  PROVE  Reversal(C, r \o <<c>>, <<c>> \o v)
<1>0. v \in Seq(C) /\ v = Reverse(r) /\ Len(v) = Len(r) /\ Len(r) \in Nat
  BY Zenon DEF Reversal
<1> PICK s : s = r \o <<c>>
  OBVIOUS
<1> PICK w : w = <<c>> \o v
  OBVIOUS
<1>1. <<c>> \in Seq(C) /\ Len(<<c>>) = 1 /\ <<c>>[1] = c
  OBVIOUS
<1>2. /\ s \in Seq(C) /\ Len(s) = Len(r) + 1
      /\ \A i \in 1..(Len(r) + 1) : s[i] = IF i <= Len(r) THEN r[i] ELSE <<c>>[i - Len(r)]
  BY <1>1, ConcatProperties
<1>3. /\ w \in Seq(C) /\ Len(w) = 1 + Len(v)
      /\ \A i \in 1..(1 + Len(v)) : w[i] = IF i <= 1 THEN <<c>>[i] ELSE v[i - 1]
  BY <1>0, <1>1, ConcatProperties
<1>4. PICK u : Reversal(C, s, u)
  BY <1>2, ReverseIs
<1>5. u \in Seq(C) /\ u = Reverse(s) /\ Len(u) = Len(s)
  BY <1>4, Zenon DEF Reversal
<1>6. ASSUME NEW i \in 1..Len(u) PROVE u[i] = w[i]
  <2>1. u[i] = s[(Len(s) - i) + 1] /\ i \in 1..(1 + Len(v))
    BY <1>0, <1>2, <1>5 DEF Reverse
  <2>2. CASE i = 1
    <3>1. (Len(s) - i) + 1 = Len(r) + 1 /\ ~(Len(r) + 1 <= Len(r)) /\ (Len(r) + 1) - Len(r) = 1
      BY <1>0, <1>2, <2>2
    <3>2. s[Len(r) + 1] = c
      BY <1>0, <1>1, <1>2, <3>1
    <3>3. w[1] = c
      BY <1>1, <1>3, <2>1, <2>2
    <3> QED
      BY <2>1, <2>2, <3>1, <3>2, <3>3
  <2>3. CASE i # 1
    <3> PICK j : j = (Len(s) - i) + 1
      OBVIOUS
    <3>1. /\ j \in 1..Len(r) /\ j \in 1..(Len(r) + 1) /\ j <= Len(r) /\ ~(i <= 1) /\ i - 1 \in 1..Len(r)
          /\ j = (Len(r) - (i - 1)) + 1
      BY <1>0, <1>2, <1>5, <2>3
    <3>2. s[j] = r[j]
      BY <1>2, <3>1
    <3>3. v[i - 1] = r[(Len(r) - (i - 1)) + 1]
      BY <1>0, <3>1 DEF Reverse
    <3>4. w[i] = v[i - 1]
      BY <1>3, <2>1, <3>1
    <3> QED
      BY <2>1, <3>1, <3>2, <3>3, <3>4
  <2> QED
    BY <2>2, <2>3
<1>7. u = w
  <2>1. Len(u) = Len(w)
    <3>1. Len(u) = Len(r) + 1 /\ Len(r) \in Nat
      BY <1>0, <1>2, <1>5, Zenon
    <3>2. Len(w) = 1 + Len(r)
      BY <1>0, <1>3, Zenon
    <3> QED
      BY <3>1, <3>2
  <2>2. u \in Seq(C) /\ w \in Seq(C)
    BY <1>3, <1>5
  <2>3. Len(u) = Len(w) /\ \A i \in 1..Len(u) : u[i] = w[i]
    BY <1>6, <2>1
  <2> QED
    BY <2>2, <2>3, SeqEqual, Zenon
<1> QED
  BY <1>4, <1>7

\* What is left of i is its value without the last digit.
Reads(I, a, d, q, digits, b) ==
  \A i \in I :
    /\ a[i] \in Nat /\ d[i] \in ToSet(digits)
    /\ q[i] = 0 => a[i] = Digit(d[i], digits)
    /\ q[i] # 0 => /\ q[i] \in I /\ a[q[i]] \in 1..(a[i] - 1)
                   /\ a[i] = b * a[q[i]] + Digit(d[i], digits)
                   /\ \A g \in Nat : a[i] <= b * g + (b - 1) => a[q[i]] <= g

LEMMA ReadsScale ==
  ASSUME NEW I, NEW a, NEW d, NEW q, NEW digits, NEW b, Reads(I, a, d, q, digits, b)
  PROVE  IsScale(I, ToSet(digits), a, d, q)
<1> SUFFICES ASSUME NEW i \in I
             PROVE  /\ a[i] \in Nat /\ d[i] \in ToSet(digits)
                    /\ q[i] # 0 => q[i] \in I /\ a[q[i]] < a[i]
  BY Zenon DEF IsScale
<1>1. /\ a[i] \in Nat /\ d[i] \in ToSet(digits)
      /\ q[i] # 0 => q[i] \in I /\ a[q[i]] \in 1..(a[i] - 1)
  BY Zenon DEF Reads
<1> QED
  BY <1>1

\* The digits, reversed, are read as the value.
ReadsBack(f, i, a, digits) ==
  \E v : Reversal(ToSet(digits), f[i], v) /\ Number(v, digits) = a[i]

\* What is written digit by digit and reversed reads as the value.
LEMMA DigitsReadBack ==
  ASSUME NEW I, NEW a, NEW d, NEW q, NEW digits, NEW b,
         IsDigits(digits, b), Reads(I, a, d, q, digits, b),
         NEW f, Writes(f, I, ToSet(digits), d, q)
  PROVE  \A i \in I : ReadsBack(f, i, a, digits)
<1> PICK C : C = ToSet(digits)
  OBVIOUS
<1> DEFINE T == {n \in Nat : \A i \in I : a[i] < n => ReadsBack(f, i, a, digits)}
<1>0. \A i \in I : /\ a[i] \in Nat /\ d[i] \in C
                   /\ q[i] # 0 => q[i] \in I /\ a[q[i]] \in Nat /\ a[q[i]] < a[i]
  BY ReadsScale, Zenon DEF IsScale
<1>1. 0 \in T
  BY <1>0
<1>2. ASSUME NEW n \in Nat, n \in T PROVE n + 1 \in T
  <2> SUFFICES ASSUME NEW i \in I, a[i] < n + 1 PROVE ReadsBack(f, i, a, digits)
    BY <1>2
  <2> PICK r : r = Rest(f, i, q)
    OBVIOUS
  <2>1. PICK v : /\ r \in Seq(C) /\ Reversal(C, r, v)
                 /\ a[i] = b * Number(v, digits) + Digit(d[i], digits)
    <3>1. CASE q[i] = 0
      <4>1. r = <<>> /\ <<>> \in Seq(C)
        BY <3>1, EmptySeq DEF Rest
      <4>2. PICK v : Reversal(C, <<>>, v)
        BY <4>1, ReverseIs
      <4>3. v = <<>>
        <5>1. v \in Seq(C) /\ Len(v) = Len(<<>>)
          BY <4>2, Zenon DEF Reversal
        <5> QED
          BY <5>1, EmptySeq
      <4>4. Number(v, digits) = 0
        BY <4>3, NumberEmpty
      <4>5. a[i] = Digit(d[i], digits)
        BY <3>1, Zenon DEF Reads
      <4>6. b * 0 + a[i] = a[i]
        BY <1>0 DEF IsDigits
      <4> QED
        BY <4>1, <4>2, <4>4, <4>5, <4>6, Zenon
    <3>2. CASE q[i] # 0
      <4>1. q[i] \in I /\ a[q[i]] < n
        BY <1>0, <3>2
      <4>2. ReadsBack(f, q[i], a, digits)
        BY <1>2, <4>1
      <4>3. PICK v : Reversal(C, f[q[i]], v) /\ Number(v, digits) = a[q[i]]
        BY <4>2, Zenon DEF ReadsBack
      <4>4. r = f[q[i]] /\ r \in Seq(C)
        BY <3>2, <4>1, Zenon DEF Rest, Writes
      <4>5. a[i] = b * a[q[i]] + Digit(d[i], digits)
        BY <3>2, Zenon DEF Reads
      <4> QED
        BY <4>3, <4>4, <4>5, Zenon
    <3> QED
      BY <3>1, <3>2
  <2>2. f[i] = <<d[i]>> \o r /\ d[i] \in C
    BY <1>0, Zenon DEF Writes
  <2> PICK c : c = d[i]
    OBVIOUS
  <2>3. Reversal(C, f[i], Append(v, c))
    <3>1. Reversal(C, <<c>> \o r, Append(v, c))
      BY <2>1, <2>2, ReverseCons
    <3> QED
      BY <2>2, <3>1, Zenon
  <2>4. Number(Append(v, c), digits) = b * Number(v, digits) + Digit(c, digits)
    <3>1. v \in Seq(ToSet(digits)) /\ c \in ToSet(digits)
      BY <2>1, <2>2, Zenon DEF Reversal
    <3> QED
      BY <3>1, NumberStep
  <2> QED
    BY <2>1, <2>3, <2>4, Zenon DEF ReadsBack
<1>3. \A n \in Nat : n \in T
  <2> HIDE DEF T
  <2> QED
    BY <1>1, <1>2, AllNumbers
<1> SUFFICES ASSUME NEW i \in I PROVE ReadsBack(f, i, a, digits)
  OBVIOUS
<1>4. a[i] + 1 \in Nat /\ a[i] < a[i] + 1
  BY <1>0
<1> QED
  BY <1>3, <1>4

\* G[k] is the greatest number of k digits.
Greatests(G, b) ==
  /\ G[1] = b - 1
  /\ \A k \in Nat : G[k] \in Nat /\ (k >= 1 => G[k + 1] = b * G[k] + (b - 1))

OneDigit(I, a, q, G) == \A i \in I : a[i] <= G[1] => q[i] = 0
Short(f, I, a, G) == \A k \in Nat \ {0} : \A i \in I : a[i] <= G[k] => Len(f[i]) \in 1..k

\* A number that is not greater than those of k digits has k digits at most.
LEMMA DigitsAreFew ==
  ASSUME NEW I, NEW a, NEW d, NEW q, NEW digits, NEW b,
         Reads(I, a, d, q, digits, b), NEW f, Writes(f, I, ToSet(digits), d, q),
         NEW G, Greatests(G, b), OneDigit(I, a, q, G)
  PROVE  Short(f, I, a, G)
<1> PICK C : C = ToSet(digits)
  OBVIOUS
<1> DEFINE T == {k \in Nat : \A i \in I : a[i] <= G[k + 1] => Len(f[i]) \in 1..(k + 1)}
<1>0. \A i \in I : /\ a[i] \in Nat /\ d[i] \in C
                   /\ q[i] # 0 => q[i] \in I /\ a[q[i]] \in Nat /\ a[q[i]] < a[i]
  BY ReadsScale, Zenon DEF IsScale
<1>1. \A i \in I : f[i] = <<d[i]>> \o Rest(f, i, q)
  BY Zenon DEF Writes
<1>2. ASSUME NEW i \in I, q[i] = 0 PROVE Len(f[i]) = 1
  <2> PICK c : c = <<d[i]>>
    OBVIOUS
  <2>1. f[i] = c \o <<>>
    BY <1>1, <1>2, Zenon DEF Rest
  <2>2. c \in Seq(C) /\ Len(c) = 1
    <3>1. d[i] \in C
      BY <1>0
    <3> QED
      BY <3>1
  <2>3. c \o <<>> = c
    BY <2>2, ConcatEmptySeq
  <2> QED
    BY <2>1, <2>2, <2>3, Zenon
<1>3. ASSUME NEW i \in I, q[i] # 0 PROVE Len(f[i]) = 1 + Len(f[q[i]]) /\ Len(f[q[i]]) \in Nat
  <2> PICK r : r = f[q[i]]
    OBVIOUS
  <2>1. f[i] = <<d[i]>> \o r /\ r \in Seq(C) /\ <<d[i]>> \in Seq(C) /\ Len(<<d[i]>>) = 1
    <3>1. f[i] = <<d[i]>> \o r /\ r \in Seq(C) /\ d[i] \in C
      BY <1>0, <1>1, <1>3, Zenon DEF Rest, Writes
    <3> QED
      BY <3>1
  <2> PICK c : c = <<d[i]>>
    OBVIOUS
  <2>2. c \in Seq(C) /\ Len(c) = 1 /\ f[i] = c \o r
    BY <2>1
  <2>3. Len(c \o r) = Len(c) + Len(r) /\ Len(r) \in Nat
    BY <2>1, <2>2, ConcatParts, Zenon
  <2> QED
    BY <2>2, <2>3, Zenon
<1>4. 0 \in T
  <2>0. 0 + 1 = 1 /\ 0 \in Nat
    OBVIOUS
  <2> SUFFICES ASSUME NEW i \in I, a[i] <= G[0 + 1] PROVE Len(f[i]) \in 1..(0 + 1)
    BY <2>0, Zenon
  <2>1. Len(f[i]) = 1
    BY <1>2, <2>0, Zenon DEF OneDigit
  <2> QED
    BY <2>0, <2>1
<1>5. ASSUME NEW k \in Nat, k \in T PROVE k + 1 \in T
  <2>0. k + 1 \in Nat /\ k + 1 >= 1
    OBVIOUS
  <2> SUFFICES ASSUME NEW i \in I, a[i] <= G[(k + 1) + 1] PROVE Len(f[i]) \in 1..((k + 1) + 1)
    BY <2>0, Zenon
  <2>1. CASE q[i] = 0
    <3>1. Len(f[i]) = 1
      BY <1>2, <2>1, Zenon
    <3> QED
      BY <3>1
  <2>2. CASE q[i] # 0
    <3>1. a[i] <= b * G[k + 1] + (b - 1) /\ G[k + 1] \in Nat
      BY <2>0, Zenon DEF Greatests
    <3>2. q[i] \in I /\ a[q[i]] <= G[k + 1]
      BY <1>0, <2>2, <3>1, Zenon DEF Reads
    <3>3. Len(f[q[i]]) \in 1..(k + 1)
      BY <1>5, <3>2, Zenon
    <3>4. Len(f[i]) = 1 + Len(f[q[i]]) /\ Len(f[q[i]]) \in Nat
      BY <1>3, <2>2, Zenon
    <3> QED
      BY <3>3, <3>4
  <2> QED
    BY <2>1, <2>2
<1>6. \A k \in Nat : k \in T
  <2> HIDE DEF T
  <2> QED
    BY <1>4, <1>5, AllNumbers
<1> SUFFICES ASSUME NEW k \in Nat \ {0}, NEW i \in I, a[i] <= G[k] PROVE Len(f[i]) \in 1..k
  BY Zenon DEF Short
<1>7. k - 1 \in Nat /\ (k - 1) + 1 = k
  OBVIOUS
<1>8. k - 1 \in T
  BY <1>6, <1>7, Zenon
<1> QED
  BY <1>7, <1>8

(***************************************************************************)
(* The numbers of LogStream.                                               *)
(***************************************************************************)
Absolute == [i \in Int |-> IF i < 0 THEN -i ELSE i]
LastDecimal == [i \in Int |-> stream!Zero(stream!Remainder(i, 10))]
Tenth == [i \in Int |-> stream!Quotient(i, 10)]

Value == [i \in Nat |-> i]
LastHexadecimal == [i \in Nat |-> stream!DigitsHex[1 + (i % 16)]]
Sixteenth == [i \in Nat |-> i \div 16]

IsDecimal(f) ==
  f = [i \in Int |-> <<stream!Zero(stream!Remainder(i, 10))>>
                     \o (IF stream!Quotient(i, 10) = 0 THEN <<>> ELSE f[stream!Quotient(i, 10)])]
IsHex(f) ==
  f = [i \in Nat |-> <<stream!DigitsHex[1 + (i % 16)]>> \o (IF i \div 16 = 0 THEN <<>> ELSE f[i \div 16])]

\* What a character of digits[] and of digitsHex[] stands for.
LEMMA Digits10 ==
  \A r \in 0..9 : /\ stream!Zero(r) = Decimals[r + 1] /\ stream!Zero(-r) = Decimals[r + 1]
                  /\ Decimals[r + 1] \in ToSet(Decimals) /\ Digit(Decimals[r + 1], Decimals) = r
<1> SUFFICES ASSUME NEW r \in 0..9
             PROVE  /\ stream!Zero(r) = Decimals[r + 1] /\ stream!Zero(-r) = Decimals[r + 1]
                    /\ Decimals[r + 1] \in ToSet(Decimals) /\ Digit(Decimals[r + 1], Decimals) = r
  OBVIOUS
<1>1. stream!Digits[10 + r] = Decimals[r + 1] /\ stream!Digits[10 + (-r)] = Decimals[r + 1]
  BY DEF stream!Digits, Decimals
<1>2. DOMAIN Decimals = 1..10 /\ IsInjective(Decimals)
  BY DecimalsFacts, Zenon DEF DigitList
<1> PICK k : k = r + 1
  OBVIOUS
<1>3. k \in DOMAIN Decimals /\ k - 1 = r
  BY <1>2
<1>4. Digit(Decimals[k], Decimals) = k - 1
  BY <1>2, <1>3, DigitFacts
<1> QED
  BY <1>1, <1>3, <1>4 DEF stream!Zero, ToSet

LEMMA Digits16 ==
  \A r \in 0..15 : /\ stream!DigitsHex[1 + r] = Hexadecimals[r + 1]
                   /\ Hexadecimals[r + 1] \in ToSet(Hexadecimals)
                   /\ Digit(Hexadecimals[r + 1], Hexadecimals) = r
<1> SUFFICES ASSUME NEW r \in 0..15
             PROVE  /\ stream!DigitsHex[1 + r] = Hexadecimals[r + 1]
                    /\ Hexadecimals[r + 1] \in ToSet(Hexadecimals)
                    /\ Digit(Hexadecimals[r + 1], Hexadecimals) = r
  OBVIOUS
<1>1. stream!DigitsHex[1 + r] = Hexadecimals[r + 1]
  BY DEF stream!DigitsHex, Hexadecimals
<1>2. DOMAIN Hexadecimals = 1..16 /\ IsInjective(Hexadecimals)
  BY HexadecimalsFacts, Zenon DEF DigitList
<1> PICK k : k = r + 1
  OBVIOUS
<1>3. k \in DOMAIN Hexadecimals /\ k - 1 = r
  BY <1>2
<1>4. Digit(Hexadecimals[k], Hexadecimals) = k - 1
  BY <1>2, <1>3, DigitFacts
<1> QED
  BY <1>1, <1>3, <1>4 DEF ToSet

\* The steps of convert(): also for negative values, whose remainders are negative.
LEMMA DecimalReads == Reads(Int, Absolute, LastDecimal, Tenth, Decimals, 10)
<1> SUFFICES ASSUME NEW i \in Int
             PROVE
    /\ Absolute[i] \in Nat /\ LastDecimal[i] \in ToSet(Decimals)
    /\ Tenth[i] = 0 => Absolute[i] = Digit(LastDecimal[i], Decimals)
    /\ Tenth[i] # 0 => /\ Tenth[i] \in Int /\ Absolute[Tenth[i]] \in 1..(Absolute[i] - 1)
                       /\ Absolute[i] = 10 * Absolute[Tenth[i]] + Digit(LastDecimal[i], Decimals)
                       /\ \A g \in Nat : Absolute[i] <= 10 * g + (10 - 1) => Absolute[Tenth[i]] <= g
  BY Zenon DEF Reads
<1> PICK n \in Nat : n = IF i < 0 THEN -i ELSE i
  OBVIOUS
<1> PICK r \in 0..9 : r = n % 10
  OBVIOUS
<1> PICK m \in Nat : m = n \div 10
  OBVIOUS
<1>1. n = 10 * m + r /\ (m = 0 => n = r) /\ (m # 0 => m \in 1..(n - 1))
  OBVIOUS
<1>2. \A g \in Nat : n <= 10 * g + (10 - 1) => m <= g
  OBVIOUS
<1>3. Absolute[i] = n
  BY DEF Absolute
<1>4. LastDecimal[i] = Decimals[r + 1]
  <2>1. CASE i < 0
    <3>1. stream!Remainder(i, 10) = -r
      BY <2>1 DEF stream!Remainder
    <3> QED
      BY <3>1, Digits10 DEF LastDecimal
  <2>2. CASE ~(i < 0)
    <3>1. stream!Remainder(i, 10) = r
      BY <2>2 DEF stream!Remainder
    <3> QED
      BY <3>1, Digits10 DEF LastDecimal
  <2> QED
    BY <2>1, <2>2
<1>5. Tenth[i] = IF i < 0 THEN -m ELSE m
  BY DEF Tenth, stream!Quotient
<1>6. Tenth[i] \in Int /\ Absolute[Tenth[i]] = m /\ (Tenth[i] = 0 <=> m = 0)
  BY <1>5 DEF Absolute
<1>7. LastDecimal[i] \in ToSet(Decimals) /\ Digit(LastDecimal[i], Decimals) = r
  BY <1>4, Digits10, Zenon
<1> HIDE DEF Absolute
<1> QED
  BY <1>1, <1>2, <1>3, <1>6, <1>7

\* The steps of convertHex().
LEMMA HexReads == Reads(Nat, Value, LastHexadecimal, Sixteenth, Hexadecimals, 16)
<1> SUFFICES ASSUME NEW i \in Nat
             PROVE
    /\ Value[i] \in Nat /\ LastHexadecimal[i] \in ToSet(Hexadecimals)
    /\ Sixteenth[i] = 0 => Value[i] = Digit(LastHexadecimal[i], Hexadecimals)
    /\ Sixteenth[i] # 0 =>
         /\ Sixteenth[i] \in Nat /\ Value[Sixteenth[i]] \in 1..(Value[i] - 1)
         /\ Value[i] = 16 * Value[Sixteenth[i]] + Digit(LastHexadecimal[i], Hexadecimals)
         /\ \A g \in Nat : Value[i] <= 16 * g + (16 - 1) => Value[Sixteenth[i]] <= g
  BY Zenon DEF Reads
<1> PICK r \in 0..15 : r = i % 16
  OBVIOUS
<1> PICK m \in Nat : m = i \div 16
  OBVIOUS
<1>1. i = 16 * m + r /\ (m = 0 => i = r) /\ (m # 0 => m \in 1..(i - 1))
  OBVIOUS
<1>2. \A g \in Nat : i <= 16 * g + (16 - 1) => m <= g
  OBVIOUS
<1>3. Value[i] = i /\ Value[m] = m /\ Sixteenth[i] = m
  BY DEF Value, Sixteenth
<1>4. LastHexadecimal[i] = stream!DigitsHex[1 + r]
  BY DEF LastHexadecimal
<1>5. LastHexadecimal[i] \in ToSet(Hexadecimals) /\ Digit(LastHexadecimal[i], Hexadecimals) = r
  BY <1>4, Digits16, Zenon
<1> QED
  BY <1>1, <1>2, <1>3, <1>5

\* The digits that convert() and convertHex() write.
LEMMA DecimalWrites == Writes(stream!decimal, Int, ToSet(Decimals), LastDecimal, Tenth)
<1>1. IsScale(Int, ToSet(Decimals), Absolute, LastDecimal, Tenth)
  BY DecimalReads, ReadsScale, Zenon
<1>2. ASSUME NEW f, Writes(f, Int, ToSet(Decimals), LastDecimal, Tenth) PROVE IsDecimal(f)
  <2>1. ASSUME NEW i \in Int
        PROVE  f[i] = <<stream!Zero(stream!Remainder(i, 10))>>
                      \o (IF stream!Quotient(i, 10) = 0 THEN <<>> ELSE f[stream!Quotient(i, 10)])
    <3>1. f[i] = <<LastDecimal[i]>> \o (IF Tenth[i] = 0 THEN <<>> ELSE f[Tenth[i]])
      BY <1>2, Zenon DEF Writes, Rest
    <3> QED
      BY <3>1, Zenon DEF LastDecimal, Tenth
  <2>2. f \in [Int -> Seq(ToSet(Decimals))]
    BY <1>2, Zenon DEF Writes
  <2> QED
    BY <2>1, <2>2, Zenon DEF IsDecimal
<1>3. IsDecimal(stream!decimal)
  <2>1. \E f : IsDecimal(f)
    BY <1>1, <1>2, WritesAll, Zenon
  <2> QED
    BY <2>1, Zenon DEF IsDecimal, stream!decimal
<1> PICK f : f = stream!decimal
  OBVIOUS
<1>4. \A i \in Int : f[i] = <<LastDecimal[i]>> \o Rest(f, i, Tenth)
  BY <1>3, Zenon DEF IsDecimal, LastDecimal, Tenth, Rest
<1>5. f = [i \in Int |-> f[i]]
  BY <1>3, Zenon DEF IsDecimal
<1> QED
  BY <1>1, <1>4, <1>5, WritesTyped, Zenon

LEMMA HexWrites == Writes(stream!hex, Nat, ToSet(Hexadecimals), LastHexadecimal, Sixteenth)
<1>1. IsScale(Nat, ToSet(Hexadecimals), Value, LastHexadecimal, Sixteenth)
  BY HexReads, ReadsScale, Zenon
<1>2. ASSUME NEW f, Writes(f, Nat, ToSet(Hexadecimals), LastHexadecimal, Sixteenth) PROVE IsHex(f)
  <2>1. ASSUME NEW i \in Nat
        PROVE  f[i] = <<stream!DigitsHex[1 + (i % 16)]>>
                      \o (IF i \div 16 = 0 THEN <<>> ELSE f[i \div 16])
    <3>1. f[i] = <<LastHexadecimal[i]>> \o (IF Sixteenth[i] = 0 THEN <<>> ELSE f[Sixteenth[i]])
      BY <1>2, Zenon DEF Writes, Rest
    <3> QED
      BY <3>1, Zenon DEF LastHexadecimal, Sixteenth
  <2>2. f \in [Nat -> Seq(ToSet(Hexadecimals))]
    BY <1>2, Zenon DEF Writes
  <2> QED
    BY <2>1, <2>2, Zenon DEF IsHex
<1>3. IsHex(stream!hex)
  <2>1. \E f : IsHex(f)
    BY <1>1, <1>2, WritesAll, Zenon
  <2> QED
    BY <2>1, Zenon DEF IsHex, stream!hex
<1> PICK f : f = stream!hex
  OBVIOUS
<1>4. \A i \in Nat : f[i] = <<LastHexadecimal[i]>> \o Rest(f, i, Sixteenth)
  BY <1>3, Zenon DEF IsHex, LastHexadecimal, Sixteenth, Rest
<1>5. f = [i \in Nat |-> f[i]]
  BY <1>3, Zenon DEF IsHex
<1> QED
  BY <1>1, <1>4, <1>5, WritesTyped, Zenon

\* The greatest numbers of k digits: b times the one of k - 1 digits, and a digit.
LEMMA GreatestFacts ==
  ASSUME NEW digits, NEW b, IsDigits(digits, b), NEW top \in ToSet(digits),
         Digit(top, digits) = b - 1
  PROVE  Greatests([k \in Nat |-> Greatest(k, top, digits)], b)
<1> PICK G : G = [k \in Nat |-> Greatest(k, top, digits)]
  OBVIOUS
<1> PICK C : C = ToSet(digits)
  OBVIOUS
<1>1. ASSUME NEW k \in Nat PROVE G[k] \in Nat /\ G[k + 1] = b * G[k] + (b - 1)
  <2> PICK s : s = [i \in 1..k |-> top]
    OBVIOUS
  <2> PICK t : t = [i \in 1..(k + 1) |-> top]
    OBVIOUS
  <2>1. s \in Seq(C) /\ Len(s) = k
    OBVIOUS
  <2>2. t = Append(s, top)
    <3> PICK u : u = Append(s, top)
      OBVIOUS
    <3>1. /\ u \in Seq(C) /\ Len(u) = k + 1
          /\ (\A i \in 1..k : u[i] = s[i]) /\ u[k + 1] = top
      BY <2>1, AppendProperties
    <3>2. t \in Seq(C) /\ Len(t) = k + 1
      OBVIOUS
    <3>3. \A i \in 1..(k + 1) : t[i] = u[i]
      BY <3>1
    <3>4. Len(t) = Len(u) /\ \A i \in 1..Len(t) : t[i] = u[i]
      BY <3>1, <3>2, <3>3
    <3> QED
      BY <3>1, <3>2, <3>4, SeqEqual, Zenon
  <2>3. /\ Number(s, digits) \in Nat
        /\ Number(Append(s, top), digits) = b * Number(s, digits) + Digit(top, digits)
    BY <2>1, NumberStep
  <2>4. G[k] = Number(s, digits) /\ G[k + 1] = Number(t, digits)
    <3>1. k + 1 \in Nat
      OBVIOUS
    <3> QED
      BY <3>1, Zenon DEF Greatest
  <2> QED
    BY <2>2, <2>3, <2>4, Zenon
<1>2. G[0] = 0
  <2> PICK s : s = [i \in 1..0 |-> top]
    OBVIOUS
  <2>1. s = <<>>
    OBVIOUS
  <2>2. Number(s, digits) = 0
    BY <2>1, NumberEmpty, Zenon
  <2> QED
    BY <2>2, Zenon DEF Greatest
<1>3. G[1] = b - 1
  <2>1. G[0 + 1] = b * G[0] + (b - 1)
    BY <1>1, Zenon
  <2>2. 0 + 1 = 1 /\ b \in Nat
    BY DEF IsDigits
  <2> QED
    BY <1>2, <2>1, <2>2
<1> QED
  BY <1>1, <1>3, Zenon DEF Greatests

Decimals9 == [k \in Nat |-> Greatest(k, "9", Decimals)]
HexadecimalsF == [k \in Nat |-> Greatest(k, "F", Hexadecimals)]

LEMMA NinesFacts == Greatests(Decimals9, 10)
<1>1. Decimals[10] = "9" /\ 9 \in 0..9 /\ 9 + 1 = 10
  BY DEF Decimals
<1>2. "9" \in ToSet(Decimals) /\ Digit("9", Decimals) = 10 - 1
  <2>1. "9" \in ToSet(Decimals) /\ Digit("9", Decimals) = 9
    BY <1>1, Digits10, Zenon
  <2> QED
    BY <2>1
<1> QED
  BY <1>2, DecimalsFacts, GreatestFacts, Zenon DEF Decimals9

\* How long a number is, when it is not greater than those.
LEMMA DecimalLength ==
  Short(stream!decimal, Int, Absolute, Decimals9)
<1>4. Decimals9[1] = 9
  <2>1. Decimals9[1] = 10 - 1
    BY NinesFacts, Zenon DEF Greatests
  <2> QED
    BY <2>1
<1>5. OneDigit(Int, Absolute, Tenth, Decimals9)
  BY <1>4 DEF OneDigit, Absolute, Tenth, stream!Quotient
<1> QED
  BY NinesFacts, <1>5, DecimalReads, DecimalWrites, DigitsAreFew, Zenon

LEMMA HexLength ==
  Short(stream!hex, Nat, Value, HexadecimalsF)
<1>1. Hexadecimals[16] = "F" /\ 15 \in 0..15 /\ 15 + 1 = 16
  BY DEF Hexadecimals
<1>2. "F" \in ToSet(Hexadecimals) /\ Digit("F", Hexadecimals) = 16 - 1
  <2>1. "F" \in ToSet(Hexadecimals) /\ Digit("F", Hexadecimals) = 15
    BY <1>1, Digits16, Zenon
  <2> QED
    BY <2>1
<1>3. Greatests(HexadecimalsF, 16)
  BY <1>2, HexadecimalsFacts, GreatestFacts, Zenon DEF HexadecimalsF
<1>4. HexadecimalsF[1] = 15
  <2>1. HexadecimalsF[1] = 16 - 1
    BY <1>3, Zenon DEF Greatests
  <2> QED
    BY <2>1
<1>5. OneDigit(Nat, Value, Sixteenth, HexadecimalsF)
  BY <1>4 DEF OneDigit, Value, Sixteenth
<1> QED
  BY <1>3, <1>5, HexReads, HexWrites, DigitsAreFew, Zenon

\* A character before a text.
Before(c, w, t) == Head(t) = c /\ Tail(t) = w /\ Len(t) = 1 + Len(w)
LEMMA ConsFacts ==
  ASSUME NEW C, NEW c \in C, NEW w \in Seq(C)
  PROVE  Before(c, w, <<c>> \o w)
<1> PICK s : s = <<c>>
  OBVIOUS
<1> PICK t : t = s \o w
  OBVIOUS
<1>1. s \in Seq(C) /\ Len(s) = 1 /\ s[1] = c /\ Len(w) \in Nat
  BY LenProperties
<1>2. /\ t \in Seq(C) /\ Len(t) = 1 + Len(w)
      /\ SubSeq(t, 1 + 1, Len(t)) = w
  BY <1>1, ConcatParts
<1>3. \A i \in 1..(1 + Len(w)) : t[i] = IF i <= 1 THEN s[i] ELSE w[i - 1]
  BY <1>1, ConcatProperties
<1>4. t[1] = c
  BY <1>1, <1>3
<1>5. t # <<>>
  BY <1>1, <1>2
<1>6. Tail(t) = SubSeq(t, 2, Len(t))
  BY <1>2, <1>5, TailIsSubSeq
<1>7. Head(t) = c
  BY <1>2, <1>4, <1>5
<1>8. 1 + 1 = 2
  OBVIOUS
<1> QED
  BY <1>2, <1>6, <1>7, <1>8, Zenon DEF Before

\* Everything that the logger writes is of the alphabet.
LEMMA AlphabetFacts ==
  /\ ToSet(Decimals) \subseteq Alphabet /\ ToSet(Hexadecimals) \subseteq Alphabet
  /\ STRING \subseteq Alphabet /\ {"-", "x", " ", ":", "\n"} \subseteq Alphabet
  /\ "0" \in Alphabet /\ "-" \notin ToSet(Decimals)
<1>1. Decimals[1] = "0" /\ DOMAIN Decimals = 1..10 /\ \A i \in 1..10 : Decimals[i] # "-"
  BY DEF Decimals
<1>2. 1 \in DOMAIN Decimals /\ \A i \in DOMAIN Decimals : Decimals[i] # "-"
  BY <1>1
<1>3. "0" \in ToSet(Decimals)
  BY <1>1, <1>2, Zenon DEF ToSet
<1>4. "-" \notin ToSet(Decimals)
  BY <1>2, Zenon DEF ToSet
<1> QED
  BY <1>3, <1>4, Zenon DEF Alphabet

\* The same text, of more characters.
LEMMA Widen ==
  ASSUME NEW C, C \subseteq Alphabet, NEW r \in Seq(C), NEW v, Reversal(C, r, v)
  PROVE  r \in Strings /\ Reversal(Alphabet, r, v)
<1>1. v \in Seq(C) /\ v = Reverse(r) /\ Len(v) = Len(r) /\ Len(r) \in Nat
  BY Zenon DEF Reversal
<1>2. r \in Seq(Alphabet) /\ v \in Seq(Alphabet)
  BY <1>1, SeqMonotonic
<1> QED
  BY <1>1, <1>2, Zenon DEF Reversal, Strings

LEMMA SameReverse == \A r : stream!Reverse(r) = Reverse(r)
BY Zenon DEF Reverse, stream!Reverse

\* What an integer leaves in the record.
ReadsAsInt(v, t) ==
  /\ Head(t) = "-" => v = -Number(Tail(t), Decimals)
  /\ Head(t) # "-" => v = Number(t, Decimals)

\* convert(): the text reads as the value, and has at most a sign and k digits.
LEMMA ConvertFacts ==
  ASSUME NEW v \in Int, NEW k \in Nat \ {0}, Absolute[v] <= Decimals9[k]
  PROVE  /\ stream!Convert(v) \in Strings /\ Len(stream!Convert(v)) \in 1..(k + 1)
         /\ ReadsAsInt(v, stream!Convert(v))
<1> PICK t : t = stream!Convert(v)
  OBVIOUS
<1> PICK C : C = ToSet(Decimals)
  OBVIOUS
<1> PICK r : r = stream!decimal[v]
  OBVIOUS
<1>1. r \in Seq(C) /\ Len(r) \in 1..k
  <2>1. r \in Seq(C)
    BY DecimalWrites, Zenon DEF Writes
  <2>2. Len(r) \in 1..k
    BY DecimalLength, Zenon DEF Short
  <2> QED
    BY <2>1, <2>2
<1>2. PICK w : Reversal(C, r, w) /\ Number(w, Decimals) = Absolute[v]
  <2>1. \A i \in Int : ReadsBack(stream!decimal, i, Absolute, Decimals)
    BY DecimalsFacts, DecimalReads, DecimalWrites, DigitsReadBack, Zenon
  <2> QED
    BY <2>1, Zenon DEF ReadsBack
<1>3. w \in Seq(C) /\ w = Reverse(r) /\ Len(w) = Len(r)
  BY <1>2, Zenon DEF Reversal
<1>4. r \in Strings /\ Reversal(Alphabet, r, w)
  BY <1>1, <1>2, AlphabetFacts, Widen, Zenon
<1>5. w \in Strings
  BY <1>4, Zenon DEF Reversal, Strings
<1>6. CASE v < 0
  <2> PICK s : s = r \o <<"-">>
    OBVIOUS
  <2>1. t = Reverse(s)
    BY <1>6, SameReverse, Zenon DEF stream!Convert
  <2>2. "-" \in Alphabet
    BY AlphabetFacts
  <2>3. Reversal(Alphabet, s, <<"-">> \o w)
    BY <1>4, <2>2, ReverseLast, Zenon DEF Strings
  <2>4. t = <<"-">> \o w /\ t \in Strings
    BY <2>1, <2>3, Zenon DEF Reversal, Strings
  <2>5. Before("-", w, t)
    BY <1>5, <2>2, <2>4, ConsFacts, Zenon DEF Strings
  <2>6. Head(t) = "-" /\ Tail(t) = w /\ Len(t) = 1 + Len(w)
    BY <2>5, Zenon DEF Before
  <2>7. Number(Tail(t), Decimals) = -v
    BY <1>2, <1>6, <2>6 DEF Absolute
  <2>8. ReadsAsInt(v, t)
    <3>1. v = -Number(Tail(t), Decimals)
      BY <2>7
    <3> QED
      BY <2>6, <3>1, Zenon DEF ReadsAsInt
  <2>9. Len(t) \in 1..(k + 1)
    BY <1>1, <1>3, <2>6
  <2> QED
    BY <2>4, <2>8, <2>9
<1>7. CASE ~(v < 0)
  <2>1. r \o <<>> = r
    BY <1>1, ConcatEmptySeq
  <2>2. t = w
    BY <1>3, <1>7, <2>1, SameReverse, Zenon DEF stream!Convert
  <2>3. Head(t) \in C /\ Head(t) # "-"
    <3>1. t \in Seq(C) /\ Len(t) \in 1..k
      BY <1>1, <1>3, <2>2
    <3>2. t # <<>>
      BY <3>1
    <3> QED
      BY <3>1, <3>2, HeadTailProperties, AlphabetFacts
  <2>4. Number(t, Decimals) = v
    BY <1>2, <1>7, <2>2 DEF Absolute
  <2>5. ReadsAsInt(v, t)
    BY <2>3, <2>4, Zenon DEF ReadsAsInt
  <2>6. Len(t) \in 1..(k + 1)
    BY <1>1, <1>3, <2>2
  <2> QED
    BY <1>5, <2>2, <2>5, <2>6
<1> QED
  BY <1>6, <1>7

\* operator<<(const void*): the text reads as the value behind its "0x".
LEMMA ConvertHexFacts ==
  ASSUME NEW v \in Nat, NEW k \in Nat \ {0}, v <= HexadecimalsF[k],
         NEW t, t = <<"0", "x">> \o stream!ConvertHex(v)
  PROVE  /\ t \in Strings /\ Len(t) \in 1..(k + 2)
         /\ v = Number(SubSeq(t, 3, Len(t)), Hexadecimals)
<1> PICK C : C = ToSet(Hexadecimals)
  OBVIOUS
<1> PICK r : r = stream!hex[v]
  OBVIOUS
<1>0. Value[v] = v
  BY DEF Value
<1>1. r \in Seq(C) /\ Len(r) \in 1..k
  <2>1. r \in Seq(C)
    BY HexWrites, Zenon DEF Writes
  <2>2. Len(r) \in 1..k
    BY <1>0, HexLength, Zenon DEF Short
  <2> QED
    BY <2>1, <2>2
<1>2. PICK w : Reversal(C, r, w) /\ Number(w, Hexadecimals) = v
  <2>1. \A i \in Nat : ReadsBack(stream!hex, i, Value, Hexadecimals)
    BY HexadecimalsFacts, HexReads, HexWrites, DigitsReadBack, Zenon
  <2> QED
    BY <1>0, <2>1, Zenon DEF ReadsBack
<1>3. w = Reverse(r) /\ Len(w) = Len(r)
  BY <1>2, Zenon DEF Reversal
<1>4. r \in Strings /\ Reversal(Alphabet, r, w)
  BY <1>1, <1>2, AlphabetFacts, Widen, Zenon
<1>5. w \in Strings
  BY <1>4, Zenon DEF Reversal, Strings
<1>6. stream!ConvertHex(v) = w
  BY <1>3, SameReverse, Zenon DEF stream!ConvertHex
<1> PICK x : x = <<"0", "x">>
  OBVIOUS
<1>7. x \in Seq(Alphabet) /\ Len(x) = 2
  <2>1. "0" \in Alphabet /\ "x" \in Alphabet
    BY AlphabetFacts
  <2> QED
    BY <2>1
<1>8. t = x \o w
  BY <1>6, Zenon
<1>9. /\ t \in Seq(Alphabet) /\ Len(t) = Len(x) + Len(w) /\ SubSeq(t, Len(x) + 1, Len(t)) = w
  <2>1. /\ x \o w \in Seq(Alphabet) /\ Len(x \o w) = Len(x) + Len(w)
        /\ SubSeq(x \o w, Len(x) + 1, Len(x \o w)) = w
    BY <1>5, <1>7, ConcatParts DEF Strings
  <2> QED
    BY <1>8, <2>1, Zenon
<1>10. Len(t) \in 1..(k + 2) /\ Len(x) + 1 = 3
  BY <1>1, <1>3, <1>7, <1>9
<1>11. SubSeq(t, 3, Len(t)) = w
  BY <1>9, <1>10, Zenon
<1>12. Number(SubSeq(t, 3, Len(t)), Hexadecimals) = v
  BY <1>2, <1>11, Zenon
<1> QED
  BY <1>9, <1>10, <1>12, Zenon DEF Strings

\* The lines are pieces that LinesAssumption allows.
LEMMA LineFacts ==
  /\ MaxNumericSize \in Nat /\ MaxNumericSize >= 4 /\ SmallBuffer \in Nat
  /\ Lines \in Seq(Seq(Piece)) /\ Len(Lines) <= GreatestInt
  /\ Stamp \in Seq(STRING) /\ FileName \in Seq(STRING)
BY StreamAssumption, LinesAssumption

\* What a piece adds to a record reads as what was logged, and a number is shorter
\* than the room that it asks for.
Wellformed(p) ==
  /\ stream!Characters(p) \in Strings /\ ReadsAs(p, stream!Characters(p))
  /\ IF stream!IsNumeric(p) THEN Len(stream!Characters(p)) < MaxNumericSize
                            ELSE stream!Characters(p) = p.value

LEMMA StringsFacts ==
  ASSUME NEW t \in Seq(STRING)
  PROVE  t \in Strings
BY AlphabetFacts, SeqMonotonic DEF Strings

LEMMA GreatestIntFacts == GreatestInt \in Nat /\ Decimals9[MaxNumericSize - 2] = GreatestInt
<1> PICK k : k = MaxNumericSize - 2
  OBVIOUS
<1>1. k \in Nat
  BY LineFacts
<1>2. Decimals9[k] = GreatestInt
  BY <1>1, Zenon DEF Decimals9, GreatestInt
<1>3. Decimals9[k] \in Nat
  BY <1>1, NinesFacts, Zenon DEF Greatests
<1> QED
  BY <1>2, <1>3

\* An integer, a pointer, and a double or a text are wellformed pieces.
LEMMA IntIsWellformed ==
  ASSUME NEW v \in -GreatestInt..GreatestInt, NEW p, p = [kind |-> "int", value |-> v]
  PROVE  Wellformed(p)
<1> PICK k : k = MaxNumericSize - 2
  OBVIOUS
<1>1. k \in Nat \ {0} /\ k + 1 < MaxNumericSize /\ MaxNumericSize \in Nat
  BY LineFacts
<1>2. Decimals9[k] = GreatestInt /\ GreatestInt \in Nat
  BY GreatestIntFacts
<1>4. v \in Int /\ Absolute[v] <= Decimals9[k]
  BY <1>2 DEF Absolute
<1> PICK t : t = stream!Convert(v)
  OBVIOUS
<1>5. t \in Strings /\ Len(t) \in 1..(k + 1) /\ ReadsAsInt(v, t)
  BY <1>1, <1>4, ConvertFacts, Zenon
<1>6. p.kind = "int" /\ p.value = v
  OBVIOUS
<1>7. stream!Characters(p) = t
  BY <1>6, Zenon DEF stream!Characters
<1>8. ReadsAs(p, t)
  <2>1. CASE Head(t) = "-"
    <3>1. ReadsAs(p, t) <=> p.value = -Number(Tail(t), Decimals)
      BY <1>6, <2>1 DEF ReadsAs
    <3> QED
      BY <1>5, <1>6, <2>1, <3>1, Zenon DEF ReadsAsInt
  <2>2. CASE Head(t) # "-"
    <3>1. ReadsAs(p, t) <=> p.value = Number(t, Decimals)
      BY <1>6, <2>2 DEF ReadsAs
    <3> QED
      BY <1>5, <1>6, <2>2, <3>1, Zenon DEF ReadsAsInt
  <2> QED
    BY <2>1, <2>2
<1>9. stream!IsNumeric(p) /\ Len(t) < MaxNumericSize
  BY <1>1, <1>5, <1>6 DEF stream!IsNumeric
<1> QED
  BY <1>5, <1>7, <1>8, <1>9, Zenon DEF Wellformed

LEMMA PointerIsWellformed ==
  ASSUME NEW v \in 0..GreatestPointer, NEW p, p = [kind |-> "pointer", value |-> v]
  PROVE  Wellformed(p)
<1> PICK k : k = MaxNumericSize - 3
  OBVIOUS
<1>1. k \in Nat \ {0} /\ k + 2 < MaxNumericSize /\ MaxNumericSize \in Nat
  BY LineFacts
<1>2. HexadecimalsF[k] = GreatestPointer
  BY <1>1, Zenon DEF HexadecimalsF, GreatestPointer
<1>3. v \in Nat /\ v <= HexadecimalsF[k]
  BY <1>2
<1> PICK t : t = <<"0", "x">> \o stream!ConvertHex(v)
  OBVIOUS
<1>5. t \in Strings /\ Len(t) \in 1..(k + 2) /\ v = Number(SubSeq(t, 3, Len(t)), Hexadecimals)
  BY <1>1, <1>3, ConvertHexFacts, Zenon
<1>6. p.kind = "pointer" /\ p.value = v /\ p.kind # "int"
  OBVIOUS
<1>7. stream!Characters(p) = t
  BY <1>6 DEF stream!Characters
<1>8. ReadsAs(p, t)
  <2>1. ReadsAs(p, t) <=> p.value = Number(SubSeq(t, 3, Len(t)), Hexadecimals)
    BY <1>6 DEF ReadsAs
  <2> QED
    BY <1>5, <1>6, <2>1, Zenon
<1>9. stream!IsNumeric(p) /\ Len(t) < MaxNumericSize
  BY <1>1, <1>5, <1>6 DEF stream!IsNumeric
<1> QED
  BY <1>5, <1>7, <1>8, <1>9, Zenon DEF Wellformed

LEMMA TextIsWellformed ==
  ASSUME NEW p, p.kind \in {"double", "chars"}, p.value \in Strings,
         p.kind = "double" => Len(p.value) < MaxNumericSize
  PROVE  Wellformed(p)
<1>1. p.kind # "int" /\ p.kind # "pointer"
  OBVIOUS
<1>2. stream!Characters(p) = p.value
  BY <1>1 DEF stream!Characters
<1>3. ReadsAs(p, p.value)
  BY <1>1 DEF ReadsAs
<1>4. stream!IsNumeric(p) => Len(p.value) < MaxNumericSize
  BY <1>1 DEF stream!IsNumeric
<1> QED
  BY <1>2, <1>3, <1>4, Zenon DEF Wellformed

LEMMA PiecesAreWellformed ==
  ASSUME NEW p \in Piece
  PROVE  Wellformed(p)
<1>1. CASE p \in [kind : {"int"}, value : -GreatestInt..GreatestInt]
  <2> PICK v : v = p.value
    OBVIOUS
  <2>1. v \in -GreatestInt..GreatestInt /\ p = [kind |-> "int", value |-> v]
    BY <1>1
  <2> QED
    BY <2>1, IntIsWellformed, Zenon
<1>2. CASE p \in [kind : {"pointer"}, value : 0..GreatestPointer]
  <2> PICK v : v = p.value
    OBVIOUS
  <2>1. v \in 0..GreatestPointer /\ p = [kind |-> "pointer", value |-> v]
    BY <1>2
  <2> QED
    BY <2>1, PointerIsWellformed, Zenon
<1>3. CASE p \in [kind : {"double"}, value : {t \in Seq(STRING) : Len(t) < MaxNumericSize}]
  <2>1. /\ p.kind \in {"double", "chars"} /\ p.value \in Seq(STRING)
        /\ Len(p.value) < MaxNumericSize
    BY <1>3
  <2>2. p.value \in Strings
    BY <2>1, StringsFacts
  <2> QED
    BY <2>1, <2>2, TextIsWellformed
<1>4. CASE p \in [kind : {"chars"}, value : Seq(STRING)]
  <2>1. p.kind \in {"double", "chars"} /\ p.kind # "double" /\ p.value \in Seq(STRING)
    BY <1>4
  <2>2. p.value \in Strings
    BY <2>1, StringsFacts
  <2> QED
    BY <2>1, <2>2, TextIsWellformed
<1> QED
  BY <1>1, <1>2, <1>3, <1>4, Zenon DEF Piece

\* The pieces that can be in the n-th record.
Extras(n) == {Time, Chars(<<" ", "-", "-", " ">>), Chars(FileName), Chars(<<":">>),
              [kind |-> "int", value |-> n], Chars(<<"\n">>)}
PieceOf(n) == Piece \cup Extras(n)

LEMMA Tuples ==
  ASSUME NEW X, NEW c1 \in X, NEW c2 \in X, NEW c3 \in X, NEW c4 \in X, NEW c5 \in X
  PROVE  /\ <<c1>> \in Seq(X) /\ <<c1, c2, c3, c4>> \in Seq(X)
         /\ <<c1, c2, c3, c4, c5>> \in Seq(X)
OBVIOUS

LEMMA CharsWellformed ==
  ASSUME NEW t \in Strings
  PROVE  Wellformed(Chars(t))
<1> PICK p : p = Chars(t)
  OBVIOUS
<1>1. p.kind \in {"double", "chars"} /\ p.value \in Strings /\ p.kind # "double"
  BY DEF Chars
<1> QED
  BY <1>1, TextIsWellformed

\* A record is the line with its time, its file and its number.
LEMMA PiecesFacts ==
  ASSUME NEW n \in DOMAIN Lines
  PROVE  /\ Pieces(n) \in Seq(PieceOf(n))
         /\ \A p \in PieceOf(n) : Wellformed(p)
<1> PICK X : X = PieceOf(n)
  OBVIOUS
<1>1. /\ Lines[n] \in Seq(Piece) /\ n \in -GreatestInt..GreatestInt
  <2>1. DOMAIN Lines = 1..Len(Lines) /\ Len(Lines) \in Nat
    BY LineFacts, LenProperties
  <2>2. Lines[n] \in Seq(Piece)
    BY <2>1, LineFacts, ElementOfSeq
  <2>3. GreatestInt \in Nat
    BY GreatestIntFacts
  <2> QED
    BY <2>1, <2>2, <2>3, LineFacts
<1>2. /\ <<" ", "-", "-", " ">> \in Strings /\ <<":">> \in Strings /\ <<"\n">> \in Strings
      /\ FileName \in Strings /\ Stamp \in Strings
  <2>1. "-" \in Alphabet /\ " " \in Alphabet /\ ":" \in Alphabet /\ "\n" \in Alphabet
    BY AlphabetFacts
  <2>2. <<" ", "-", "-", " ">> \in Strings /\ <<":">> \in Strings /\ <<"\n">> \in Strings
    BY <2>1, Tuples, Zenon DEF Strings
  <2> QED
    BY <2>2, LineFacts, StringsFacts
<1>3. \A p \in Extras(n) : Wellformed(p)
  <2>1. Wellformed([kind |-> "int", value |-> n])
    BY <1>1, IntIsWellformed
  <2> QED
    BY <1>2, <2>1, CharsWellformed, Zenon DEF Extras, Time
<1>4. Lines[n] \in Seq(X)
  <2>1. Piece \subseteq X
    BY DEF PieceOf
  <2> QED
    BY <1>1, <2>1, SeqMonotonic
<1>5. Pieces(n) \in Seq(X)
  <2> PICK a : a = <<Time>>
    OBVIOUS
  <2> PICK b : b = <<Chars(<<" ", "-", "-", " ">>), Chars(FileName), Chars(<<":">>),
                     [kind |-> "int", value |-> n], Chars(<<"\n">>)>>
    OBVIOUS
  <2>1. Extras(n) \subseteq X
    BY DEF PieceOf
  <2>2. Time \in X
    BY <2>1, Zenon DEF Extras
  <2>3. /\ Chars(<<" ", "-", "-", " ">>) \in X /\ Chars(FileName) \in X /\ Chars(<<":">>) \in X
        /\ [kind |-> "int", value |-> n] \in X /\ Chars(<<"\n">>) \in X
    BY <2>1 DEF Extras
  <2>4. a \in Seq(X) /\ b \in Seq(X)
    BY <2>2, <2>3, Tuples, Zenon
  <2>5. (a \o Lines[n]) \o b \in Seq(X)
    BY <1>4, <2>4, ConcatParts
  <2> QED
    BY <2>5, Zenon DEF Pieces
<1>6. \A p \in X : Wellformed(p)
  BY <1>3, PiecesAreWellformed, Zenon DEF PieceOf
<1> QED
  BY <1>5, <1>6

\* The text before the k-th piece and after it.
Stepwise(n, k) ==
  /\ Prefix(n, k - 1) \in Strings
  /\ Prefix(n, k) = stream!Insert(Prefix(n, k - 1), Pieces(n)[k])
  /\ Wellformed(Pieces(n)[k])

\* Each piece is streamed behind the ones before it.
LEMMA PrefixSteps ==
  ASSUME NEW n \in DOMAIN Lines, NEW k \in DOMAIN Pieces(n)
  PROVE  Stepwise(n, k)
<1> PICK X : X = PieceOf(n)
  OBVIOUS
<1> PICK s : s = Pieces(n)
  OBVIOUS
<1>1. s \in Seq(X) /\ \A p \in X : Wellformed(p)
  BY PiecesFacts
<1>2. /\ Len(s) \in Nat /\ k \in 1..Len(s) /\ (\A i \in 1..Len(s) : s[i] \in X)
  BY <1>1, LenProperties, ElementOfSeq
<1> PICK q : q = SubSeq(s, 1, k - 1)
  OBVIOUS
<1>3. q \in Seq(X) /\ SubSeq(s, 1, k) = Append(q, s[k]) /\ s[k] \in X
  <2>1. \A i \in 1..(k - 1) : s[i] \in X
    BY <1>2
  <2>2. q \in Seq(X)
    BY <1>2, <2>1, SubSeqProperties
  <2>3. SubSeq(s, 1, k) = q \o <<s[k]>>
    <3>1. 1 \in 1..Len(s) /\ k \in 1..Len(s)
      BY <1>2
    <3> QED
      BY <1>1, <3>1, SubSeqRecursiveSecond, Zenon
  <2>4. q \o <<s[k]>> = Append(q, s[k])
    BY <1>2, <2>2, AppendIsConcat
  <2> QED
    BY <1>2, <2>2, <2>3, <2>4
<1>4. \A p \in X : stream!Characters(p) \in Strings
  BY <1>1, Zenon DEF Wellformed
<1>5. /\ stream!Text(q) \in Strings
      /\ stream!Text(Append(q, s[k])) = stream!Insert(stream!Text(q), s[k])
  BY <1>3, <1>4, TextStep
<1> QED
  BY <1>1, <1>3, <1>5, Zenon DEF Stepwise, Prefix

LEMMA PrefixTyped ==
  ASSUME NEW n \in DOMAIN Lines, NEW k \in DOMAIN Pieces(n)
  PROVE  Prefix(n, k) \in Strings
<1>1. Stepwise(n, k)
  BY PrefixSteps
<1> PICK c : c = stream!Characters(Pieces(n)[k])
  OBVIOUS
<1> PICK t : t = Prefix(n, k - 1)
  OBVIOUS
<1>2. t \in Strings /\ c \in Strings /\ Prefix(n, k) = stream!Insert(t, Pieces(n)[k])
  BY <1>1, Zenon DEF Stepwise, Wellformed
<1>3. t \o c \in Strings
  BY <1>2, ConcatProperties DEF Strings
<1> QED
  BY <1>2, <1>3, Zenon DEF stream!Insert

\* What a piece adds is all of it or nothing, and no more than there is room for.
AddsIt(n, k) ==
  LET p == Pieces(n)[k]
      t == Prefix(n, k - 1)
  IN  \/ /\ Prefix(n, k) = t /\ Added(n, k) = <<>> /\ Terminator(n, k) = 0
      \/ /\ Added(n, k) = stream!Characters(p)
         /\ Len(Prefix(n, k)) + Terminator(n, k) <= SmallBuffer

\* append() checks for the room, and the numeric ones for kMaxNumericSize.
LEMMA PieceAdds ==
  ASSUME NEW n, NEW k, Stepwise(n, k)
  PROVE  AddsIt(n, k)
<1> PICK p : p = Pieces(n)[k]
  OBVIOUS
<1> PICK t : t = Prefix(n, k - 1)
  OBVIOUS
<1> PICK u : u = Prefix(n, k)
  OBVIOUS
<1> PICK c : c = stream!Characters(p)
  OBVIOUS
<1>1. t \in Seq(Alphabet) /\ u = stream!Insert(t, p) /\ c \in Seq(Alphabet)
  BY Zenon DEF Stepwise, Wellformed, Strings
<1>2. Len(t) \in Nat /\ Len(c) \in Nat
  BY <1>1, LenProperties
<1>3. Added(n, k) = SubSeq(u, Len(t) + 1, Len(u))
  BY Zenon DEF Added
<1>4. Terminator(n, k) \in {0, 1} /\ (~stream!IsNumeric(p) \/ Added(n, k) = <<>> => Terminator(n, k) = 0)
  BY DEF Terminator
<1>5. CASE stream!HasRoom(t, p)
  <2>1. u = t \o c
    BY <1>1, <1>5, Zenon DEF stream!Insert
  <2>2. Len(t \o c) = Len(t) + Len(c) /\ SubSeq(t \o c, Len(t) + 1, Len(t \o c)) = c
    BY <1>1, ConcatParts
  <2>3. Added(n, k) = c /\ Len(u) = Len(t) + Len(c)
    BY <1>3, <2>1, <2>2, Zenon
  <2>4. Len(u) + Terminator(n, k) <= SmallBuffer
    <3>1. CASE stream!IsNumeric(p)
      <4>1. SmallBuffer - Len(t) >= MaxNumericSize
        BY <1>5, <3>1 DEF stream!HasRoom, stream!Room
      <4>2. Len(c) < MaxNumericSize
        BY <3>1, Zenon DEF Stepwise, Wellformed
      <4> QED
        BY <1>2, <1>4, <2>3, <4>1, <4>2, LineFacts
    <3>2. CASE ~stream!IsNumeric(p)
      <4>1. SmallBuffer - Len(t) > Len(p.value)
        BY <1>5, <3>2 DEF stream!HasRoom, stream!Room
      <4>2. c = p.value
        BY <3>2, Zenon DEF Stepwise, Wellformed
      <4>3. Terminator(n, k) = 0
        BY <1>4, <3>2
      <4>4. SmallBuffer - Len(t) > Len(c)
        BY <4>1, <4>2, Zenon
      <4> QED
        BY <1>2, <2>3, <4>3, <4>4, LineFacts
    <3> QED
      BY <3>1, <3>2
  <2> QED
    BY <2>3, <2>4, Zenon DEF AddsIt
<1>6. CASE ~stream!HasRoom(t, p)
  <2>1. u = t
    BY <1>1, <1>6, Zenon DEF stream!Insert
  <2>2. SubSeq(t, Len(t) + 1, Len(t)) = <<>>
    BY <1>2, SubSeqEmpty
  <2>3. Added(n, k) = <<>>
    BY <1>3, <2>1, <2>2, Zenon
  <2>4. Terminator(n, k) = 0
    BY <1>4, <2>3
  <2> QED
    BY <2>1, <2>3, <2>4, Zenon DEF AddsIt
<1> QED
  BY <1>5, <1>6

\* The text never outgrows the buffer of the record.
LEMMA PrefixFits ==
  ASSUME NEW n \in DOMAIN Lines
  PROVE  \A k \in 0..Len(Pieces(n)) : Len(Prefix(n, k)) <= SmallBuffer
<1> DEFINE T == {k \in Nat : k <= Len(Pieces(n)) => Len(Prefix(n, k)) <= SmallBuffer}
<1>1. 0 \in T
  <2>1. SubSeq(Pieces(n), 1, 0) = <<>>
    BY SubSeqEmpty
  <2>2. Prefix(n, 0) = <<>>
    BY <2>1, TextEmpty, Zenon DEF Prefix
  <2>3. Len(Prefix(n, 0)) = 0
    BY <2>2
  <2> QED
    BY <2>3, LineFacts
<1>2. ASSUME NEW k \in Nat, k \in T PROVE k + 1 \in T
  <2> SUFFICES ASSUME k + 1 <= Len(Pieces(n)) PROVE Len(Prefix(n, k + 1)) <= SmallBuffer
    OBVIOUS
  <2> PICK j : j = k + 1
    OBVIOUS
  <2>1. j \in DOMAIN Pieces(n) /\ j - 1 = k /\ k <= Len(Pieces(n))
    <3>1. Len(Pieces(n)) \in Nat /\ DOMAIN Pieces(n) = 1..Len(Pieces(n))
      BY PiecesFacts, LenProperties
    <3> QED
      BY <3>1
  <2>2. Stepwise(n, j) /\ AddsIt(n, j)
    BY <2>1, PrefixSteps, PieceAdds, Zenon
  <2>3. CASE Prefix(n, j) = Prefix(n, j - 1)
    BY <1>2, <2>1, <2>3
  <2>4. CASE Len(Prefix(n, j)) + Terminator(n, j) <= SmallBuffer
    <3>1. Len(Prefix(n, j)) \in Nat
      <4>1. Prefix(n, j) \in Seq(Alphabet)
        BY <2>1, PrefixTyped, Zenon DEF Strings
      <4> QED
        BY <4>1, LenProperties
    <3>2. Terminator(n, j) \in {0, 1}
      BY DEF Terminator
    <3> QED
      BY <2>4, <3>1, <3>2, LineFacts
  <2> QED
    BY <2>2, <2>3, <2>4, Zenon DEF AddsIt
<1>3. \A k \in Nat : k \in T
  <2> HIDE DEF T
  <2> QED
    BY <1>1, <1>2, AllNumbers
<1> SUFFICES ASSUME NEW k \in 0..Len(Pieces(n)) PROVE Len(Prefix(n, k)) <= SmallBuffer
  OBVIOUS
<1>4. k \in Nat /\ k <= Len(Pieces(n))
  <2>1. Len(Pieces(n)) \in Nat
    BY PiecesFacts, LenProperties
  <2> QED
    BY <2>1
<1> QED
  BY <1>3, <1>4

\* Every line reads back and stays inside its buffer.
LEMMA LinesReadBack == Legible = DOMAIN Lines /\ Inside = DOMAIN Lines
<1>1. ASSUME NEW n \in DOMAIN Lines, NEW k \in DOMAIN Pieces(n)
      PROVE  /\ Added(n, k) # <<>> => ReadsAs(Pieces(n)[k], Added(n, k))
             /\ Len(Prefix(n, k)) + Terminator(n, k) <= SmallBuffer
  <2>1. Stepwise(n, k) /\ AddsIt(n, k)
    BY PrefixSteps, PieceAdds, Zenon
  <2>2. CASE Prefix(n, k) = Prefix(n, k - 1) /\ Added(n, k) = <<>> /\ Terminator(n, k) = 0
    <3>1. k - 1 \in 0..Len(Pieces(n))
      <4>1. Len(Pieces(n)) \in Nat /\ DOMAIN Pieces(n) = 1..Len(Pieces(n))
        BY PiecesFacts, LenProperties
      <4> QED
        BY <4>1
    <3>2. Len(Prefix(n, k)) <= SmallBuffer
      BY <2>2, <3>1, PrefixFits, Zenon
    <3>3. Len(Prefix(n, k)) \in Nat
      <4>1. Prefix(n, k) \in Seq(Alphabet)
        BY <2>1, <2>2, Zenon DEF Stepwise, Strings
      <4> QED
        BY <4>1, LenProperties
    <3>4. Len(Prefix(n, k)) + Terminator(n, k) <= SmallBuffer
      BY <2>2, <3>2, <3>3
    <3> QED
      BY <2>2, <3>4, Zenon
  <2>3. CASE /\ Added(n, k) = stream!Characters(Pieces(n)[k])
             /\ Len(Prefix(n, k)) + Terminator(n, k) <= SmallBuffer
    BY <2>1, <2>3, Zenon DEF Stepwise, Wellformed
  <2> QED
    BY <2>1, <2>2, <2>3, Zenon DEF AddsIt
<1> QED
  BY <1>1, Zenon DEF Legible, Inside

(***************************************************************************)
(* The start of the logger.                                                *)
(***************************************************************************)
\* pthread_once has not been called, one thread is in once_init, or it is over:
\* nobody appends before.
Initialising == {th \in Threads : place[th] = "init"}
Begun ==
  /\ place \in [Threads -> Places]
  /\ once \in {"not", "running", "done"} /\ opc \in OwnerLocations /\ running \in BOOLEAN
  /\ (once = "not") = (opc = "new")
  /\ (once = "running") = (opc = "latch")
  /\ once = "running" => \E th \in Threads : Initialising = {th}
  /\ once # "running" => Initialising = {}
  /\ once # "done" => appended = 0 /\ \A th \in Threads : place[th] # "append"

LEMMA BegunInit == InitLogger => Begun
BY DEF InitLogger, Init, Begun, Initialising, Places, OwnerLocations

LEMMA BegunStays ==
  ASSUME Begun, UNCHANGED <<once, place, appended, running>>,
         opc' = opc \/ {opc, opc'} \subseteq {"started", "notify", "join", "joined"}
  PROVE  Begun'
<1>1. opc' \in OwnerLocations /\ (opc' = "new") = (opc = "new") /\ (opc' = "latch") = (opc = "latch")
  BY DEF Begun, OwnerLocations
<1>2. Initialising' = Initialising
  BY DEF Initialising
<1> QED
  BY <1>1, <1>2 DEF Begun

LEMMA BegunStep == Begun /\ [Next]_allVars => Begun'
<1> SUFFICES ASSUME Begun, [Next]_allVars PROVE Begun'
  OBVIOUS
<1>0. place \in [Threads -> Places]
  BY DEF Begun
<1>1. ASSUME NEW th \in Threads, Log(th) PROVE Begun'
  <2>1. /\ place[th] = "idle" /\ place' = [place EXCEPT ![th] = "once"]
        /\ UNCHANGED <<once, opc, appended, running>>
    BY <1>1 DEF Log, Go, vars, appenderVars
  <2>2. Initialising' = Initialising /\ place' \in [Threads -> Places]
        /\ \A t \in Threads : place'[t] = "append" => place[t] = "append"
    BY <1>0, <2>1 DEF Initialising, Places
  <2> QED
    BY <2>1, <2>2 DEF Begun
<1>2. ASSUME NEW th \in Threads, Once(th), once = "not" PROVE Begun'
  <2>1. /\ place' = [place EXCEPT ![th] = "init"] /\ once' = "running" /\ opc' = "latch"
        /\ appended' = appended /\ running' = TRUE
    BY <1>2 DEF Once, Go, Start, appenderVars
  <2>2. Initialising' = {th} /\ place' \in [Threads -> Places]
        /\ \A t \in Threads : place'[t] = "append" => place[t] = "append"
    BY <1>0, <1>2, <2>1 DEF Begun, Initialising, Places
  <2> QED
    BY <1>2, <2>1, <2>2 DEF Begun, OwnerLocations
<1>3. ASSUME NEW th \in Threads, Once(th), once # "not" PROVE Begun'
  <2>1. /\ place[th] = "once" /\ place' = [place EXCEPT ![th] = "append"] /\ once = "done"
        /\ UNCHANGED <<once, opc, appended, running>>
    BY <1>3 DEF Once, Go, vars, appenderVars
  <2>2. Initialising' = Initialising /\ place' \in [Threads -> Places]
    BY <1>0, <2>1 DEF Initialising, Places
  <2> QED
    BY <2>1, <2>2 DEF Begun
<1>4. ASSUME NEW th \in Threads, OnceInit(th) PROVE Begun'
  <2>1. place[th] = "init" /\ opc = "latch" /\ UNCHANGED <<appended, running>>
    BY <1>4 DEF OnceInit, LatchWait, appenderVars
  <2>2. CASE opc' = "started"
    <3>1. once' = "done" /\ place' = [place EXCEPT ![th] = "append"]
      BY <1>4, <2>2 DEF OnceInit, Go
    <3>2. once = "running" /\ Initialising = {th}
      BY <2>1 DEF Begun, Initialising
    <3>3. Initialising' = {} /\ place' \in [Threads -> Places]
      BY <1>0, <3>1, <3>2 DEF Initialising, Places
    <3> QED
      BY <2>1, <2>2, <3>1, <3>3 DEF Begun, OwnerLocations
  <2>3. CASE opc' # "started"
    <3>1. UNCHANGED <<once, place, appended, running, opc>>
      BY <1>4, <2>1, <2>3 DEF OnceInit, LatchWait, loggerVars
    <3> QED
      BY <3>1, BegunStays
  <2> QED
    BY <2>2, <2>3
<1>5. ASSUME NEW th \in Threads, Output(th) PROVE Begun'
  <2>1. /\ place[th] = "append" /\ place' = [place EXCEPT ![th] = "idle"]
        /\ UNCHANGED <<once, opc, running>>
    BY <1>5 DEF Output, Go, AppendRecord
  <2>2. Initialising' = Initialising /\ place' \in [Threads -> Places]
    BY <1>0, <2>1 DEF Initialising, Places
  <2>3. once = "done"
    BY <2>1 DEF Begun
  <2> QED
    BY <2>1, <2>2, <2>3 DEF Begun
<1>6. CASE LogExit
  <2>1. CASE Stop
    <3>1. UNCHANGED <<once, place, appended>> /\ opc = "started" /\ opc' = "notify" /\ running' = FALSE
      BY <1>6, <2>1 DEF LogExit, Stop, loggerVars, appenderVars
    <3>2. Initialising' = Initialising
      BY <3>1 DEF Initialising
    <3> QED
      BY <3>1, <3>2 DEF Begun, OwnerLocations
  <2>2. CASE Notify \/ Join
    <3>1. UNCHANGED <<once, place, appended, running>>
          /\ {opc, opc'} \subseteq {"started", "notify", "join", "joined"}
      BY <1>6, <2>2 DEF LogExit, Notify, Join, loggerVars, appenderVars
    <3> QED
      BY <3>1, BegunStays
  <2> QED
    BY <1>6, <2>1, <2>2 DEF LogExit
<1>7. CASE ThreadFun \/ Spurious \/ UNCHANGED allVars
  <2>1. UNCHANGED <<once, place, appended, running, opc>>
    BY <1>7 DEF ThreadFun, ThreadStep, CountDown, Test, Sleep, TimeoutOrSpurious, Swap, Trim,
                WriteBuffer, EndWrite, Refill, Flush, loggerVars, appenderVars, Spurious,
                LatchSpurious, allVars, vars
  <2> QED
    BY <2>1, BegunStays
<1> QED
  BY <1>1, <1>2, <1>3, <1>4, <1>5, <1>6, <1>7 DEF Next, CallerStep

LEMMA BegunInvariant == Spec => []Begun
BY BegunInit, BegunStep, PTL DEF Spec

\* The latch is down once the thread runs, and the appends to the file are counted.
Latched ==
  /\ latchCount = IF tpc \in {"none", "failed", "spawned"} THEN 1 ELSE 0
  /\ latchSleeping \subseteq {Owner}
  /\ count \in 0..(FlushEveryN - 1)

LEMMA LatchedInit == InitLogger => Latched
BY FlushAssumption DEF InitLogger, Init, Latched

LEMMA LatchedStays ==
  ASSUME Latched, UNCHANGED <<latchCount, count>>, latchSleeping' \subseteq {Owner},
         tpc' \in {"none", "failed", "spawned"} <=> tpc \in {"none", "failed", "spawned"}
  PROVE  Latched'
BY DEF Latched

LEMMA LatchedStep == Latched /\ NotCreated /\ [Next]_allVars => Latched'
<1> SUFFICES ASSUME Latched, NotCreated, [Next]_allVars PROVE Latched'
  OBVIOUS
<1>1. CASE \E th \in Threads : Log(th) \/ Once(th)
  <2>1. UNCHANGED <<latchCount, count, latchSleeping>>
        /\ (tpc' = tpc \/ (tpc = "none" /\ tpc' \in {"spawned", "failed"}))
    BY <1>1 DEF Log, Once, Start, CreateThread, NotCreated, vars, latchVars, fileVars
  <2> QED
    BY <2>1, LatchedStays DEF Latched
<1>2. CASE \E th \in Threads : OnceInit(th)
  <2>1. UNCHANGED <<latchCount, count, tpc>> /\ latchSleeping' \subseteq latchSleeping \cup {Owner}
    BY <1>2 DEF OnceInit, LatchWait, latch!Sleep, latch!Pass, fileVars
  <2> QED
    BY <2>1, LatchedStays DEF Latched
<1>3. CASE \E th \in Threads : Output(th)
  <2>1. UNCHANGED <<latchCount, count, latchSleeping>> /\ tpc' \in {tpc, Notified}
    BY <1>3 DEF Output, AppendRecord, AppendFits, AppendFull, latchVars, fileVars
  <2> QED
    BY <2>1, LatchedStays DEF Latched, Notified
<1>4. CASE LogExit
  <2>1. UNCHANGED <<latchCount, count, latchSleeping>> /\ tpc' \in {tpc, Notified}
    BY <1>4 DEF LogExit, Stop, Notify, Join, latchVars, fileVars
  <2> QED
    BY <2>1, LatchedStays DEF Latched, Notified
<1>5. CASE Spurious \/ UNCHANGED allVars
  <2>1. UNCHANGED <<latchCount, count, tpc>> /\ latchSleeping' \subseteq latchSleeping
    BY <1>5 DEF Spurious, LatchSpurious, latch!Spurious, fileVars, allVars, vars, latchVars
  <2> QED
    BY <2>1, LatchedStays DEF Latched
<1>6. CASE ThreadFun
  <2>1. CASE CountDown
    BY <2>1 DEF CountDown, latch!CountDown, Latched, fileVars
  <2>2. CASE WriteBuffer
    <3>1. /\ UNCHANGED <<latchCount, latchSleeping, tpc>>
          /\ \/ count' = 0
             \/ ~(count + 1 >= FlushEveryN) /\ count' = count + 1
      BY <2>2 DEF WriteBuffer, LogFileAppend, latchVars
    <3> QED
      BY <3>1, FlushAssumption DEF Latched
  <2>3. CASE Test \/ Sleep \/ TimeoutOrSpurious \/ Swap \/ Trim \/ EndWrite \/ Refill \/ Flush
    <3>1. UNCHANGED <<latchCount, count, latchSleeping>>
          /\ tpc \notin {"none", "failed", "spawned"} /\ tpc' \notin {"none", "failed", "spawned"}
      BY <2>3 DEF Test, Sleep, TimeoutOrSpurious, Swap, Trim, EndWrite, Refill, Flush, latchVars,
                  fileVars
    <3> QED
      BY <3>1, LatchedStays DEF Latched
  <2> QED
    BY <1>6, <2>1, <2>2, <2>3 DEF ThreadFun, ThreadStep
<1> QED
  BY <1>1, <1>2, <1>3, <1>4, <1>5, <1>6 DEF Next, CallerStep

LEMMA LatchedInvariant == Spec => []Latched
BY LatchedInit, LatchedStep, CreatedOnce, PTL DEF Spec

\* Types, and the start of the logger: while pthread_once runs once_init, one
\* thread is in it, and it waits for the latch of the logging thread; no record
\* has been appended before; the latch is only ever the one of start().
THEOREM LoggerTypeCorrect == Spec => []LoggerTypeOK
<1>1. BufferInv /\ Count /\ TextInv /\ Begun /\ Latched => LoggerTypeOK
  <2> SUFFICES ASSUME BufferInv, Count, TextInv, Begun, Latched PROVE LoggerTypeOK
    OBVIOUS
  <2>1. /\ currentBuffer \in Buffers /\ {nextBuffer, newBuffer1, newBuffer2} \subseteq Pointers
        /\ {buffers, bufferToWrite} \subseteq Seq(Buffers) /\ tpc \in ThreadLocations
        /\ tpc \notin {"trim", "write", "refill"} => bufferToWrite = <<>>
    BY DEF BufferInv, Shape, Supply, HasBatch
  <2>2. /\ text \in [Buffers -> Seq(1..Len(Size))]
        /\ written \in Seq(1..Len(Size)) /\ flushed \in 0..Len(written)
        /\ cursor \in 1..(Len(bufferToWrite) + 1)
    BY Zenon DEF TextInv, Texts, AllTexts, Records, Progress
  <2>3. appended \in 0..Len(Size)
    <3>1. Cardinality(Busy) \in Nat /\ appended \in Nat /\ appended + Cardinality(Busy) <= Len(Size)
      BY FS_CardinalityType DEF Count
    <3> QED
      BY <3>1, SizeFacts
  <2>4. /\ running \in BOOLEAN /\ opc \in OwnerLocations
        /\ latchCount \in 0..1 /\ latchSleeping \subseteq {Owner}
        /\ count \in 0..(FlushEveryN - 1)
    BY DEF Begun, Latched
  <2>5. TypeOK
    BY <2>1, <2>2, <2>3, <2>4, Zenon DEF TypeOK
  <2>6. Cardinality({th \in Threads : place[th] = "init"}) = IF once = "running" THEN 1 ELSE 0
    <3>1. CASE once = "running"
      <4>1. PICK th \in Threads : Initialising = {th}
        BY <3>1 DEF Begun
      <4>2. Cardinality({th}) = 1
        BY FS_Singleton
      <4> QED
        BY <3>1, <4>1, <4>2, Zenon DEF Initialising
    <3>2. CASE once # "running"
      <4>1. Initialising = {}
        BY <3>2 DEF Begun
      <4>2. Cardinality({}) = 0
        BY FS_EmptySet
      <4> QED
        BY <3>2, <4>1, <4>2, Zenon DEF Initialising
    <3> QED
      BY <3>1, <3>2
  <2>7. /\ once \in {"not", "running", "done"} /\ place \in [Threads -> Places]
        /\ once = "running" <=> opc = "latch"
        /\ once = "not" => appended = 0
    BY DEF Begun
  <2> QED
    BY <2>5, <2>6, <2>7 DEF LoggerTypeOK
<1> QED
  BY <1>1, BuffersInvariant, CountInvariant, TextInvariant, BegunInvariant, LatchedInvariant, PTL

\* For any lines: whatever convert(), convertHex() and append() leave of a piece in
\* the log reads as what was streamed (all of it, or nothing when the buffer of the
\* record is full), and nothing, the terminating zero of a number included, is
\* written behind the end of that buffer.
THEOREM RecordsAlwaysReadBack == Spec => []RecordsReadBack
<1>1. Count /\ LoggerTypeOK => RecordsReadBack
  <2> SUFFICES ASSUME Count, LoggerTypeOK PROVE RecordsReadBack
    OBVIOUS
  <2>1. DOMAIN Size = DOMAIN Lines
    BY RecordAssumption
  <2>2. DOMAIN Size = 1..Len(Size)
    BY SizeAssumption
  <2>3. 1..appended \subseteq DOMAIN Lines
    <3>1. Cardinality(Busy) \in Nat /\ appended \in Nat /\ appended + Cardinality(Busy) <= Len(Size)
      BY FS_CardinalityType DEF Count
    <3> QED
      BY <2>1, <2>2, <3>1, SizeFacts
  <2> QED
    BY <2>3, LinesReadBack, Zenon DEF RecordsReadBack
<1> QED
  BY <1>1, CountInvariant, LoggerTypeCorrect, PTL
=============================================================================
