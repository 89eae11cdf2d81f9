---------------------------- MODULE Output_proofs ----------------------------
(***************************************************************************)
(* Proofs about Output, for any size of the kernel's buffer and of the     *)
(* messages and any number of sends, from both kinds of thread, with files *)
(* only where the code can send them.                                      *)
(***************************************************************************)
EXTENDS Output, FiniteSetTheorems, SequenceTheorems, TLAPS

\* A connection with files: each goes out whole (the code advances offset_ twice),
\* behind a message that the kernel takes at once (a completion does not look at
\* sendFile_), once all before is read (a later message would overtake the file),
\* with no completion callback (it finds sendFile_ reset).
WholeFiles ==
  \A u \in Usages : u.files =>
    /\ FileLen = 1 /\ u.sizes \subseteq 1..Room
    /\ ~u.pipelined /\ ~u.foreign /\ ~u.reports

(***************************************************************************)
(* The invariant.  Conserved and WatchedWhilePending are not inductive.    *)
(* The write event is all that tells send() whether something waits, and   *)
(* shutdown() whether it has to: Idle and Busy say what it means.  After a *)
(* reset the bytes are of no interest, but the event still keeps           *)
(* shutdown() from calling the kernel, and NothingAfterShut says that      *)
(* nothing is accepted after it did.                                       *)
(***************************************************************************)
Unit == {"msg", "file"} \X Nat \X Nat
Job == [op : {"complete"}] \cup [op : {"send"}, m : 1..MaxSends, size : Nat \ {0}]
FileState == [of : 0..MaxSends, off : Nat, left : 0..FileLen]

Alive == state \in {"connected", "disconnecting"}

Types ==
  /\ TypeOK /\ usage \in Usages /\ state # "crashed"
  /\ buffer \in Seq(Unit) /\ wire \in Seq(Unit) /\ taken \in Seq(Unit)
  /\ functors \in Seq(Job)

\* A file is untouched or sent.
Whole(fl) ==
  /\ fl.left # 0 => fl.left = 1 /\ fl.off = 0
  /\ ~usage.files => fl = NoFile

FilesAreWhole == Whole(file) /\ (usage.files => functors = <<>>)

Idle ==
  Alive /\ ~writing =>
    /\ wire = taken /\ buffer = <<>>
    /\ ~gone /\ ~shut => file.left = 0

Busy ==
  writing /\ ~gone =>
    /\ buffer # <<>> \/ file.left # 0
    /\ buffer # <<>> => file.left = 0
    /\ (wire \o buffer) \o FilePart(file, file.left) = taken

NothingAfterShut == shut => ~writing /\ buffer = <<>> /\ wire = taken
Ended == state = "disconnected" => gone /\ ~writing

OutputInv == Types /\ FilesAreWhole /\ Idle /\ Busy /\ NothingAfterShut /\ Ended

(***************************************************************************)
(* Sequences.                                                              *)
(***************************************************************************)
LEMMA ConcatFacts ==
  ASSUME NEW r \in Seq(Unit), NEW s \in Seq(Unit), NEW t \in Seq(Unit)
  PROVE  /\ r \o s \in Seq(Unit) /\ (r \o s) \o t = r \o (s \o t)
         /\ r \o <<>> = r /\ <<>> \o r = r
BY ConcatAssociative, ConcatEmptySeq, ConcatProperties

LEMMA Associative ==
  \A r, s, t \in Seq(Unit) : (r \o s) \o t = r \o (s \o t)
BY ConcatAssociative

LEMMA SplitFacts ==
  ASSUME NEW s \in Seq(Unit), NEW n \in 0..Len(s)
  PROVE  /\ SubSeq(s, 1, n) \in Seq(Unit) /\ SubSeq(s, n + 1, Len(s)) \in Seq(Unit)
         /\ Len(SubSeq(s, 1, n)) = n
         /\ (SubSeq(s, n + 1, Len(s)) = <<>>) <=> n = Len(s)
         /\ SubSeq(s, 1, n) \o SubSeq(s, n + 1, Len(s)) = s
<1> DEFINE p == SubSeq(s, 1, n)
           q == SubSeq(s, n + 1, Len(s))
<1>1. p \in Seq(Unit) /\ Len(p) = n /\ \A i \in 1..n : p[i] = s[i]
  OBVIOUS
<1>2. q \in Seq(Unit) /\ Len(q) = Len(s) - n /\ \A i \in 1..(Len(s) - n) : q[i] = s[n + i]
  OBVIOUS
<1> HIDE DEF p, q
<1>3. p \o q \in Seq(Unit) /\ Len(p \o q) = Len(s)
      /\ \A i \in 1..Len(s) : (p \o q)[i] = IF i <= n THEN p[i] ELSE q[i - n]
  BY <1>1, <1>2, ConcatProperties
<1>4. \A i \in 1..Len(s) : (p \o q)[i] = s[i]
  BY <1>1, <1>2, <1>3
<1>5. p \o q = s
  BY <1>3, <1>4, SeqEqual
<1>6. q = <<>> <=> n = Len(s)
  BY <1>2, EmptySeq
<1> QED
  BY <1>1, <1>2, <1>5, <1>6 DEF p, q

LEMMA MessageFacts ==
  ASSUME NEW m \in Nat, NEW size \in Nat \ {0}
  PROVE  Message(m, size) \in Seq(Unit) /\ Len(Message(m, size)) = size
BY DEF Message, Unit

(***************************************************************************)
(* Files.                                                                  *)
(***************************************************************************)
LEMMA FilePartFacts ==
  ASSUME NEW fl \in FileState
  PROVE  /\ FilePart(fl, 0) = <<>>
         /\ FilePart(fl, fl.left) \in Seq(Unit)
<1>1. \A i \in 1..fl.left : fl.off + i \in Nat /\ fl.of \in Nat
  BY LengthAssumption DEF FileState
<1>2. fl.left \in Nat
  BY LengthAssumption DEF FileState
<1>3. FilePart(fl, fl.left) \in Seq(Unit)
  BY <1>1, <1>2 DEF FilePart, Unit
<1>4. FilePart(fl, 0) = <<>>
  BY DEF FilePart
<1> QED
  BY <1>3, <1>4

\* sendfile() takes an untouched file of one unit, or nothing of it.
LEMMA FileTakenFacts ==
  ASSUME NEW fl \in FileState, Whole(fl), NEW r \in Nat
  PROVE  /\ FileTaken(fl, r) = 0 \/ FileTaken(fl, r) = fl.left
         /\ FileTaken(fl, r) \in Nat /\ FileTaken(fl, r) <= r
         /\ fl.left = 0 \/ fl.left = 1
<1>1. fl.left \in Nat /\ fl.off \in Nat /\ FileLen \in Nat \ {0}
  BY LengthAssumption DEF FileState
<1>2. fl.left = 0 \/ (fl.left = 1 /\ fl.off = 0)
  BY DEF Whole
<1>3. CASE fl.left = 0
  BY <1>1, <1>3 DEF FileTaken, Least
<1>4. CASE fl.left = 1 /\ fl.off = 0
  BY <1>1, <1>4 DEF FileTaken, Least
<1> QED
  BY <1>2, <1>3, <1>4

LEMMA AdvanceFacts ==
  ASSUME NEW fl \in FileState, Whole(fl), NEW k \in Nat, k = 0 \/ k = fl.left
  PROVE  /\ Advance(fl, k) \in FileState /\ Whole(Advance(fl, k))
         /\ Advance(fl, k).left = fl.left - k
         /\ k = 0 => Advance(fl, k) = fl
<1>1. fl.left \in 0..FileLen /\ fl.off \in Nat /\ fl.of \in 0..MaxSends /\ FileLen \in Nat
  BY LengthAssumption DEF FileState
<1>2. fl.off + k + k \in Nat /\ fl.left - k \in 0..FileLen
  BY <1>1
<1>3. /\ Advance(fl, k) \in FileState /\ Advance(fl, k).left = fl.left - k
      /\ Advance(fl, k).off = fl.off + k + k /\ Advance(fl, k).of = fl.of
  BY <1>1, <1>2 DEF Advance, FileState
<1>5. Advance(fl, k) \in FileState /\ Advance(fl, k).left = fl.left - k
  BY <1>3
<1>6. k = 0 => Advance(fl, k) = fl
  <2> SUFFICES ASSUME k = 0 PROVE Advance(fl, k) = fl
    OBVIOUS
  <2>1. fl.off + k + k = fl.off /\ fl.left - k = fl.left
    BY <1>1
  <2>2. \A x, y \in FileState :
          x.of = y.of /\ x.off = y.off /\ x.left = y.left => x = y
    BY DEF FileState
  <2> QED
    BY <1>3, <2>1, <2>2
<1>7. Whole(Advance(fl, k))
  <2>1. CASE k = 0
    BY <1>6, <2>1
  <2>2. CASE k = fl.left
    <3>1. Advance(fl, k).left = 0
      BY <1>1, <1>5, <2>2
    <3>2. ~usage.files => k = 0
      BY <2>2 DEF Whole, NoFile
    <3>3. ~usage.files => Advance(fl, k) = NoFile
      BY <1>6, <3>2 DEF Whole
    <3> QED
      BY <3>1, <3>3 DEF Whole
  <2> QED
    BY <2>1, <2>2
<1> QED
  BY <1>5, <1>6, <1>7

LEMMA NoFileFacts == NoFile \in FileState /\ Whole(NoFile) /\ NoFile.left = 0
BY LengthAssumption DEF FileState, Whole, NoFile

LEMMA FileIsTyped == ASSUME OutputInv PROVE file \in FileState /\ Whole(file)
BY DEF OutputInv, Types, TypeOK, FileState, FilesAreWhole

(***************************************************************************)
(* sendInLoop with a message that was not sent before, and with the file   *)
(* that was there or, if nothing waits, a new one.                         *)
(***************************************************************************)
LEMMA FreeFacts ==
  ASSUME OutputInv
  PROVE  free \in Nat /\ unread + free = Room /\ unread \in Nat
BY LengthAssumption DEF OutputInv, Types, TypeOK, free

Sendable(units, fl) ==
  /\ units \in Seq(Unit) /\ units # <<>>
  /\ fl \in FileState /\ Whole(fl)
  /\ fl = file \/ file.left = 0
  /\ fl.left # 0 /\ ~gone => ~writing
  /\ fl.left # 0 /\ ~gone /\ ~shut => Complete(units)

\* What the endings have in common, and the parts of the invariant they touch.
SendPost ==
  /\ file' \in FileState /\ (Whole(file'))
  /\ state' = state
  /\ buffer' \in Seq(Unit) /\ wire' \in Seq(Unit) /\ taken' \in Seq(Unit)
  /\ unread' \in 0..Room /\ writing' \in BOOLEAN
  /\ ~writing' => /\ wire' = taken' /\ buffer' = <<>>
                  /\ ~gone /\ ~shut => file'.left = 0
  /\ writing' /\ ~gone =>
       /\ buffer' # <<>> \/ file'.left # 0
       /\ buffer' # <<>> => file'.left = 0
       /\ (wire' \o buffer') \o FilePart(file', file'.left) = taken'
  /\ shut => ~writing' /\ buffer' = <<>> /\ wire' = taken'

LEMMA SendFailsFacts ==
  ASSUME OutputInv, Alive, NEW units, NEW fl, Sendable(units, fl), SendFails(fl)
  PROVE  SendPost
<1>1. /\ UNCHANGED <<state, buffer, writing, wire, unread, taken>> /\ file' = fl
      /\ ~writing /\ (gone \/ shut)
  BY DEF SendFails, Direct
<1>2. wire = taken /\ buffer = <<>>
  BY <1>1 DEF OutputInv, Idle
<1>3. fl \in FileState /\ Whole(fl)
  BY DEF Sendable
<1> QED
  BY <1>1, <1>2, <1>3 DEF SendPost, OutputInv, Types, TypeOK

\* The file's part of what is accepted.
LEMMA AttachedFacts ==
  ASSUME OutputInv, NEW units, NEW fl, Sendable(units, fl)
  PROVE  /\ Attached(fl) \in Seq(Unit)
         /\ fl.left = 0 => Attached(fl) = <<>>
         /\ file.left = 0 => Attached(fl) = FilePart(fl, fl.left)
<1>1. fl \in FileState /\ FilePart(fl, fl.left) \in Seq(Unit) /\ FilePart(fl, 0) = <<>>
  BY FilePartFacts DEF Sendable
<1>2. <<>> \in Seq(Unit)
  BY EmptySeq
<1> QED
  BY <1>1, <1>2 DEF Attached

LEMMA SendRestFacts ==
  ASSUME OutputInv, Alive, NEW units, NEW fl, Sendable(units, fl), SendRest(units, fl)
  PROVE  SendPost
<1> DEFINE n == IF Direct THEN Least(Len(units), free) ELSE 0
<1>1. /\ wire' = wire \o SubSeq(units, 1, n) /\ unread' = unread + Len(SubSeq(units, 1, n))
      /\ buffer' = buffer \o SubSeq(units, n + 1, Len(units))
      /\ taken' = taken \o units \o Attached(fl) /\ writing' = TRUE
      /\ file' = fl /\ state' = state
      /\ ~(Direct /\ (gone \/ shut)) /\ ~(Direct /\ Complete(units))
  BY DEF SendRest, Write, Wait
<1>2. /\ Len(units) \in Nat \ {0} /\ free \in Nat /\ unread + free = Room /\ unread \in Nat
      /\ units \in Seq(Unit) /\ fl \in FileState /\ Whole(fl)
  BY FreeFacts, EmptySeq DEF Sendable
<1>3. n \in 0..Len(units) /\ n # Len(units) /\ n <= free
  BY <1>1, <1>2 DEF Least, Complete
<1> HIDE DEF n
<1> DEFINE p == SubSeq(units, 1, n)
           q == SubSeq(units, n + 1, Len(units))
<1>4. /\ p \in Seq(Unit) /\ q \in Seq(Unit) /\ Len(p) = n /\ q # <<>> /\ p \o q = units
  BY <1>2, <1>3, SplitFacts
<1> HIDE DEF p, q
<1>5. buffer \in Seq(Unit) /\ wire \in Seq(Unit) /\ taken \in Seq(Unit)
  BY DEF OutputInv, Types
<1>6. /\ Direct => ~gone /\ ~shut /\ wire = taken /\ buffer = <<>>
      /\ ~Direct => writing /\ ~shut
  BY <1>1 DEF Direct, OutputInv, Idle, NothingAfterShut
<1>7. ~shut
  BY <1>6
<1>8. ~gone => fl.left = 0 /\ Attached(fl) = <<>> /\ FilePart(fl, 0) = <<>>
  <2>1. ~gone => fl.left = 0
    BY <1>1, <1>6 DEF Sendable
  <2> QED
    BY <1>2, <2>1, AttachedFacts, FilePartFacts
<1>9. buffer' # <<>>
  BY <1>1, <1>4, <1>5, ConcatEqualIffEmpty DEF q
<1>10. unread' \in 0..Room
  BY <1>1, <1>2, <1>3, <1>4 DEF p
<1>11. buffer' \in Seq(Unit) /\ wire' \in Seq(Unit) /\ taken' \in Seq(Unit)
  <2>1. Attached(fl) \in Seq(Unit) /\ taken \o units \in Seq(Unit)
    BY <1>2, <1>5, AttachedFacts, ConcatFacts
  <2>2. (taken \o units) \o Attached(fl) \in Seq(Unit)
    BY <2>1, ConcatProperties
  <2> QED
    BY <1>1, <1>4, <1>5, <2>2, ConcatFacts DEF p, q
<1>12. ~gone => (wire' \o buffer') \o FilePart(file', file'.left) = taken'
  <2> SUFFICES ASSUME ~gone PROVE (wire' \o buffer') \o <<>> = taken'
    BY <1>1, <1>8
  <2>1. taken' = taken \o units /\ (wire' \o buffer') \o <<>> = wire' \o buffer'
    <3>1. taken \o units \in Seq(Unit) /\ (taken \o units) \o <<>> = taken \o units
      BY <1>2, <1>5, ConcatFacts
    <3>2. wire' \o buffer' \in Seq(Unit)
      BY <1>11, ConcatProperties
    <3>3. (wire' \o buffer') \o <<>> = wire' \o buffer'
      BY <3>2, ConcatEmptySeq
    <3> QED
      BY <1>1, <1>8, <3>1, <3>3
  <2>2. CASE Direct
    <3>1. wire' = wire \o p /\ buffer' = <<>> \o q /\ wire = taken
      BY <1>1, <1>6, <2>2 DEF p, q
    <3>2. <<>> \o q = q
      BY <1>4, ConcatEmptySeq
    <3>3. wire \in Seq(Unit) /\ p \in Seq(Unit) /\ q \in Seq(Unit) /\ p \o q = units
      BY <1>4, <1>5
    <3>4. (wire \o p) \o q = wire \o (p \o q)
      BY <3>3, Associative, ZenonT(30)
    <3>5. wire' \o buffer' = (wire \o p) \o q /\ wire \o (p \o q) = taken \o units
      BY <3>1, <3>2, <3>3, ZenonT(30)
    <3> QED
      BY <2>1, <3>4, <3>5, ZenonT(30)
  <2>3. CASE ~Direct
    <3>1. n = 0 /\ p = <<>>
      BY <1>4, <2>3, EmptySeq DEF n
    <3>2. units = q
      BY <1>4, <3>1, ConcatEmptySeq
    <3>3. wire' = wire /\ buffer' = buffer \o units
      BY <1>1, <1>5, <3>1, <3>2, ConcatEmptySeq DEF p, q
    <3>4. file.left = 0 /\ FilePart(file, 0) = <<>>
      BY <1>8, FileIsTyped, FilePartFacts DEF Sendable
    <3>5. (wire \o buffer) \o <<>> = taken
      BY <1>6, <2>3, <3>4 DEF OutputInv, Busy
    <3>6. wire \o buffer \in Seq(Unit) /\ (wire \o buffer) \o <<>> = wire \o buffer
      <4>1. wire \o buffer \in Seq(Unit)
        BY <1>5, ConcatProperties
      <4> QED
        BY <4>1, ConcatEmptySeq
    <3>7. (wire \o buffer) \o units = wire \o (buffer \o units)
      BY <1>2, <1>5, Associative, SMTT(30)
    <3> QED
      BY <2>1, <3>3, <3>5, <3>6, <3>7
  <2> QED
    BY <2>2, <2>3
<1> QED
  BY <1>1, <1>2, <1>7, <1>8, <1>9, <1>10, <1>11, <1>12 DEF SendPost

LEMMA SendAllFacts ==
  ASSUME OutputInv, Alive, NEW units, NEW fl, Sendable(units, fl), SendAll(units, fl),
         usage.files => ~usage.reports
  PROVE  SendPost
<1> DEFINE k == FileTaken(fl, free - Len(units))
           part == FilePart(fl, k)
<1>1. units \in Seq(Unit) /\ fl \in FileState /\ Whole(fl)
      /\ wire \in Seq(Unit) /\ taken \in Seq(Unit)
  BY DEF Sendable, OutputInv, Types
<1>2. /\ ~writing /\ buffer = <<>> /\ ~gone /\ ~shut /\ UNCHANGED buffer
      /\ Len(units) <= free
      /\ wire' = wire \o (units \o part) /\ unread' = unread + Len(units \o part)
      /\ writing' = (fl.left - k > 0)
      /\ IF fl # NoFile /\ fl.left - k = 0 /\ usage.reports
         THEN file' = NoFile /\ state' = "crashed"
         ELSE file' = Advance(fl, k) /\ UNCHANGED state
      /\ taken' = taken \o units \o Attached(fl)
  BY DEF SendAll, Direct, Complete, Write, WaitForFile
<1>3. wire = taken /\ file.left = 0
  BY <1>2 DEF OutputInv, Idle
<1>4. free \in Nat /\ unread + free = Room /\ unread \in Nat /\ Len(units) \in Nat
      /\ free - Len(units) \in Nat
  BY <1>1, <1>2, FreeFacts
<1>5. k \in Nat /\ k <= free - Len(units) /\ (k = 0 \/ k = fl.left)
      /\ (fl.left = 0 \/ fl.left = 1)
  BY <1>1, <1>4, FileTakenFacts
<1> HIDE DEF k
<1>6. file' = Advance(fl, k) /\ state' = state
  BY <1>1, <1>2 DEF Whole
<1>7. file' \in FileState /\ Whole(Advance(fl, k)) /\ file'.left = fl.left - k
      /\ (k = 0 => file' = fl)
  BY <1>1, <1>5, <1>6, AdvanceFacts
<1>8. part \in Seq(Unit) /\ Len(part) = k
  <2>1. Len(part) = k
    BY <1>5 DEF FilePart
  <2>2. CASE k = 0
    BY <1>1, <2>1, <2>2, FilePartFacts, EmptySeq
  <2>3. CASE k = fl.left
    BY <1>1, <2>1, <2>3, FilePartFacts
  <2> QED
    BY <1>5, <2>1, <2>2, <2>3
<1>9. Attached(fl) = FilePart(fl, fl.left) /\ Attached(fl) \in Seq(Unit)
      /\ FilePart(fl, 0) = <<>>
  BY <1>1, <1>3, AttachedFacts, FilePartFacts
<1> HIDE DEF part
<1>10. /\ units \o part \in Seq(Unit) /\ Len(units \o part) = Len(units) + k
       /\ wire' = (wire \o units) \o part /\ wire' \in Seq(Unit)
  <2>1. units \o part \in Seq(Unit) /\ Len(units \o part) = Len(units) + k
    BY <1>1, <1>8, ConcatProperties
  <2>2. wire \o (units \o part) = (wire \o units) \o part
    <3>1. wire \in Seq(Unit) /\ units \in Seq(Unit) /\ part \in Seq(Unit)
      BY <1>1, <1>8
    <3> QED
      BY <3>1, Associative, ZenonT(30)
  <2> QED
    BY <1>1, <1>2, <2>1, <2>2, ConcatProperties
<1>11. unread' \in 0..Room
  BY <1>2, <1>4, <1>5, <1>10
<1>12. taken' = (wire \o units) \o FilePart(fl, fl.left) /\ taken' \in Seq(Unit)
       /\ wire \o units \in Seq(Unit)
  <2>1. wire \o units \in Seq(Unit)
    BY <1>1, ConcatProperties
  <2>2. taken' = (wire \o units) \o Attached(fl)
    BY <1>2, <1>3
  <2> QED
    BY <1>9, <2>1, <2>2, ConcatProperties
<1>13. CASE k = fl.left
  <2>1. writing' = FALSE /\ file'.left = 0
    <3>1. fl.left - k = 0 /\ (0 > 0) = FALSE
      BY <1>5, <1>13
    <3> QED
      BY <1>2, <1>7, <3>1
  <2>2. wire' = taken'
    BY <1>10, <1>12, <1>13 DEF part
  <2>3. buffer' \in Seq(Unit)
    BY <1>2, EmptySeq
  <2> QED
    BY <1>2, <1>6, <1>7, <1>10, <1>11, <1>12, <2>1, <2>2, <2>3 DEF SendPost
<1>14. CASE k # fl.left
  <2>1. k = 0 /\ fl.left = 1 /\ file' = fl
    BY <1>5, <1>7, <1>14
  <2>2. writing' = TRUE /\ file'.left # 0
    <3>1. fl.left - k = 1 /\ (1 > 0) = TRUE
      BY <2>1
    <3>2. writing' = (fl.left - k > 0)
      BY <1>2
    <3>3. writing' = TRUE
      BY <3>1, <3>2
    <3>4. file'.left = 1
      BY <2>1
    <3> QED
      BY <3>3, <3>4
  <2>3. wire' = wire \o units
    BY <1>9, <1>10, <1>12, <2>1, ConcatEmptySeq DEF part
  <2>4. (wire' \o buffer') \o FilePart(file', file'.left) = taken' /\ buffer' \in Seq(Unit)
    BY <1>2, <1>10, <1>12, <2>1, <2>3, ConcatEmptySeq, EmptySeq
  <2> QED
    BY <1>2, <1>6, <1>7, <1>10, <1>11, <1>12, <2>1, <2>2, <2>4 DEF SendPost
<1> QED
  BY <1>13, <1>14

LEMMA SendInLoopFacts ==
  ASSUME OutputInv, Alive, NEW units, NEW fl, Sendable(units, fl), NEW q \in Seq(Job),
         SendInLoop(units, fl, q), usage.files => ~usage.reports
  PROVE  /\ SendPost /\ functors' \in Seq(Job) /\ UNCHANGED <<shut, gone>>
         /\ usage.files => functors' = q
<1>1. SendPost
  BY SendFailsFacts, SendRestFacts, SendAllFacts DEF SendInLoop
<1>2. Report(q) \in Seq(Job) /\ (usage.files => Report(q) = q)
  BY DEF Report, Job
<1> QED
  BY <1>1, <1>2 DEF SendInLoop

(***************************************************************************)
(* All steps.                                                              *)
(***************************************************************************)
LEMMA OutputInit == Init => OutputInv
<1> SUFFICES ASSUME Init PROVE OutputInv
  OBVIOUS
<1>1. <<>> \in Seq(Unit) /\ <<>> \in Seq(Job)
  OBVIOUS
<1>2. NoFile \in [of : 0..MaxSends, off : Nat, left : 0..FileLen]
      /\ 0 \in 0..Room /\ 0 \in 0..MaxSends
  BY NoFileFacts, LengthAssumption DEF FileState
<1>3. TypeOK
  BY <1>2 DEF Init, TypeOK
<1>4. Types
  BY <1>1, <1>3 DEF Init, Types
<1>5. FilesAreWhole
  BY NoFileFacts DEF Init, FilesAreWhole, Whole
<1>6. Idle /\ Busy /\ NothingAfterShut /\ Ended
  BY NoFileFacts DEF Init, Idle, Busy, NothingAfterShut, Ended
<1> QED
  BY <1>4, <1>5, <1>6 DEF OutputInv

\* The parts of TypeOK that no send touches come back as hypotheses.
LEMMA SentStep ==
  ASSUME OutputInv, Alive, SendPost, functors' \in Seq(Job),
         UNCHANGED <<shut, gone, usage>>, usage.files => functors' = <<>>,
         sends' \in 0..MaxSends, handed' \subseteq 1..sends', told' \subseteq 1..sends'
  PROVE  OutputInv'
<1>1. Types'
  <2>1. TypeOK'
    BY DEF OutputInv, Types, TypeOK, SendPost, FileState
  <2> QED
    BY <2>1 DEF OutputInv, Types, SendPost
<1>2. FilesAreWhole'
  BY DEF FilesAreWhole, SendPost, Whole
<1>3. Idle' /\ Busy' /\ NothingAfterShut'
  BY DEF SendPost, Idle, Busy, NothingAfterShut
<1>4. Ended'
  BY DEF SendPost, Ended, Alive
<1> QED
  BY <1>1, <1>2, <1>3, <1>4 DEF OutputInv

LEMMA SizesArePositive ==
  ASSUME OutputInv, NEW size \in usage.sizes PROVE size \in Nat \ {0}
BY UsageAssumption DEF OutputInv, Types, Usage

LEMMA FilesUsage ==
  ASSUME WholeFiles, OutputInv, usage.files
  PROVE  /\ FileLen = 1 /\ usage.sizes \subseteq 1..Room
         /\ ~usage.pipelined /\ ~usage.foreign /\ ~usage.reports
         /\ functors = <<>>
BY DEF WholeFiles, OutputInv, Types, FilesAreWhole

\* The first part of Sendable for a file or a new one.
LEMMA OldFile ==
  ASSUME WholeFiles, OutputInv, NEW units \in Seq(Unit), units # <<>>,
         usage.files => file.left = 0
  PROVE  Sendable(units, file)
<1>1. file.left = 0
  BY NoFileFacts DEF OutputInv, FilesAreWhole, Whole
<1> QED
  BY <1>1, FileIsTyped DEF Sendable

LEMMA SendStep ==
  ASSUME WholeFiles, OutputInv, UNCHANGED usage, NEW size \in usage.sizes, NEW fl,
         fl = file \/ (usage.files /\ fl = NewFile), Send(size, fl)
  PROVE  OutputInv'
<1> DEFINE units == Message(sends', size)
<1>1. sends' = sends + 1 /\ sends < MaxSends /\ sends \in 0..MaxSends /\ MaxSends \in Nat
      /\ sends' \in 0..MaxSends /\ sends' \in Nat
  BY LengthAssumption DEF Send, OutputInv, Types, TypeOK
<1>2. units \in Seq(Unit) /\ units # <<>> /\ Len(units) = size
  BY <1>1, SizesArePositive, MessageFacts, EmptySeq
<1> HIDE DEF units
<1>3. Alive /\ SendInLoop(units, fl, functors) /\ UNCHANGED told
  BY DEF Send, Alive, units
<1>4. usage.files => unread = 0 /\ buffer = <<>> /\ file.left = 0 /\ functors = <<>>
  BY FilesUsage DEF Send, AllRead
<1>5. Sendable(units, fl)
  <2>1. CASE fl = file
    BY <1>2, <1>4, <2>1, OldFile
  <2>2. CASE usage.files /\ fl = NewFile
    <3>1. fl \in FileState /\ fl.left = 1 /\ fl.off = 0
      BY <1>1, <2>2, FilesUsage DEF NewFile, FileState
    <3>2. Whole(fl)
      BY <2>2, <3>1 DEF Whole
    <3>3. ~gone => ~writing
      BY <1>4, <2>2 DEF OutputInv, Busy
    <3>4. Complete(units)
      <4>1. size \in 1..Room /\ unread = 0
        BY <1>4, <2>2, FilesUsage
      <4> QED
        BY <1>2, <4>1, LengthAssumption DEF Complete, free
    <3> QED
      BY <1>2, <1>4, <2>2, <3>1, <3>2, <3>3, <3>4 DEF Sendable
  <2> QED
    BY <2>1, <2>2
<1>6. functors \in Seq(Job) /\ (usage.files => ~usage.reports)
  BY FilesUsage DEF OutputInv, Types
<1>7. SendPost /\ functors' \in Seq(Job) /\ UNCHANGED <<shut, gone>>
      /\ (usage.files => functors' = functors)
  BY <1>3, <1>5, <1>6, SendInLoopFacts
<1>8. handed' \subseteq 1..sends' /\ told' \subseteq 1..sends'
  BY <1>1 DEF Send, OutputInv, Types, TypeOK
<1>9. usage.files => functors' = <<>>
  BY <1>4, <1>7
<1> QED
  BY <1>1, <1>3, <1>7, <1>8, <1>9, SentStep

LEMMA RunSendStep ==
  ASSUME WholeFiles, OutputInv, UNCHANGED usage, RunSend
  PROVE  OutputInv'
<1>1. functors # <<>> /\ Head(functors) \in Job /\ Tail(functors) \in Seq(Job)
      /\ Head(functors).op = "send" /\ ~usage.files
  BY FilesUsage DEF RunSend, Run, OutputInv, Types
<1>2. CASE state = "disconnected"
  <2>1. UNCHANGED <<state, buffer, file, writing, kernel, taken, sends, handed, told>>
        /\ functors' = Tail(functors)
    BY <1>2 DEF RunSend
  <2>2. Types'
    BY <1>1, <2>1 DEF OutputInv, Types, TypeOK, kernel
  <2>3. FilesAreWhole'
    BY <1>1, <2>1 DEF OutputInv, FilesAreWhole, Whole
  <2>4. Idle' /\ Busy' /\ NothingAfterShut' /\ Ended'
    BY <2>1 DEF OutputInv, Idle, Busy, NothingAfterShut, Ended, kernel, Alive
  <2> QED
    BY <2>2, <2>3, <2>4 DEF OutputInv
<1>3. CASE state # "disconnected"
  <2> DEFINE send == Head(functors)
             units == Message(send.m, send.size)
  <2>1. /\ SendInLoop(units, file, Tail(functors))
        /\ UNCHANGED <<sends, handed, told>>
    BY <1>3 DEF RunSend
  <2>2. Alive
    BY <1>3 DEF OutputInv, Types, TypeOK, Alive
  <2>3. send.m \in Nat /\ send.size \in Nat \ {0}
    BY <1>1 DEF Job
  <2> HIDE DEF send
  <2>4. units \in Seq(Unit) /\ units # <<>>
    BY <2>3, MessageFacts, EmptySeq
  <2> HIDE DEF units
  <2>5. Sendable(units, file)
    BY <1>1, <2>4, OldFile
  <2>6. SendPost /\ functors' \in Seq(Job) /\ UNCHANGED <<shut, gone>>
    BY <1>1, <2>1, <2>2, <2>5, SendInLoopFacts
  <2>7. sends' \in 0..MaxSends /\ handed' \subseteq 1..sends' /\ told' \subseteq 1..sends'
    BY <2>1 DEF OutputInv, Types, TypeOK
  <2> QED
    BY <1>1, <2>2, <2>6, <2>7, SentStep
<1> QED
  BY <1>2, <1>3

\* What remains to be seen when handleWrite has emptied the output.
LEMMA DrainedStep ==
  ASSUME WholeFiles, OutputInv, UNCHANGED <<usage, state, gone, sends, ghosts>>,
         Alive, Drained, buffer' = <<>>, file' \in FileState, Whole(file'), file'.left = 0,
         wire' \in Seq(Unit), wire' = taken, unread' \in 0..Room
  PROVE  OutputInv'
<1>1. functors' = Report(functors) /\ Report(functors) \in Seq(Job)
      /\ (usage.files => Report(functors) = <<>>)
  BY FilesUsage DEF Drained, Report, Job, OutputInv, Types
<1>2. writing' = FALSE /\ shut' \in BOOLEAN
  BY DEF Drained, ShutdownInLoop, OutputInv, Types, TypeOK
<1>3. Types'
  <2>1. <<>> \in Seq(Unit)
    OBVIOUS
  <2>2. TypeOK'
    BY <1>1, <1>2 DEF OutputInv, Types, TypeOK, ghosts, FileState
  <2> QED
    BY <1>1, <2>1, <2>2 DEF OutputInv, Types, ghosts
<1>4. FilesAreWhole'
  BY <1>1 DEF FilesAreWhole, Whole
<1>5. Idle' /\ Busy' /\ NothingAfterShut'
  BY <1>2 DEF Idle, Busy, NothingAfterShut, ghosts
<1>6. Ended'
  BY DEF Ended, Alive
<1> QED
  BY <1>3, <1>4, <1>5, <1>6 DEF OutputInv

\* handleWrite runs on a live connection: the others have disabled the event.
LEMMA WritingIsAlive ==
  ASSUME OutputInv, writing PROVE Alive /\ ~shut
BY DEF OutputInv, Types, TypeOK, Ended, Alive, NothingAfterShut

LEMMA WriteBufferStep ==
  ASSUME WholeFiles, OutputInv, UNCHANGED usage, WriteBuffer
  PROVE  OutputInv'
<1> DEFINE n == Least(Len(buffer), free)
           p == SubSeq(buffer, 1, n)
           rest == SubSeq(buffer, n + 1, Len(buffer))
<1>1. /\ writing /\ buffer # <<>> /\ ~gone
      /\ wire' = wire \o p /\ unread' = unread + Len(p) /\ buffer' = rest
      /\ IF rest = <<>> THEN Drained ELSE NotDrained
      /\ UNCHANGED <<state, file, gone, sends, ghosts>>
  BY DEF WriteBuffer, Write, IsDrained
<1>2. n \in 0..Len(buffer) /\ n <= free
  BY FreeFacts DEF Least, OutputInv, Types
<1> HIDE DEF n
<1>3. p \in Seq(Unit) /\ rest \in Seq(Unit) /\ Len(p) = n /\ p \o rest = buffer
  BY <1>2, SplitFacts DEF OutputInv, Types
<1> HIDE DEF p, rest
<1>4. unread' \in 0..Room
  <2>1. unread' = unread + n /\ n \in Nat
    BY <1>1, <1>2, <1>3
  <2> QED
    BY <1>2, <2>1, FreeFacts
<1>5. wire \in Seq(Unit) /\ buffer \in Seq(Unit) /\ wire' \in Seq(Unit)
  BY <1>1, <1>3, ConcatProperties DEF OutputInv, Types
<1>6. file.left = 0 /\ FilePart(file, 0) = <<>> /\ file \in FileState /\ Whole(file)
  BY <1>1, FileIsTyped, FilePartFacts DEF OutputInv, Busy
<1>7. wire' \o rest = taken
  <2>1. (wire \o buffer) \o <<>> = taken
    BY <1>1, <1>6 DEF OutputInv, Busy
  <2>2. wire \o buffer \in Seq(Unit)
    BY <1>5, ConcatProperties
  <2>3. wire \in Seq(Unit) /\ p \in Seq(Unit) /\ rest \in Seq(Unit)
    BY <1>3, <1>5
  <2>4. (wire \o p) \o rest = wire \o (p \o rest)
    BY <2>3, Associative, ZenonT(30)
  <2>5. wire \o buffer = taken
    BY <2>1, <2>2, ConcatEmptySeq, ZenonT(30)
  <2>6. wire' \o rest = (wire \o p) \o rest /\ p \o rest = buffer
    BY <1>1, <1>3, ZenonT(30)
  <2> QED
    BY <2>4, <2>5, <2>6, ZenonT(30)
<1>8. Alive /\ ~shut
  BY <1>1, WritingIsAlive
<1>9. CASE rest = <<>>
  <2>1. wire' = taken
    BY <1>5, <1>7, <1>9, ConcatEmptySeq
  <2>2. UNCHANGED <<usage, state, gone, sends, ghosts>> /\ Drained /\ buffer' = <<>>
        /\ file' = file
    BY <1>1, <1>9
  <2> QED
    BY <1>4, <1>5, <1>6, <1>8, <2>1, <2>2, DrainedStep
<1>10. CASE rest # <<>>
  <2>1. UNCHANGED <<usage, state, file, gone, sends, ghosts, writing, functors, shut>>
    BY <1>1, <1>10 DEF NotDrained
  <2>2. Types'
    BY <1>1, <1>3, <1>4, <1>5, <2>1 DEF OutputInv, Types, TypeOK, ghosts
  <2>3. FilesAreWhole' /\ Ended'
    BY <2>1 DEF OutputInv, FilesAreWhole, Whole, Ended
  <2>4. Busy'
    <3>1. FilePart(file', file'.left) = <<>> /\ file'.left = 0
      BY <1>6, <2>1
    <3>2. (wire' \o rest) \o <<>> = taken
      <4>1. wire' \o rest \in Seq(Unit)
        BY <1>3, <1>5, ConcatProperties
      <4> QED
        BY <1>7, <4>1, ConcatEmptySeq
    <3> QED
      BY <1>1, <1>10, <2>1, <3>1, <3>2 DEF Busy, ghosts
  <2>5. Idle' /\ NothingAfterShut'
    BY <1>1, <1>8, <2>1 DEF Idle, NothingAfterShut
  <2> QED
    BY <2>2, <2>3, <2>4, <2>5 DEF OutputInv
<1> QED
  BY <1>9, <1>10

LEMMA WriteFileStep ==
  ASSUME WholeFiles, OutputInv, UNCHANGED usage, WriteFile
  PROVE  OutputInv'
<1> DEFINE k == FileTaken(file, free)
<1>1. /\ writing /\ buffer = <<>> /\ ~gone /\ k > 0
      /\ wire' = wire \o FilePart(file, k) /\ unread' = unread + Len(FilePart(file, k))
      /\ IF file.left = k THEN file' = NoFile /\ Drained
         ELSE file' = Advance(file, k) /\ NotDrained
      /\ UNCHANGED <<state, buffer, gone, sends, ghosts>>
  BY DEF WriteFile, Write
<1>2. k \in Nat /\ k <= free /\ (k = 0 \/ k = file.left)
  BY FreeFacts, FileIsTyped, FileTakenFacts
<1>3. k = file.left
  BY <1>1, <1>2
<1> HIDE DEF k
<1>4. FilePart(file, k) \in Seq(Unit) /\ Len(FilePart(file, k)) = k
  <2>1. Len(FilePart(file, k)) = k
    BY <1>2 DEF FilePart
  <2> QED
    BY <1>3, <2>1, FileIsTyped, FilePartFacts
<1>5. wire \in Seq(Unit) /\ wire' \in Seq(Unit)
  BY <1>1, <1>4, ConcatProperties DEF OutputInv, Types
<1>6. wire' = taken
  <2>1. (wire \o <<>>) \o FilePart(file, k) = taken
    BY <1>1, <1>3 DEF OutputInv, Busy
  <2> QED
    BY <1>1, <1>5, <2>1, ConcatEmptySeq
<1>7. unread' \in 0..Room
  BY <1>1, <1>2, <1>4, FreeFacts
<1> QED
  BY <1>1, <1>3, <1>5, <1>6, <1>7, NoFileFacts, WritingIsAlive, DrainedStep DEF Whole

LEMMA ForeignSendStep ==
  ASSUME WholeFiles, OutputInv, UNCHANGED usage, NEW size \in usage.sizes, ForeignSend(size)
  PROVE  OutputInv'
<1>1. size \in Nat \ {0} /\ ~usage.files
  BY SizesArePositive, FilesUsage DEF ForeignSend
<1>2. sends' \in 1..MaxSends /\ sends' = sends + 1 /\ sends \in Nat
  BY LengthAssumption DEF ForeignSend, OutputInv, Types, TypeOK
<1>3. functors' \in Seq(Job)
  BY <1>1, <1>2 DEF ForeignSend, OutputInv, Types, Job
<1>4. Types'
  BY <1>2, <1>3 DEF ForeignSend, OutputInv, Types, TypeOK, kernel
<1>5. FilesAreWhole'
  BY <1>1 DEF ForeignSend, OutputInv, FilesAreWhole, Whole
<1>6. Idle' /\ Busy' /\ NothingAfterShut' /\ Ended'
  BY DEF ForeignSend, OutputInv, Idle, Busy, NothingAfterShut, Ended, Alive, kernel
<1> QED
  BY <1>4, <1>5, <1>6 DEF OutputInv

LEMMA ShutdownStep ==
  ASSUME OutputInv, UNCHANGED usage, Shutdown
  PROVE  OutputInv'
<1>1. /\ UNCHANGED <<buffer, file, writing, functors, wire, unread, gone, sends, ghosts>>
      /\ state = "connected" /\ state' = "disconnecting" /\ shut' = (shut \/ ~writing)
  BY DEF Shutdown, ShutdownInLoop
<1>2. Types'
  BY <1>1 DEF OutputInv, Types, TypeOK, ghosts
<1>3. FilesAreWhole' /\ Busy' /\ Ended'
  BY <1>1 DEF OutputInv, FilesAreWhole, Whole, Busy, Ended, ghosts
<1>4. Idle' /\ NothingAfterShut'
  BY <1>1 DEF OutputInv, Idle, NothingAfterShut, Alive, ghosts, Types, TypeOK
<1> QED
  BY <1>2, <1>3, <1>4 DEF OutputInv

LEMMA OutputStep ==
  ASSUME WholeFiles, OutputInv, [Next]_vars PROVE OutputInv'
<1>1. ASSUME UserStep PROVE OutputInv'
  <2>1. UNCHANGED usage
    BY <1>1 DEF UserStep
  <2>2. ASSUME NEW size \in usage.sizes,
               Send(size, file) \/ (usage.files /\ Send(size, NewFile))
        PROVE  OutputInv'
    BY <2>1, <2>2, SendStep
  <2> QED
    BY <1>1, <2>1, <2>2, ForeignSendStep, ShutdownStep DEF UserStep
<1>2. ASSUME LoopStep PROVE OutputInv'
  <2>1. UNCHANGED usage
    BY <1>2 DEF LoopStep
  <2>2. CASE RunComplete
    <3>1. functors' \in Seq(Job) /\ functors # <<>>
          /\ UNCHANGED <<state, buffer, file, writing, kernel, sends, taken, handed>>
      BY <2>2 DEF RunComplete, Run, OutputInv, Types
    <3>2. told' \subseteq 1..sends
      BY <2>2 DEF RunComplete, OutputInv, Types, TypeOK
    <3>3. Types'
      BY <2>1, <3>1, <3>2 DEF OutputInv, Types, TypeOK, kernel
    <3>4. FilesAreWhole' /\ Idle' /\ Busy' /\ NothingAfterShut' /\ Ended'
      BY <2>1, <3>1 DEF OutputInv, FilesAreWhole, Whole, Idle, Busy, NothingAfterShut, Ended,
                        Alive, kernel
    <3> QED
      BY <3>3, <3>4 DEF OutputInv
  <2>3. CASE Close
    <3>1. UNCHANGED <<buffer, file, functors, kernel, sends, ghosts>>
          /\ gone /\ state' = "disconnected" /\ writing' = FALSE
      BY <2>3 DEF Close
    <3>2. Types'
      BY <2>1, <3>1 DEF OutputInv, Types, TypeOK, kernel, ghosts
    <3>3. FilesAreWhole' /\ Idle' /\ Busy' /\ NothingAfterShut' /\ Ended'
      BY <2>1, <3>1 DEF OutputInv, FilesAreWhole, Whole, Idle, Busy, NothingAfterShut, Ended,
                        Alive, kernel, ghosts
    <3> QED
      BY <3>2, <3>3 DEF OutputInv
  <2> QED
    BY <1>2, <2>1, <2>2, <2>3, WriteBufferStep, WriteFileStep, RunSendStep
    DEF LoopStep, HandleWrite
<1>3. CASE PeerReadsOn \/ (PeerResets /\ UNCHANGED usage) \/ UNCHANGED vars
  <2>1. /\ UNCHANGED <<usage, state, buffer, file, writing, functors, wire, shut, sends, ghosts>>
        /\ unread' \in 0..Room /\ gone' \in BOOLEAN /\ (gone => gone')
    <3>1. unread \in 0..Room /\ gone \in BOOLEAN
      BY DEF OutputInv, Types, TypeOK
    <3>2. CASE PeerReadsOn
      BY <3>1, <3>2, LengthAssumption DEF PeerReadsOn, PeerReads
    <3>3. CASE PeerResets /\ UNCHANGED usage
      BY <3>1, <3>3 DEF PeerResets
    <3>4. CASE UNCHANGED vars
      BY <3>1, <3>4 DEF vars, kernel
    <3> QED
      BY <1>3, <3>2, <3>3, <3>4
  <2>2. Types'
    BY <2>1 DEF OutputInv, Types, TypeOK, ghosts
  <2>3. FilesAreWhole' /\ Idle' /\ Busy' /\ NothingAfterShut' /\ Ended'
    BY <2>1 DEF OutputInv, FilesAreWhole, Whole, Idle, Busy, NothingAfterShut, Ended, Alive, ghosts
  <2> QED
    BY <2>2, <2>3 DEF OutputInv
<1> QED
  BY <1>1, <1>2, <1>3 DEF Next

LEMMA OutputInvariant == ASSUME WholeFiles PROVE Spec => []OutputInv
<1>1. WholeFiles
  OBVIOUS
<1>2. OutputInv /\ [Next]_vars => OutputInv'
  BY <1>1, OutputStep
<1> QED
  BY <1>2, OutputInit, PTL DEF Spec, SafeSpec

\* What the kernel took, what outputBuffer_ holds and what is left of the file is
\* what sendInLoop accepted, in order: no partial write loses its rest and no
\* direct write overtakes it, whatever the sizes of messages and of the kernel's
\* buffer.
THEOREM MessagesAreConserved == ASSUME WholeFiles PROVE Spec => []Conserved
<1>1. OutputInv => Conserved
  <2> SUFFICES ASSUME OutputInv, ~gone, ~shut
               PROVE  (wire \o buffer) \o FilePart(file, file.left) = taken
    BY DEF Conserved, OutputInv, Types
  <2>1. CASE writing
    BY <2>1 DEF OutputInv, Busy
  <2>2. CASE ~writing
    <3>1. Alive
      BY DEF OutputInv, Ended, Types, TypeOK, Alive
    <3>2. wire = taken /\ buffer = <<>> /\ file.left = 0 /\ FilePart(file, 0) = <<>>
      BY <2>2, <3>1, FileIsTyped, FilePartFacts DEF OutputInv, Idle
    <3>3. (wire \o <<>>) \o <<>> = wire
      BY ConcatEmptySeq DEF OutputInv, Types
    <3> QED
      BY <3>2, <3>3
  <2> QED
    BY <2>1, <2>2 DEF OutputInv, Types, TypeOK
<1> QED
  BY <1>1, OutputInvariant, PTL

\* The write event is enabled exactly while outputBuffer_ or a file waits, so that
\* handleWrite comes back for the rest, and send() waits behind it.
THEOREM PendingIsWatched == ASSUME WholeFiles PROVE Spec => []WatchedWhilePending
<1>1. OutputInv => WatchedWhilePending
  <2> SUFFICES ASSUME OutputInv, Alive, ~gone, ~shut
               PROVE  writing <=> buffer # <<>> \/ file.left > 0
    BY DEF WatchedWhilePending, Alive
  <2>1. file.left \in Nat
    BY FileIsTyped, LengthAssumption DEF FileState
  <2>2. file.left > 0 <=> file.left # 0
    BY <2>1
  <2> QED
    BY <2>2 DEF OutputInv, Idle, Busy
<1> QED
  BY <1>1, OutputInvariant, PTL

(***************************************************************************)
(* Completions.                                                            *)
(***************************************************************************)

\* Another functor in the queue, or one less, is no new completion.
LEMMA AnotherFunctor ==
  ASSUME NEW q \in Seq(Job), NEW job \in Job, job.op # "complete"
  PROVE  Completions(Append(q, job)) = Completions(q)
<1>1. /\ DOMAIN q = 1..Len(q) /\ DOMAIN Append(q, job) = 1..Len(q) + 1 /\ Len(q) \in Nat
      /\ \A i \in 1..Len(q) : Append(q, job)[i] = q[i]
      /\ Append(q, job)[Len(q) + 1] = job
  OBVIOUS
<1>2. {i \in DOMAIN Append(q, job) : Append(q, job)[i].op = "complete"}
        = {i \in DOMAIN q : q[i].op = "complete"}
  BY <1>1
<1> QED
  BY <1>2 DEF Completions

LEMMA OneFunctorLess ==
  ASSUME NEW q \in Seq(Job), q # <<>>
  PROVE  Completions(Tail(q)) \in Nat /\ Completions(Tail(q)) <= Completions(q)
         /\ Completions(q) \in Nat
<1> DEFINE S == {i \in DOMAIN Tail(q) : Tail(q)[i].op = "complete"}
           T == {i \in DOMAIN q : q[i].op = "complete"}
           later == [i \in S |-> i + 1]
<1>1. /\ Len(q) \in Nat \ {0} /\ DOMAIN q = 1..Len(q) /\ DOMAIN Tail(q) = 1..Len(q) - 1
      /\ \A i \in 1..Len(q) - 1 : Tail(q)[i] = q[i + 1]
  BY EmptySeq, HeadTailProperties
<1>2. S \subseteq 1..Len(q) - 1 /\ \A i \in S : i + 1 \in T
  BY <1>1
<1>3. IsFiniteSet(T) /\ IsFiniteSet(S)
  <2>1. IsFiniteSet(1..Len(q)) /\ T \subseteq 1..Len(q) /\ S \subseteq 1..Len(q)
    BY <1>1, <1>2, FS_Interval, SMTT(30)
  <2> QED
    BY <2>1, FS_Subset
<1> HIDE DEF S, T
<1>4. later \in Injection(S, T)
  BY <1>2 DEF Injection, IsInjective
<1>5. Cardinality(S) <= Cardinality(T) /\ Cardinality(S) \in Nat /\ Cardinality(T) \in Nat
  BY <1>3, <1>4, FS_Injection, FS_CardinalityType
<1> QED
  BY <1>5 DEF Completions, S, T

LEMMA CountOfCompletions ==
  ASSUME NEW q \in Seq(Job) PROVE Completions(q) \in Nat
<1> DEFINE T == {i \in DOMAIN q : q[i].op = "complete"}
<1>1. IsFiniteSet(1..Len(q)) /\ T \subseteq 1..Len(q)
  BY FS_Interval
<1> HIDE DEF T
<1>2. Cardinality(T) \in Nat
  BY <1>1, FS_Subset, FS_CardinalityType
<1> QED
  BY <1>2 DEF Completions, T

\* sendInLoop queues a completion only with the write event disabled.
LEMMA SendCompletes ==
  ASSUME NEW units, NEW fl, NEW q, SendInLoop(units, fl, q)
  PROVE  functors' = q \/ (~writing' /\ (state' = state \/ state' = "crashed"))
<1>1. CASE SendFails(fl) /\ functors' = q
  BY <1>1
<1>2. CASE SendRest(units, fl) /\ functors' = q
  BY <1>2
<1>3. CASE SendAll(units, fl) /\ functors' = IF writing' THEN q ELSE Report(q)
  BY <1>3 DEF SendAll
<1> QED
  BY <1>1, <1>2, <1>3 DEF SendInLoop

\* Only the steps that leave a live connection without output queue one more.
LEMMA StepCompletes ==
  ASSUME WholeFiles, OutputInv, OutputInv', [Next]_vars, writing' \/ ~Alive'
  PROVE  ~(Completions(functors') > Completions(functors))
<1>1. /\ functors \in Seq(Job) /\ Completions(functors) \in Nat /\ sends \in 0..MaxSends
      /\ state' # "crashed"
  BY CountOfCompletions DEF OutputInv, Types, TypeOK
<1>2. functors' # functors
        => \/ \E job \in Job : job.op # "complete" /\ functors' = Append(functors, job)
           \/ functors # <<>> /\ functors' = Tail(functors)
  <2>1. CASE UserStep
    <3>1. ASSUME NEW size \in usage.sizes, NEW fl, Send(size, fl)
          PROVE  functors' = functors
      <4>1. Alive /\ SendInLoop(Message(sends', size), fl, functors)
        BY <3>1 DEF Send, Alive
      <4>2. functors' = functors \/ (~writing' /\ state' = state)
        BY <1>1, <4>1, SendCompletes
      <4> QED
        BY <4>1, <4>2 DEF Alive
    <3>2. ASSUME NEW size \in usage.sizes, ForeignSend(size)
          PROVE  \E job \in Job : job.op # "complete" /\ functors' = Append(functors, job)
      <4> DEFINE job == [op |-> "send", m |-> sends', size |-> size]
      <4>1. sends' \in 1..MaxSends /\ size \in Nat \ {0}
        BY <1>1, <3>2, SizesArePositive, LengthAssumption DEF ForeignSend
      <4>2. job \in Job /\ job.op # "complete"
        BY <4>1 DEF Job
      <4> QED
        BY <3>2, <4>2 DEF ForeignSend
    <3>3. Shutdown => functors' = functors
      BY DEF Shutdown
    <3> QED
      BY <2>1, <3>1, <3>2, <3>3 DEF UserStep
  <2>2. CASE LoopStep
    <3>1. Drained => ~writing'
      BY DEF Drained
    <3>2. WriteBuffer => functors' = functors
      <4> SUFFICES ASSUME WriteBuffer PROVE functors' = functors
        OBVIOUS
      <4>1. Alive /\ state' = state
        BY WritingIsAlive DEF WriteBuffer
      <4>2. Drained \/ NotDrained
        BY DEF WriteBuffer
      <4> QED
        BY <3>1, <4>1, <4>2 DEF NotDrained, Alive
    <3>3. WriteFile => functors' = functors
      <4> SUFFICES ASSUME WriteFile PROVE functors' = functors
        OBVIOUS
      <4>1. Alive /\ state' = state
        BY WritingIsAlive DEF WriteFile
      <4>2. Drained \/ NotDrained
        BY DEF WriteFile
      <4> QED
        BY <3>1, <4>1, <4>2 DEF NotDrained, Alive
    <3>4. RunSend => functors # <<>> /\ functors' = Tail(functors)
      <4> SUFFICES ASSUME RunSend PROVE functors # <<>> /\ functors' = Tail(functors)
        OBVIOUS
      <4>1. functors # <<>>
        BY DEF RunSend, Run
      <4>2. CASE state = "disconnected"
        BY <4>1, <4>2 DEF RunSend
      <4>3. CASE state # "disconnected"
        <5>1. Alive
          BY <4>3 DEF OutputInv, Types, TypeOK, Alive
        <5>2. functors' = Tail(functors) \/ (~writing' /\ state' = state)
          BY <1>1, <4>3, SendCompletes DEF RunSend
        <5> QED
          BY <4>1, <5>1, <5>2 DEF Alive
      <4> QED
        BY <4>2, <4>3
    <3>5. RunComplete => functors # <<>> /\ functors' = Tail(functors)
      BY DEF RunComplete, Run
    <3>6. Close => functors' = functors
      BY DEF Close
    <3> QED
      BY <2>2, <3>2, <3>3, <3>4, <3>5, <3>6 DEF LoopStep, HandleWrite
  <2>3. CASE PeerReadsOn \/ (PeerResets /\ UNCHANGED usage) \/ UNCHANGED vars
    BY <2>3 DEF PeerReadsOn, PeerReads, PeerResets, vars
  <2> QED
    BY <2>1, <2>2, <2>3 DEF Next
<1>3. CASE functors' = functors
  BY <1>1, <1>3
<1>4. ASSUME NEW job \in Job, job.op # "complete", functors' = Append(functors, job)
      PROVE  ~(Completions(functors') > Completions(functors))
  BY <1>1, <1>4, AnotherFunctor
<1>5. CASE functors # <<>> /\ functors' = Tail(functors)
  BY <1>1, <1>5, OneFunctorLess
<1> QED
  BY <1>2, <1>3, <1>4, <1>5

\* A completion is queued for the user, and the write side shut down, only when
\* the kernel has taken everything that sendInLoop accepted: shutdown() and the
\* writeCompleteCallback wait for output that is still buffered, and shutdown()
\* for the file behind it.
THEOREM CompletionsAreTrue == ASSUME WholeFiles PROVE Spec => CompletionMeansSent
<1>1. ASSUME WholeFiles, OutputInv, OutputInv', [Next]_vars,
             shut' \/ Completions(functors') > Completions(functors)
      PROVE  wire' = taken'
  <2>1. CASE shut'
    BY <1>1, <2>1 DEF OutputInv, NothingAfterShut
  <2>2. CASE Completions(functors') > Completions(functors)
    <3>1. ~writing' /\ Alive'
      BY <1>1, <2>2, StepCompletes
    <3> QED
      BY <1>1, <3>1 DEF OutputInv, Idle
  <2> QED
    BY <1>1, <2>1, <2>2
<1>2. WholeFiles
  OBVIOUS
<1>3. OutputInv /\ OutputInv' /\ [Next]_vars
        => [shut' \/ Completions(functors') > Completions(functors) => wire' = taken']_vars
  BY <1>1, <1>2
<1> QED
  BY <1>3, OutputInvariant, PTL DEF Spec, SafeSpec, CompletionMeansSent
=============================================================================
