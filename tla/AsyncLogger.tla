---------------------------- MODULE AsyncLogger ----------------------------
(***************************************************************************)
(* cannet::AsyncLogger with its LogFile.  Appenders fill currentBuffer_    *)
(* under mutex_ and queue it when a record does not fit; the logging       *)
(* thread takes all buffers under the same mutex, giving two spare ones in *)
(* exchange, and writes them to the file outside of it.  A critical        *)
(* section is one step, a wait on the condition variable ends it.          *)
(*                                                                         *)
(* Buffers are shared_ptr: a buffer here is its identity, `text' what it   *)
(* holds.  Records are numbered in the order in which they are appended.   *)
(***************************************************************************)
EXTENDS Integers, Sequences, SequencesExt

CONSTANTS LargeBuffer,    \* kLargeBuffer, the size of a buffer
          MaxBuffers,     \* more buffers than these in one batch are dropped
          FlushEveryN,    \* LogFile flushes by itself after so many appends
          Size,           \* the length of the n-th record, a sequence
          Buffers,        \* the buffers there can be, live ones at a time
          None,           \* a null BufferPtr
          Owner           \* the thread that starts and stops the logger

(* A record comes from a LogStream, which is shorter than kLargeBuffer, so *)
(* that every record fits into an empty buffer.                            *)
ASSUME SizeAssumption ==
  LargeBuffer \in Nat /\ Size \in Seq(1..(LargeBuffer - 1))
ASSUME BuffersAssumption ==
  None \notin Buffers /\ \E s \in [1..4 -> Buffers] : IsInjective(s)
ASSUME LimitAssumption == MaxBuffers \in Nat /\ MaxBuffers >= 2
ASSUME FlushAssumption == FlushEveryN \in Nat \ {0}

VARIABLES currentBuffer, nextBuffer,   \* what the appenders fill, and fill next
          buffers,                     \* buffers_, queued for the thread
          newBuffer1, newBuffer2,      \* the thread's spare buffers
          bufferToWrite,               \* the batch the thread has taken
          cursor,                      \* the buffer of the batch to write next
          text,                        \* what each buffer holds
          appended,                    \* how many records were appended
          running,                     \* running_
          opc, tpc,                    \* where the owner and the thread are
          latchCount, latchSleeping,   \* latch_
          written, flushed, count      \* LogFile: what fwrite was given, how
                                       \* much of it left stdio, and count_

appenderVars == <<currentBuffer, nextBuffer, buffers, appended>>
threadVars == <<newBuffer1, newBuffer2, bufferToWrite, cursor>>
latchVars == <<latchCount, latchSleeping>>
fileVars == <<written, flushed, count>>
vars == <<appenderVars, threadVars, text, running, opc, tpc, latchVars, fileVars>>

latch == INSTANCE Latch WITH count <- latchCount, sleeping <- latchSleeping

(* "latch": in start(), waiting for the thread; "notify", "join": in       *)
(* stop(), after the store to running_ and after the notification.         *)
OwnerLocations == {"new", "latch", "started", "notify", "join", "joined"}

(* "spawned": at the count-down; "test": at `while (running_)'; "lock":    *)
(* before the critical section; "asleep": in wait_for; "woken": wait_for   *)
(* is over; "trim", "write", "refill", "flush": the statements after the   *)
(* critical section; "leave": behind the loop.  "failed": the thread could *)
(* not be created, which ThreadStd::start swallows.                        *)
ThreadLocations == {"none", "failed", "spawned", "test", "lock", "asleep", "woken",
                    "trim", "write", "refill", "flush", "leave", "finished"}

Pointers == Buffers \cup {None}
Used(b) == FoldLeft(LAMBDA n, r : n + Size[r], 0, text[b])
Owned == {currentBuffer, nextBuffer, newBuffer1, newBuffer2}
         \cup ToSet(buffers) \cup ToSet(bufferToWrite)
Free == Buffers \ Owned
\* Which address `new Buffer' returns makes no difference.
Fresh == CHOOSE b \in Free : TRUE
Emptied(S) == [b \in Buffers |-> IF b \in S THEN <<>> ELSE text[b]]

\* The constructor's two buffers, and the two the thread begins with.
Four == CHOOSE s \in [1..4 -> Buffers] : IsInjective(s)

Init ==
  /\ currentBuffer = Four[1] /\ nextBuffer = Four[2]
  /\ newBuffer1 = Four[3] /\ newBuffer2 = Four[4]
  /\ buffers = <<>> /\ bufferToWrite = <<>> /\ cursor = 1
  /\ text = [b \in Buffers |-> <<>>] /\ appended = 0
  /\ running = FALSE /\ opc = "new" /\ tpc = "none"
  /\ latchCount = 1 /\ latchSleeping = {}
  /\ written = <<>> /\ flushed = 0 /\ count = 0

-----------------------------------------------------------------------------
(* Appenders.                                                              *)

\* notify_one: the logging thread is the only one that waits.
Notified_Mut == IF tpc # "asleep" THEN tpc ELSE IF running THEN "woken" ELSE "leave"
Notified == IF tpc = "asleep" THEN "woken" ELSE tpc

Avail(b) == LargeBuffer - Used(b)
\* FixedBuffer::append: a record for which there is no room is left out.
Put(b, r) == IF Avail(b) > Size[r] THEN Append(text[b], r) ELSE text[b]

Fits_Mut(r) == Avail(currentBuffer) >= Size[r]
Fits(r) == Avail(currentBuffer) > Size[r]

Replacement == IF nextBuffer # None THEN nextBuffer ELSE Fresh

AppendFits(r) ==
  /\ Fits(r)
  /\ text' = [text EXCEPT ![currentBuffer] = Put(currentBuffer, r)]
  /\ UNCHANGED <<currentBuffer, nextBuffer, buffers, tpc>>

AppendFull(r) ==
  /\ ~Fits(r)
  /\ nextBuffer = None => Free # {}         \* bound: Buffers
  /\ buffers' = Append(buffers, currentBuffer)
  /\ currentBuffer' = Replacement /\ nextBuffer' = None
  /\ text' = [text EXCEPT ![Replacement] = Put(Replacement, r)]
  /\ tpc' = Notified

AppendRecord ==
  /\ appended' = appended + 1
  /\ AppendFits(appended') \/ AppendFull(appended')
  /\ UNCHANGED <<threadVars, running, opc, latchVars, fileVars>>

-----------------------------------------------------------------------------
(* start() and stop(), in the owner.                                       *)

\* ThreadStd::start returns the same way when std::thread throws.
CreateThread == tpc' \in {"spawned", "failed"}

Start ==
  /\ opc = "new" /\ opc' = "latch"
  /\ running' = TRUE
  /\ CreateThread
  /\ UNCHANGED <<appenderVars, threadVars, text, latchVars, fileVars>>

LatchWait ==
  /\ opc = "latch"
  /\ \/ latch!Sleep(Owner) /\ opc' = opc
     \/ latch!Pass(Owner) /\ opc' = "started"
  /\ UNCHANGED <<appenderVars, threadVars, text, running, tpc, fileVars>>

LatchSpurious ==
  /\ latch!Spurious(Owner)
  /\ UNCHANGED <<appenderVars, threadVars, text, running, opc, tpc, fileVars>>

Stop ==
  /\ opc = "started" /\ opc' = "notify"
  /\ running' = FALSE
  /\ UNCHANGED <<appenderVars, threadVars, text, tpc, latchVars, fileVars>>

\* The notification is lost if the thread is not asleep yet.
Notify ==
  /\ opc = "notify" /\ opc' = "join"
  /\ tpc' = Notified
  /\ UNCHANGED <<appenderVars, threadVars, text, running, latchVars, fileVars>>

Join ==
  /\ opc = "join" /\ tpc = "finished" /\ opc' = "joined"
  /\ UNCHANGED <<appenderVars, threadVars, text, running, tpc, latchVars, fileVars>>

-----------------------------------------------------------------------------
(* threadFun().                                                            *)

CountDown ==
  /\ tpc = "spawned" /\ tpc' = "test"
  /\ latch!CountDown
  /\ UNCHANGED <<appenderVars, threadVars, text, running, opc, fileVars>>

Test ==
  /\ tpc = "test"
  /\ tpc' = IF running THEN "lock" ELSE "leave"
  /\ UNCHANGED <<appenderVars, threadVars, text, running, opc, latchVars, fileVars>>

Sleep ==
  /\ tpc = "lock" /\ buffers = <<>> /\ tpc' = "asleep"
  /\ UNCHANGED <<appenderVars, threadVars, text, running, opc, latchVars, fileVars>>

\* wait_for has no predicate: whatever ends it, the thread goes on.
TimeoutOrSpurious ==
  /\ tpc = "asleep" /\ tpc' = "woken"
  /\ UNCHANGED <<appenderVars, threadVars, text, running, opc, latchVars, fileVars>>

Exchange ==
  /\ bufferToWrite' = Append(buffers, currentBuffer) /\ buffers' = bufferToWrite
  /\ currentBuffer' = newBuffer1 /\ newBuffer1' = None
  /\ IF nextBuffer = None
     THEN nextBuffer' = newBuffer2 /\ newBuffer2' = None
     ELSE UNCHANGED <<nextBuffer, newBuffer2>>

Swap ==
  /\ tpc = "woken" \/ (tpc = "lock" /\ buffers # <<>>)
  /\ tpc' = "trim" /\ cursor' = 1
  /\ Exchange
  /\ UNCHANGED <<text, appended, running, opc, latchVars, fileVars>>

Kept == IF Len(bufferToWrite) > MaxBuffers THEN SubSeq(bufferToWrite, 1, 2)
                                           ELSE bufferToWrite
Trim ==
  /\ tpc = "trim" /\ tpc' = "write"
  /\ bufferToWrite' = Kept
  /\ text' = Emptied(ToSet(bufferToWrite) \ ToSet(Kept))
  /\ UNCHANGED <<appenderVars, newBuffer1, newBuffer2, cursor, running, opc,
                 latchVars, fileVars>>

\* AppendFile::append; stdio hands on what its own buffer cannot hold at any time.
FileAppend(t) == written' = written \o t

LogFileFlush == flushed' = Len(written')
LogFileAppend(t) ==
  /\ FileAppend(t)
  /\ IF count + 1 >= FlushEveryN
     THEN LogFileFlush /\ count' = 0
     ELSE flushed' \in flushed..Len(written') /\ count' = count + 1

WriteBuffer ==
  /\ tpc = "write" /\ cursor <= Len(bufferToWrite)
  /\ cursor' = cursor + 1
  /\ LogFileAppend(text[bufferToWrite[cursor]])
  /\ UNCHANGED <<appenderVars, newBuffer1, newBuffer2, bufferToWrite, text,
                 running, opc, tpc, latchVars>>

EndWrite ==
  /\ tpc = "write" /\ cursor > Len(bufferToWrite) /\ tpc' = "refill"
  /\ UNCHANGED <<appenderVars, threadVars, text, running, opc, latchVars, fileVars>>

Missing == (IF newBuffer1 = None THEN 1 ELSE 0) + (IF newBuffer2 = None THEN 1 ELSE 0)
\* resize(2), then the spares that are gone come from the back.
Recycled_Mut == SubSeq(bufferToWrite, 1, 1)
Recycled == SubSeq(bufferToWrite, 1, IF Len(bufferToWrite) > 2 THEN 2
                                     ELSE Len(bufferToWrite))
Refill_Mut ==
  /\ tpc = "refill" /\ Missing = 1 /\ tpc' = "flush"
  /\ newBuffer1' = Last(Recycled)
  /\ bufferToWrite' = <<>> /\ cursor' = 1
  /\ UNCHANGED <<appenderVars, newBuffer2, text, running, opc, latchVars, fileVars>>
Refill ==
  /\ tpc = "refill" /\ tpc' = "flush"
  /\ LET rest == IF newBuffer1 = None THEN Front(Recycled) ELSE Recycled
     IN  /\ newBuffer1' = IF newBuffer1 = None THEN Last(Recycled) ELSE newBuffer1
         /\ newBuffer2' = IF newBuffer2 = None THEN Last(rest) ELSE newBuffer2
  /\ bufferToWrite' = <<>> /\ cursor' = 1
  /\ text' = Emptied(ToSet(bufferToWrite))
  /\ UNCHANGED <<appenderVars, running, opc, latchVars, fileVars>>

Flush ==
  /\ tpc \in {"flush", "leave"}
  /\ tpc' = IF tpc = "flush" THEN "test" ELSE "finished"
  /\ written' = written /\ LogFileFlush
  /\ UNCHANGED <<appenderVars, threadVars, text, running, opc, latchVars, count>>

ThreadStep ==
  \/ CountDown \/ Test \/ Sleep \/ TimeoutOrSpurious \/ Swap \/ Trim
  \/ WriteBuffer \/ EndWrite \/ Refill \/ Flush

-----------------------------------------------------------------------------
(* Properties.                                                             *)

\* Types, and where the thread's vector of buffers and its cursor stand.
TypeOK ==
  /\ currentBuffer \in Buffers /\ {nextBuffer, newBuffer1, newBuffer2} \subseteq Pointers
  /\ {buffers, bufferToWrite} \subseteq Seq(Buffers)
  /\ text \in [Buffers -> Seq(1..Len(Size))] /\ appended \in 0..Len(Size)
  /\ running \in BOOLEAN /\ opc \in OwnerLocations /\ tpc \in ThreadLocations
  /\ latchCount \in 0..1 /\ latchSleeping \subseteq {Owner}
  /\ written \in Seq(1..Len(Size)) /\ flushed \in 0..Len(written)
  /\ count \in 0..(FlushEveryN - 1)
  /\ cursor \in 1..(Len(bufferToWrite) + 1)
  /\ tpc \notin {"trim", "write", "refill"} => bufferToWrite = <<>>

Spares == {newBuffer1, newBuffer2, nextBuffer} \ {None}
\* A buffer is in one place at a time: what appenders write to is neither
\* queued, nor being written to the file, nor a spare one, and spare buffers are
\* empty.  (The shared_ptr copies of append() and threadFun() all end in a
\* reset or a move.)
OneOwner ==
  LET inUse == <<currentBuffer>> \o buffers \o bufferToWrite
  IN  /\ IsInjective(inUse)
      /\ Spares \cap ToSet(inUse) = {}
      /\ \A b \in Spares : text[b] = <<>>
      /\ newBuffer1 # None => newBuffer1 \notin {newBuffer2, nextBuffer}
      /\ newBuffer2 # None => newBuffer2 # nextBuffer

\* The written buffers are enough to replace the spares that were given away,
\* so that pop_back never meets an empty vector and the thread enters its
\* critical section with two spares (the assertions of threadFun()).  It never
\* sleeps out its flush interval on a full buffer: no notification of append()
\* is missed.
SparesReturn ==
  /\ tpc = "refill" => Len(Recycled) >= Missing
  /\ tpc \in {"spawned", "test", "lock", "asleep", "woken"} => Missing = 0
  /\ tpc = "asleep" => buffers = <<>>

Contents(s) == FlattenSeq([i \in DOMAIN s |-> text[s[i]]])
OnDisk == SubSeq(written, 1, flushed)
Pending ==
  SubSeq(written, flushed + 1, Len(written))
  \o Contents(SubSeq(bufferToWrite, cursor, Len(bufferToWrite)))
  \o Contents(buffers) \o text[currentBuffer]

log == INSTANCE RecordLog
       WITH Backlog <- MaxBuffers, accepted <- appended, pending <- Pending,
            file <- OnDisk, open <- opc \in {"new", "latch", "started"}
\* The buffers that change hands are one log: each record reaches the disk once
\* and in order, all of them while the logger is not stopped, but for those of a
\* batch of more than MaxBuffers buffers.
RefinesRecordLog == log!Spec

\* stop() returns: the store to running_ and a notification that may be lost
\* end the thread within a flush interval.  If it found the thread asleep nothing
\* is lost: what currentBuffer_ then holds is written and flushed before the
\* thread ends.  (A thread that is writing leaves the loop without a look at what
\* was appended meanwhile.)
StopWritesTheRest ==
  /\ (opc = "notify") ~> (opc = "joined")
  /\ \A r \in DOMAIN Size :
       (opc = "notify" /\ tpc = "asleep" /\ r \in ToSet(text[currentBuffer]))
         ~> (tpc = "finished" /\ r \in ToSet(OnDisk))
=============================================================================
