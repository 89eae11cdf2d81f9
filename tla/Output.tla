------------------------------- MODULE Output -------------------------------
(***************************************************************************)
(* The sending side of one TcpConnection: send(), the output buffer, the   *)
(* file of setSendFile(), handleWrite(), shutdown() and the completion     *)
(* callback, against a kernel buffer that takes Room units at a time.      *)
(*                                                                         *)
(* A unit is a piece of a message, <<"msg", m, i>>, or of the file that    *)
(* goes with message m, <<"file", m, i>>.  A write takes what fits.        *)
(***************************************************************************)
EXTENDS Naturals, Sequences, FiniteSets, SequencesExt

CONSTANTS Room,           \* the kernel's send buffer, in units
          FileLen,        \* the length of a file, which is not empty
          MaxSends,       \* bound on the sends of a behaviour
          Usages          \* how the user's code uses the connection

\* sizes: of the messages; pipelined: it sends before the peer has read
\* everything; foreign: another thread sends too, with send(Buffer *); reports:
\* a writeCompleteCallback is set; files: it calls setSendFile().
Usage == [sizes : SUBSET (Nat \ {0}), pipelined : BOOLEAN, foreign : BOOLEAN,
          reports : BOOLEAN, files : BOOLEAN]

ASSUME LengthAssumption ==
  Room \in Nat \ {0} /\ FileLen \in Nat \ {0} /\ MaxSends \in Nat
ASSUME UsageAssumption == \A u \in Usages : u \in Usage

VARIABLES usage,          \* the one of this behaviour
          state,          \* state_; "crashed": a null sendFile_ was dereferenced
          buffer,         \* outputBuffer_
          file,           \* sendFile_: whose, its offset_ and sendLen_
          writing,        \* kWriteEvent is enabled
          functors,       \* queued functors of this connection
          wire,           \* what the kernel has taken
          unread,         \* how much of it the peer has not read
          shut, gone,     \* shutdown(SHUT_WR) was called; the peer reset
          sends,          \* messages sent so far
          taken,          \* what sendInLoop has accepted, in order
          handed,         \* messages handed to send() while connected
          told            \* messages whose completion the user was told

kernel == <<wire, unread, shut, gone>>
ghosts == <<taken, handed, told>>
vars == <<usage, state, buffer, file, writing, functors, kernel, sends, ghosts>>

NoFile == [of |-> 0, off |-> 0, left |-> 0]
free == Room - unread
Least(a, b) == IF a <= b THEN a ELSE b

Message(m, size) == [i \in 1..size |-> <<"msg", m, i>>]
FilePart(fl, count) == [i \in 1..count |-> <<"file", fl.of, fl.off + i>>]

Init ==
  /\ usage \in Usages
  /\ state = "connected" /\ buffer = <<>> /\ file = NoFile
  /\ writing = FALSE /\ functors = <<>>
  /\ wire = <<>> /\ unread = 0 /\ shut = FALSE /\ gone = FALSE
  /\ sends = 0 /\ taken = <<>> /\ handed = {} /\ told = {}

Write(units) == wire' = wire \o units /\ unread' = unread + Len(units)

Report(q) == IF usage.reports THEN Append(q, [op |-> "complete"]) ELSE q

\* What sendfile() takes of file fl with r units free.  It advances the offset
\* it is given, and the code advances it again.
FileTaken(fl, r) ==
  Least(r, IF fl.off >= FileLen THEN 0 ELSE Least(fl.left, FileLen - fl.off))
Advance(fl, k) == [fl EXCEPT !.off = @ + k + k, !.left = @ - k]

-----------------------------------------------------------------------------
(* sendInLoop(data, len), entered with the file fl, in its three endings:  *)
(* the write fails; not everything is written; everything is written, and  *)
(* the file follows.  The mutant of Direct forgets outputBuffer_.          *)

Direct_Mut == ~writing \/ buffer # <<>>
Direct == ~writing /\ buffer = <<>>

Attached(fl) == IF fl = file THEN <<>> ELSE FilePart(fl, fl.left)

SendFails(fl) ==
  /\ Direct /\ (gone \/ shut)
  /\ file' = fl
  /\ UNCHANGED <<state, buffer, writing, wire, unread, taken>>

Complete(units) == Len(units) <= free

\* The mutant does not enable the write event.
Wait_Mut == UNCHANGED writing
Wait == writing' = TRUE

SendRest(units, fl) ==
  LET n == IF Direct THEN Least(Len(units), free) ELSE 0 IN
  /\ ~(Direct /\ (gone \/ shut)) /\ ~(Direct /\ Complete(units))
  /\ Write(SubSeq(units, 1, n))
  /\ buffer' = buffer \o SubSeq(units, n + 1, Len(units))
  /\ Wait
  /\ file' = fl
  /\ taken' = taken \o units \o Attached(fl)
  /\ UNCHANGED state

\* The mutant does not wait for the rest of the file.
WaitForFile_Mut(left) == writing' = FALSE
WaitForFile(left) == writing' = (left > 0)

SendAll(units, fl) ==
  LET k == FileTaken(fl, free - Len(units))
      left == fl.left - k
  IN
  /\ Direct /\ ~gone /\ ~shut /\ Complete(units)
  /\ Write(units \o FilePart(fl, k))
  /\ WaitForFile(left)
  \* the file is reset, and then dereferenced by an assertion
  /\ IF fl # NoFile /\ left = 0 /\ usage.reports
     THEN file' = NoFile /\ state' = "crashed"
     ELSE file' = Advance(fl, k) /\ UNCHANGED state
  /\ taken' = taken \o units \o Attached(fl)
  /\ UNCHANGED buffer

\* q is the queue of functors when it is called.
SendInLoop(units, fl, q) ==
  /\ \/ SendFails(fl) /\ functors' = q
     \/ SendRest(units, fl) /\ functors' = q
     \/ /\ SendAll(units, fl)
        /\ functors' = IF writing' THEN q ELSE Report(q)
  /\ UNCHANGED <<shut, gone>>

-----------------------------------------------------------------------------
(* The user's calls.                                                       *)

AllRead == unread = 0 /\ buffer = <<>> /\ file.left = 0 /\ functors = <<>>

\* send(string) in the loop thread, after setSendFile() if fl is not the file
\* that was there.  While disconnecting it takes the branch of the other
\* threads, which comes to the same.
Send(size, fl) ==
  /\ state \in {"connected", "disconnecting"}
  /\ sends < MaxSends /\ (usage.pipelined \/ AllRead)
  /\ sends' = sends + 1
  /\ SendInLoop(Message(sends', size), fl, functors)
  /\ handed' = IF state = "connected" THEN handed \cup {sends'} ELSE handed
  /\ UNCHANGED told

NewFile == [of |-> sends + 1, off |-> 0, left |-> FileLen]

\* Another thread: send(Buffer *) queues; send(string) would do nothing at all.
ForeignSend(size) ==
  /\ usage.foreign
  /\ state = "connected" /\ sends < MaxSends
  /\ sends' = sends + 1
  /\ handed' = handed \cup {sends'}
  /\ functors' = Append(functors, [op |-> "send", m |-> sends', size |-> size])
  /\ UNCHANGED <<state, buffer, file, writing, kernel, taken, told>>

ShutdownInLoop(isWriting) == shut' = (shut \/ ~isWriting)

Shutdown ==
  /\ state = "connected"
  /\ state' = "disconnecting"
  /\ ShutdownInLoop(writing)
  /\ UNCHANGED <<buffer, file, writing, functors, wire, unread, gone, sends, ghosts>>

-----------------------------------------------------------------------------
(* The loop thread.                                                        *)

\* The output is complete: the write event is disabled, the completion queued,
\* a pending shutdown() performed.
Drained ==
  /\ writing' = FALSE
  /\ functors' = Report(functors)
  /\ IF state = "disconnecting" THEN ShutdownInLoop(FALSE) ELSE UNCHANGED shut

NotDrained == UNCHANGED <<writing, functors, shut>>

\* The mutant takes the output for complete after any write.
IsDrained_Mut(rest) == TRUE
IsDrained(rest) == rest = <<>>

WriteBuffer ==
  LET n == Least(Len(buffer), free)
      rest == SubSeq(buffer, n + 1, Len(buffer))
  IN
  /\ writing /\ buffer # <<>> /\ ~gone /\ n > 0
  /\ Write(SubSeq(buffer, 1, n))
  /\ buffer' = rest
  /\ IF IsDrained(rest) THEN Drained ELSE NotDrained
  /\ UNCHANGED <<state, file, gone, sends, ghosts>>

WriteFile ==
  LET k == FileTaken(file, free) IN
  /\ writing /\ buffer = <<>> /\ file # NoFile /\ ~gone /\ k > 0
  /\ Write(FilePart(file, k))
  /\ IF file.left = k THEN file' = NoFile /\ Drained
     ELSE file' = Advance(file, k) /\ NotDrained
  /\ UNCHANGED <<state, buffer, gone, sends, ghosts>>

HandleWrite == WriteBuffer \/ WriteFile

Of(m, q) == {u \in ToSet(q) : u[2] = m}
Accepted(m) == Of(m, taken) # {}
OnWire(m) == Accepted(m) /\ Of(m, taken) \subseteq Of(m, wire)

Run(op) == functors # <<>> /\ Head(functors).op = op /\ state # "crashed"

RunSend ==
  /\ Run("send")
  /\ IF state = "disconnected"
     THEN functors' = Tail(functors)
          /\ UNCHANGED <<state, buffer, file, writing, kernel, taken>>
     ELSE LET send == Head(functors) IN
          SendInLoop(Message(send.m, send.size), file, Tail(functors))
  /\ UNCHANGED <<sends, handed, told>>

RunComplete ==
  /\ Run("complete")
  /\ functors' = Tail(functors)
  /\ told' = told \cup {m \in 1..sends : OnWire(m)}
  /\ UNCHANGED <<state, buffer, file, writing, kernel, sends, taken, handed>>

\* A reset reaches handleClose.
Close ==
  /\ gone /\ state \in {"connected", "disconnecting"}
  /\ state' = "disconnected" /\ writing' = FALSE
  /\ UNCHANGED <<buffer, file, functors, kernel, sends, ghosts>>

PeerReads ==
  /\ unread > 0 /\ ~gone
  /\ \E n \in 0..unread - 1 : unread' = n
  /\ UNCHANGED <<state, buffer, file, writing, functors, wire, shut, gone, sends, ghosts>>

PeerResets ==
  /\ ~gone /\ gone' = TRUE
  /\ UNCHANGED <<state, buffer, file, writing, functors, wire, unread, shut, sends, ghosts>>

-----------------------------------------------------------------------------

LoopStep == (HandleWrite \/ RunSend \/ RunComplete \/ Close) /\ UNCHANGED usage
PeerReadsOn == PeerReads /\ UNCHANGED usage

UserStep ==
  /\ UNCHANGED usage
  /\ \/ \E size \in usage.sizes :
          \/ Send(size, file)
          \/ usage.files /\ Send(size, NewFile)
          \/ ForeignSend(size)
     \/ Shutdown

Next ==
  \/ UserStep \/ LoopStep \/ PeerReadsOn
  \/ PeerResets /\ UNCHANGED usage

SafeSpec == Init /\ [][Next]_vars

\* The loop thread runs, and a peer that has not reset goes on reading.
Spec == SafeSpec /\ WF_vars(LoopStep) /\ WF_vars(PeerReadsOn)

-----------------------------------------------------------------------------
(* Properties.                                                             *)

TypeOK ==
  /\ state \in {"connected", "disconnecting", "disconnected", "crashed"}
  /\ file \in [of : 0..MaxSends, off : Nat, left : 0..FileLen]
  /\ writing \in BOOLEAN /\ shut \in BOOLEAN /\ gone \in BOOLEAN
  /\ unread \in 0..Room /\ sends \in 0..MaxSends
  /\ handed \subseteq 1..sends /\ told \subseteq 1..sends

\* Nothing is lost, repeated or reordered: what the kernel has, then the output
\* buffer, then the rest of the file, is what sendInLoop accepted, in order.
Conserved ==
  /\ TypeOK
  /\ ~gone /\ ~shut => wire \o buffer \o FilePart(file, file.left) = taken

\* The write event is enabled while output waits, so that handleWrite comes
\* back for it, and only then, so that the loop does not spin.
WatchedWhilePending ==
  state \in {"connected", "disconnecting"} /\ ~gone /\ ~shut =>
    (writing <=> buffer # <<>> \/ file.left > 0)

\* A completion is queued, and shutdown(SHUT_WR) called, only when the kernel has
\* everything that was accepted.
Completions(q) == Cardinality({i \in DOMAIN q : q[i].op = "complete"})
CompletionMeansSent ==
  [][shut' \/ Completions(functors') > Completions(functors) => wire' = taken']_vars

\* What sendInLoop accepted is sent, before or after a shutdown(), unless the
\* peer resets.
Delivered == \A m \in 1..MaxSends : Accepted(m) ~> (OnWire(m) \/ gone)

\* What the user handed to send(), in whichever thread, is sent and reported on
\* a connection that stays up, if a callback is set.
SendIsReported ==
  \A m \in 1..MaxSends :
    (m \in handed /\ usage.reports) ~> (m \in told \/ state # "connected" \/ gone)
=============================================================================
