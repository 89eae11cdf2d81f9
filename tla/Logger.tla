------------------------------- MODULE Logger -------------------------------
(***************************************************************************)
(* The global logger: every LOG line formats a record in a Logger, whose   *)
(* destructor calls output(): the first thread to do so constructs and     *)
(* starts the AsyncLogger inside pthread_once, the others wait for it.     *)
(***************************************************************************)
EXTENDS AsyncLogger, FiniteSets

CONSTANTS Threads,        \* the threads that log
          Lines,          \* what the n-th record is given with <<, a sequence
          Stamp,          \* the text of formatTime()
          FileName,       \* basename_
          SmallBuffer, MaxNumericSize

stream == INSTANCE LogStream

Chars(t) == [kind |-> "chars", value |-> t]
Time == Chars(Stamp)
\* The pieces of a record: the constructor's, the user's and the destructor's.
Pieces(n) ==
  <<Time>> \o Lines[n]
  \o <<Chars(<<" ", "-", "-", " ">>), Chars(FileName), Chars(<<":">>),
       [kind |-> "int", value |-> n], Chars(<<"\n">>)>>
Record(n) == stream!Text(Pieces(n))

-----------------------------------------------------------------------------
(* What a machine has to log.                                              *)

Decimals == <<"0", "1", "2", "3", "4", "5", "6", "7", "8", "9">>
Hexadecimals ==
  <<"0", "1", "2", "3", "4", "5", "6", "7", "8", "9", "A", "B", "C", "D", "E", "F">>
Digit(c, digits) == (CHOOSE i \in DOMAIN digits : digits[i] = c) - 1
Number(t, digits) == FoldLeft(LAMBDA n, c : Len(digits) * n + Digit(c, digits), 0, t)
\* The greatest number of n digits: kMaxNumericSize leaves room for those of 64
\* bits, a sign or "0x", and the terminating zero (see the static_asserts).
Greatest(n, top, digits) == Number([i \in 1..n |-> top], digits)
GreatestInt == Greatest(MaxNumericSize - 2, "9", Decimals)
GreatestPointer == Greatest(MaxNumericSize - 3, "F", Hexadecimals)

Piece ==
  [kind : {"int"}, value : -GreatestInt..GreatestInt]
  \cup [kind : {"pointer"}, value : 0..GreatestPointer]
  \cup [kind : {"double"}, value : {t \in Seq(STRING) : Len(t) < MaxNumericSize}]
  \cup [kind : {"chars"}, value : Seq(STRING)]

ASSUME LinesAssumption ==
  /\ Lines \in Seq(Seq(Piece)) /\ Len(Lines) <= GreatestInt
  /\ {Stamp, FileName} \subseteq Seq(STRING)

(* The buffer of AsyncLogger takes what LogStream made of a line.          *)
ASSUME RecordAssumption == Size = [n \in DOMAIN Lines |-> Len(Record(n))]
ASSUME StreamAssumption ==
  /\ SmallBuffer \in Nat \ {0} /\ MaxNumericSize \in Nat /\ MaxNumericSize >= 4
  /\ SmallBuffer <= LargeBuffer

VARIABLES once,           \* onceControl: "not", "running" or "done"
          place           \* where each thread is in its LOG line

loggerVars == <<once, place>>
allVars == <<vars, loggerVars>>

(* "once": in pthread_once; "init": in once_init; "append": past both.     *)
Places == {"idle", "once", "init", "append"}

InitLogger ==
  /\ Init
  /\ once = "not" /\ place = [th \in Threads |-> "idle"]

Go(th, p) == place' = [place EXCEPT ![th] = p]

\* ~Logger closes the record and calls output().  Nobody logs after log_exit(),
\* which deletes the AsyncLogger: a rule of use, the code has no guard.
Log(th) ==
  /\ place[th] = "idle" /\ opc \in {"new", "latch", "started"}
  /\ appended + Cardinality({t \in Threads : place[t] # "idle"}) < Len(Size)
  /\ Go(th, "once")                         \* bound: the records there are
  /\ UNCHANGED <<vars, once>>

Once(th) ==
  /\ place[th] = "once"
  /\ \/ once = "not" /\ once' = "running" /\ Go(th, "init") /\ Start
     \/ once = "done" /\ once' = once /\ Go(th, "append") /\ UNCHANGED vars

OnceInit(th) ==
  /\ place[th] = "init"
  /\ LatchWait
  /\ IF opc' = "started" THEN once' = "done" /\ Go(th, "append")
                         ELSE UNCHANGED loggerVars

Output(th) ==
  /\ place[th] = "append" /\ Go(th, "idle")
  /\ AppendRecord
  /\ UNCHANGED once

LogExit ==
  /\ \A th \in Threads : place[th] = "idle"
  /\ Stop \/ Notify \/ Join
  /\ UNCHANGED loggerVars

ThreadFun == ThreadStep /\ UNCHANGED loggerVars
Spurious == LatchSpurious /\ UNCHANGED loggerVars

CallerStep(th) == Once(th) \/ OnceInit(th) \/ Output(th)

Next ==
  \/ \E th \in Threads : Log(th) \/ CallerStep(th)
  \/ LogExit \/ ThreadFun \/ Spurious

\* Threads keep running; nobody has to log or to end the logger, but a stop()
\* that has begun goes on.
Fairness ==
  /\ WF_allVars(ThreadFun)
  /\ \A th \in Threads : WF_allVars(CallerStep(th))
  /\ WF_allVars(opc \in {"notify", "join"} /\ LogExit)

Spec == InitLogger /\ [][Next]_allVars /\ Fairness

-----------------------------------------------------------------------------
(* Properties.                                                             *)

\* Types, and that one thread, which waits for the latch, is in once_init.
LoggerTypeOK ==
  /\ TypeOK
  /\ once \in {"not", "running", "done"} /\ place \in [Threads -> Places]
  /\ Cardinality({th \in Threads : place[th] = "init"}) = IF once = "running" THEN 1 ELSE 0
  /\ once = "running" <=> opc = "latch"
  /\ once = "not" => appended = 0

\* Whoever logs gets past the start of the logger, the initialising thread and
\* those that wait for it: no notification of the latch is lost.  The one
\* exception is a thread that could not be created: ThreadStd::start swallows
\* the error and start() then waits for a count-down that never comes.
LoggingReturns ==
  \A th \in Threads : (place[th] = "once") ~> (place[th] = "idle" \/ tpc = "failed")

\* How a reader of the log understands what a piece has left in it.
ReadsAs(piece, t) ==
  CASE piece.kind = "int" /\ Head(t) = "-" -> piece.value = -Number(Tail(t), Decimals)
    [] piece.kind = "int" /\ Head(t) # "-" -> piece.value = Number(t, Decimals)
    [] piece.kind = "pointer" -> piece.value = Number(SubSeq(t, 3, Len(t)), Hexadecimals)
    [] OTHER -> piece.value = t

Prefix(n, k) == stream!Text(SubSeq(Pieces(n), 1, k))
Added(n, k) == SubSeq(Prefix(n, k), Len(Prefix(n, k - 1)) + 1, Len(Prefix(n, k)))
Terminator(n, k) ==
  IF stream!IsNumeric(Pieces(n)[k]) /\ Added(n, k) # <<>> THEN 1 ELSE 0

Legible == { n \in DOMAIN Lines : \A k \in DOMAIN Pieces(n) :
               Added(n, k) # <<>> => ReadsAs(Pieces(n)[k], Added(n, k)) }
Inside == { n \in DOMAIN Lines : \A k \in DOMAIN Pieces(n) :
               Len(Prefix(n, k)) + Terminator(n, k) <= SmallBuffer }

\* Whatever of a line is in the log reads as what was logged, for every integer
\* of the machine, the least one and zero included (convert() never negates), and
\* formatting never writes behind the buffer of the record, the terminating zero
\* of a number included, whatever is streamed after the buffer is full.
RecordsReadBack == LoggerTypeOK /\ 1..appended \subseteq Legible \cap Inside
=============================================================================
