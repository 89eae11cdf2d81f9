------------------------------- MODULE Server -------------------------------
(***************************************************************************)
(* TcpServer and its EventLoopThreadPool: the base loop's thread starts the*)
(* pool, listens, and in one call of acceptHandRead accepts every waiting  *)
(* client and deals it to the loops in turn, as the edge-triggered watch   *)
(* of the listening socket demands.  A spare descriptor serves to drop     *)
(* clients when the process has no other left.                             *)
(*                                                                         *)
(* What the loops do with a connection is abstracted to creating it and to *)
(* closing it when its peer has left (module Connections has the rest),    *)
(* and queueInLoop to a queue whose functors run (module EventLoop).       *)
(* setThreadNum comes before start, as its documentation asks.             *)
(***************************************************************************)
EXTENDS Naturals, Sequences, FiniteSets

CONSTANTS Clients,        \* the peers that connect, once each
          Others,         \* files that the rest of the process opens, once each
          NullFile, NoFile, \* what idleFd_ names when it names no client
          MaxThreads,     \* bound on setThreadNum
          MaxFds          \* descriptors for connections, Others and idleFd_

ASSUME ServerAssumption ==
  /\ MaxThreads \in Nat /\ MaxFds \in Nat \ {0}
  /\ IsFiniteSet(Clients) /\ IsFiniteSet(Others)
  /\ NullFile \notin Clients /\ NoFile \notin Clients /\ NullFile # NoFile

Base == 0                 \* the base loop; loops_[i] is loop i + 1
Loops == 0..MaxThreads

VARIABLES numThreads,     \* numThreads_
          loops,          \* the size of loops_
          next,           \* next_
          pc,             \* where the thread of the base loop is
          watched,        \* the listening socket is in the interest list
          edge,           \* a client has arrived that epoll did not report yet
          backlog,        \* clients that wait to be accepted, in order
          stage,          \* how far each client has come
          home,           \* the loop each client is dealt to
          queue,          \* the createConnection functors of each loop
          idle,           \* what idleFd_ names
          left,           \* clients whose peers have closed
          file            \* the files of Others

pool == <<numThreads, loops, next>>
vars == <<pool, pc, watched, edge, backlog, stage, home, queue, idle, left, file>>

NoLoop == MaxThreads + 1

Init ==
  /\ numThreads = 0 /\ loops = 0 /\ next = 0
  /\ pc = "made" /\ watched = FALSE /\ edge = FALSE
  /\ backlog = <<>> /\ stage = [c \in Clients |-> "away"]
  /\ home = [c \in Clients |-> NoLoop]
  /\ queue = [l \in Loops |-> <<>>]
  /\ idle = NullFile /\ left = {} /\ file = [o \in Others |-> "none"]

\* The descriptors in use: connections, the spare one and other files.
Connected == {c \in Clients : stage[c] \in {"accepted", "dealt", "served"}}
InUse == Cardinality(Connected)
         + (IF idle = NullFile THEN 1 ELSE 0)
         + Cardinality({o \in Others : file[o] = "open"})
Room == InUse < MaxFds

-----------------------------------------------------------------------------
(* Starting the server, in the thread of the base loop.                    *)

SetThreadNum(n) ==
  /\ pc = "made"
  /\ numThreads' = n
  /\ UNCHANGED <<loops, next, pc, watched, edge, backlog, stage, home, queue, idle, left,
                 file>>

\* started_ lets one call through: the threads run their loops, then the socket
\* listens, and only then the loop watches it.
Start ==
  /\ pc = "made" /\ pc' = "listen"
  /\ loops' = numThreads
  /\ UNCHANGED <<numThreads, next, watched, edge, backlog, stage, home, queue, idle, left,
                 file>>

Listen ==
  /\ pc = "listen" /\ pc' = "enable"
  /\ UNCHANGED <<pool, watched, edge, backlog, stage, home, queue, idle, left, file>>

\* EPOLL_CTL_ADD reports what has arrived before.
EnableEvents ==
  /\ pc = "enable" /\ pc' = "wait"
  /\ watched' = TRUE /\ edge' = (backlog # <<>>)
  /\ UNCHANGED <<pool, backlog, stage, home, queue, idle, left, file>>

-----------------------------------------------------------------------------
(* The peers, the kernel and the rest of the process.                      *)

Listening == pc \notin {"made", "listen"}

Connect(c) ==
  /\ Listening /\ stage[c] = "away"
  /\ stage' = [stage EXCEPT ![c] = "waiting"]
  /\ backlog' = Append(backlog, c)
  /\ edge' = watched
  /\ UNCHANGED <<pool, pc, watched, home, queue, idle, left, file>>

Leave(c) ==
  /\ stage[c] # "away" /\ c \notin left
  /\ left' = left \cup {c}
  /\ UNCHANGED <<pool, pc, watched, edge, backlog, stage, home, queue, idle, file>>

OpenFile(o) ==
  /\ file[o] = "none" /\ Room
  /\ file' = [file EXCEPT ![o] = "open"]
  /\ UNCHANGED <<pool, pc, watched, edge, backlog, stage, home, queue, idle, left>>

CloseFile(o) ==
  /\ file[o] = "open"
  /\ file' = [file EXCEPT ![o] = "closed"]
  /\ UNCHANGED <<pool, pc, watched, edge, backlog, stage, home, queue, idle, left>>

-----------------------------------------------------------------------------
(* acceptHandRead.                                                         *)

\* An edge-triggered watch reports an arrival once.
Poll ==
  /\ pc = "wait" /\ edge /\ backlog # <<>>
  /\ pc' = "accept" /\ edge' = FALSE
  /\ UNCHANGED <<pool, watched, backlog, stage, home, queue, idle, left, file>>

GetNextLoop == IF loops = 0 THEN Base ELSE next + 1
\* The mutant forgets to advance.
NextIndex_Mut == next
NextIndex == IF loops = 0 THEN next ELSE (next + 1) % numThreads

NewConnection(c) ==
  LET l == GetNextLoop IN
  /\ next' = NextIndex
  /\ home' = [home EXCEPT ![c] = l]
  /\ queue' = [queue EXCEPT ![l] = Append(@, c)]

\* The kernel looks for a descriptor before it looks for a client.
Accept ==
  /\ pc = "accept" /\ Room /\ backlog # <<>>
  /\ backlog' = Tail(backlog)
  /\ stage' = [stage EXCEPT ![Head(backlog)] = "dealt"]
  /\ NewConnection(Head(backlog))
  /\ UNCHANGED <<numThreads, loops, pc, watched, edge, idle, left, file>>

\* ECONNABORTED: the client is gone, and the loop goes on.
AcceptAborted ==
  /\ pc = "accept" /\ Room /\ backlog # <<>>
  /\ Head(backlog) \in left
  /\ backlog' = Tail(backlog)
  /\ stage' = [stage EXCEPT ![Head(backlog)] = "closed"]
  /\ UNCHANGED <<pool, pc, watched, edge, home, queue, idle, left, file>>

\* EAGAIN ends the loop.  The mutant accepts as if the watch was level-triggered.
AcceptedAll_Mut == backlog = <<>> \/ \E c \in Clients : stage[c] = "dealt"
AcceptedAll == backlog = <<>>

AcceptDone ==
  /\ pc = "accept" /\ Room /\ AcceptedAll
  /\ pc' = "run"
  /\ UNCHANGED <<pool, watched, edge, backlog, stage, home, queue, idle, left, file>>

\* EMFILE.
AcceptFull ==
  /\ pc = "accept" /\ ~Room
  /\ pc' = "closeIdle"
  /\ UNCHANGED <<pool, watched, edge, backlog, stage, home, queue, idle, left, file>>

CloseIdle ==
  /\ pc = "closeIdle" /\ pc' = "acceptIdle"
  /\ idle' = NoFile
  /\ UNCHANGED <<pool, watched, edge, backlog, stage, home, queue, left, file>>

AcceptIdle ==
  /\ pc = "acceptIdle" /\ pc' = "dropIdle"
  /\ IF Room /\ backlog # <<>>
     THEN /\ idle' = Head(backlog)
          /\ backlog' = Tail(backlog)
          /\ stage' = [stage EXCEPT ![Head(backlog)] = "accepted"]
     ELSE UNCHANGED <<idle, backlog, stage>>
  /\ UNCHANGED <<pool, watched, edge, home, queue, left, file>>

\* The mutant overwrites idleFd_ without closing it.
DropIdle_Mut ==
  /\ pc = "dropIdle" /\ pc' = "openIdle" /\ idle' = NoFile
  /\ UNCHANGED <<pool, watched, edge, backlog, stage, home, queue, left, file>>
DropIdle ==
  /\ pc = "dropIdle" /\ pc' = "openIdle"
  /\ idle' = NoFile
  /\ stage' = [c \in Clients |-> IF c = idle THEN "closed" ELSE stage[c]]
  /\ UNCHANGED <<pool, watched, edge, backlog, home, queue, left, file>>

\* The mutant does not open the file again.
OpenIdle_Mut ==
  /\ pc = "openIdle" /\ pc' = "accept"
  /\ UNCHANGED <<pool, watched, edge, backlog, stage, home, queue, idle, left, file>>
OpenIdle ==
  /\ pc = "openIdle" /\ pc' = "accept"
  /\ idle' = IF Room THEN NullFile ELSE NoFile
  /\ UNCHANGED <<pool, watched, edge, backlog, stage, home, queue, left, file>>

-----------------------------------------------------------------------------
(* The loops: the base loop's thread runs functors after its handlers.     *)

Create(l) ==
  /\ queue[l] # <<>> /\ (l = Base => pc = "run")
  /\ stage' = [stage EXCEPT ![Head(queue[l])] = "served"]
  /\ queue' = [queue EXCEPT ![l] = Tail(@)]
  /\ UNCHANGED <<pool, pc, watched, edge, backlog, home, idle, left, file>>

EndRun ==
  /\ pc = "run" /\ queue[Base] = <<>>
  /\ pc' = "wait"
  /\ UNCHANGED <<pool, watched, edge, backlog, stage, home, queue, idle, left, file>>

CloseConnection(c) ==
  /\ stage[c] = "served" /\ c \in left /\ (home[c] = Base => pc = "wait")
  /\ stage' = [stage EXCEPT ![c] = "closed"]
  /\ UNCHANGED <<pool, pc, watched, edge, backlog, home, queue, idle, left, file>>

AcceptHandRead ==
  \/ Accept \/ AcceptAborted \/ AcceptDone \/ AcceptFull
  \/ CloseIdle \/ AcceptIdle \/ DropIdle \/ OpenIdle

StartUp == Start \/ Listen \/ EnableEvents

Next ==
  \/ \E n \in 0..MaxThreads : SetThreadNum(n)
  \/ StartUp \/ Poll \/ AcceptHandRead \/ EndRun
  \/ \E c \in Clients : Connect(c) \/ Leave(c) \/ CloseConnection(c)
  \/ \E o \in Others : OpenFile(o) \/ CloseFile(o)
  \/ \E l \in Loops : Create(l)

\* The threads are scheduled; peers leave and files are closed some time, so
\* that nobody but the server itself holds on to descriptors.
Fairness ==
  /\ WF_vars(Listen \/ EnableEvents) /\ WF_vars(Poll)
  /\ WF_vars(AcceptHandRead) /\ WF_vars(EndRun)
  /\ \A l \in Loops : WF_vars(Create(l))
  /\ \A c \in Clients : WF_vars(Leave(c)) /\ SF_vars(CloseConnection(c))
  /\ \A o \in Others : WF_vars(CloseFile(o))

Spec == Init /\ [][Next]_vars /\ Fairness

-----------------------------------------------------------------------------
(* Properties.                                                             *)

InHandler == pc \in {"accept", "closeIdle", "acceptIdle", "dropIdle", "openIdle"}
InExchange == pc \in {"acceptIdle", "dropIdle", "openIdle"}

\* Every variable has its type; in particular next_ is an index of loops_.
TypeOK ==
  /\ numThreads \in 0..MaxThreads /\ loops \in 0..MaxThreads
  /\ next \in Nat /\ (loops = 0 => next = 0) /\ (loops > 0 => next < loops)
  /\ pc \in {"made", "listen", "enable", "wait", "run"} \/ InHandler
  /\ watched \in BOOLEAN /\ edge \in BOOLEAN
  /\ backlog \in Seq(Clients) /\ left \subseteq Clients
  /\ stage \in [Clients -> {"away", "waiting", "accepted", "dealt", "served", "closed"}]
  /\ home \in [Clients -> Loops \cup {NoLoop}]
  /\ queue \in [Loops -> Seq(Clients)]
  /\ idle \in {NullFile, NoFile} \cup Clients
  /\ file \in [Others -> {"none", "open", "closed"}]

\* Once the socket is watched, a client that waits while the base loop is not
\* accepting has left an edge for epoll_wait to report: acceptHandRead never
\* returns before it has emptied the backlog.
NobodyForgotten ==
  watched /\ ~InHandler /\ backlog # <<>> => edge

\* Every descriptor accept() returned is known to one owner: to idleFd_, or to
\* one loop that has it in one functor or has made the connection.
NoDescriptorLeaks ==
  \A c \in Connected :
    \/ stage[c] = "accepted" /\ idle = c
    \/ stage[c] = "dealt" /\ home[c] \in Loops
       /\ \E i \in DOMAIN queue[home[c]] : queue[home[c]][i] = c
    \/ stage[c] = "served" /\ home[c] \in Loops

\* The clients that were accepted are spread over the loops of the pool, or all
\* stay with the base loop when there is no pool; next_ is an index of loops_.
Dealt(l) == Cardinality({c \in Clients : home[c] = l})
Balanced ==
  /\ TypeOK
  /\ IF loops = 0 THEN \A l \in Loops \ {Base} : Dealt(l) = 0
     ELSE Dealt(Base) = 0 /\ \A l, k \in 1..loops : Dealt(l) <= Dealt(k) + 1

\* acceptHandRead gives the spare descriptor back, unless another thread took it
\* between the close and the open.
SpareKept ==
  ~InExchange /\ idle # NullFile => \E o \in Others : file[o] # "none"

\* With a pool, every client that connects becomes a connection of its loop or
\* is closed.
EveryClientAnswered ==
  \A c \in Clients :
    (loops > 0 /\ stage[c] = "waiting") ~> (stage[c] \in {"served", "closed"})

\* The comment at the idle descriptor promises that accept does not fire without
\* end.  Without a pool it does: the connections that could be closed belong to
\* the thread that spins.
AcceptorReturns == InHandler ~> pc = "wait"
=============================================================================
