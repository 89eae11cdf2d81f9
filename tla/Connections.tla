---------------------------- MODULE Connections ----------------------------
(***************************************************************************)
(* The connections of one IO loop: TcpConnection objects with their        *)
(* Channel, the Epoll object that owns, recycles and watches them, and the *)
(* descriptors they share with the rest of the process.                    *)
(*                                                                         *)
(* The main thread accepts sockets and queues createConnection; peers send,*)
(* close or reset at any time; the loop thread handles the events of one   *)
(* epoll_wait and then runs the queued functors.  The handlers of one      *)
(* Channel::handleEvent are separate steps, since another thread may take  *)
(* a descriptor that an earlier one closed.  What is written is abstracted *)
(* to whether the kernel took all of it.                                   *)
(***************************************************************************)
EXTENDS Naturals, Sequences, SequencesExt, FiniteSets

CONSTANTS Objects,        \* TcpConnection objects
          Fds,            \* descriptor numbers
          Sockets,        \* the connections that peers make, once each
          NoObject, NoFd, NoSocket,
          Usages          \* what peers do, and what the user's code calls where

Callbacks == {"message", "connection", "writeComplete"}
Calls == {"send", "shutdown", "forceClose", "stopRead", "startRead"}
PeerActs == {"data", "fin", "reset"}

ASSUME NullAssumption ==
  NoObject \notin Objects /\ NoFd \notin Fds /\ NoSocket \notin Sockets
ASSUME UsageAssumption ==
  Usages \subseteq [peers : SUBSET PeerActs, calls : [Callbacks -> SUBSET Calls]]

VARIABLES usage,          \* the one of this behaviour
          object,         \* the fields of each TcpConnection and its Channel
          connections,    \* connections_: descriptor |-> object
          pool,           \* connectionsPool, a stack
          interest,       \* the interest list of the epoll instance
          file,           \* the descriptor table of the process
          socket,         \* the kernel's side of each connection
          pc,             \* the loop: "poll", "handle", "run"; or "aborted"
          active,         \* activeChannels_: object |-> its revents_
          agenda,         \* what is left of handleEvent for the one in hand
          callback,       \* the user callback that is running, or Quiet
          functors, batch,
          excused         \* sockets a peer ended or the user forceClosed

kernel == <<interest, file, socket>>
owner == <<connections, pool>>
loopVars == <<pc, active, agenda, functors, batch>>
vars == <<usage, object, connections, pool, interest, file, socket, pc, active, agenda,
          callback, functors, batch, excused>>

Quiet == [at |-> "none", of |-> NoObject]
Idle == [of |-> NoObject, handlers |-> {}]
NoWatch == [of |-> NoObject, events |-> {}]
NewSocket == [phase |-> "new", data |-> FALSE, fin |-> FALSE, err |-> FALSE,
              gone |-> FALSE, shut |-> FALSE]
Closed == [NewSocket EXCEPT !.phase = "closed"]

\* state_, fd_, status_, events_ and reading_; `is' is the socket that fd_
\* named when the object was given it.
Unmade == [state |-> "none", fd |-> NoFd, is |-> NoSocket,
           status |-> "new", events |-> {}, reading |-> TRUE]

Init ==
  /\ usage \in Usages
  /\ object = [c \in Objects |-> Unmade]
  /\ connections = [f \in Fds |-> NoObject] /\ pool = <<>>
  /\ interest = [f \in Fds |-> NoWatch]
  /\ file = [f \in Fds |-> NoSocket]
  /\ socket = [s \in Sockets |-> NewSocket]
  /\ pc = "poll" /\ active = <<>> /\ agenda = Idle /\ callback = Quiet
  /\ functors = <<>> /\ batch = <<>>
  /\ excused = {}

-----------------------------------------------------------------------------
(* The peers and the accepting thread.                                     *)

Open(s) == socket[s].phase = "open"
SocketOf(c) == file[object[c].fd]

Accept(s, f) ==
  /\ socket[s].phase = "new" /\ file[f] = NoSocket /\ pc # "aborted"
  /\ file' = [file EXCEPT ![f] = s]
  /\ socket' = [socket EXCEPT ![s].phase = "open"]
  /\ functors' = Append(functors, [op |-> "create", fd |-> f])
  /\ UNCHANGED <<object, owner, interest, pc, active, agenda, callback, batch,
                 excused>>

PeerSend(s) ==
  /\ "data" \in usage.peers /\ Open(s) /\ ~socket[s].fin /\ ~socket[s].gone
  /\ socket' = [socket EXCEPT ![s].data = TRUE]
  /\ UNCHANGED <<object, owner, interest, file, loopVars, callback, excused>>

PeerEnd(s) ==
  /\ Open(s) /\ ~socket[s].gone
  /\ \/ /\ "fin" \in usage.peers /\ ~socket[s].fin
        /\ socket' = [socket EXCEPT ![s].fin = TRUE]
     \/ /\ "reset" \in usage.peers
        /\ socket' = [socket EXCEPT ![s].gone = TRUE, ![s].err = TRUE]
  /\ excused' = excused \cup {s}
  /\ UNCHANGED <<object, owner, interest, file, loopVars, callback>>

-----------------------------------------------------------------------------
(* Epoll::updateChannel and Epoll::update: object c becomes rec, in which   *)
(* events_ has changed; status_ says whether to add, modify or delete.     *)

Update(c, rec) ==
  LET del == rec.status = "added" /\ rec.events = {} IN
  /\ object' = [object EXCEPT ![c] =
                  [rec EXCEPT !.status = IF del THEN "deleted" ELSE "added"]]
  /\ interest' = [interest EXCEPT ![rec.fd] =
                    IF del \/ file[rec.fd] = NoSocket THEN NoWatch
                    ELSE [of |-> c, events |-> rec.events]]

SetEvents(c, ev) == Update(c, [object[c] EXCEPT !.events = ev])

(* handleClose: the connection is disconnected and its events are disabled;*)
(* closeCallback_ leads through removeConnection and connectDestroyed to   *)
(* removeChannel, which moves whatever connections_ holds for fd_ to the   *)
(* pool and closes fd_.  connectDestroyed finds kDisconnected, so it calls *)
(* neither setState nor connectionCallback_.                               *)
KeepConnection(c) ==
  /\ pool' = Append(pool, connections[object[c].fd])
  /\ connections' = [connections EXCEPT ![object[c].fd] = NoObject]

HandleClose(c) ==
  IF object[c].state \notin {"connected", "disconnecting"}
  THEN pc' = "aborted" /\ UNCHANGED <<object, owner, kernel>>
  ELSE LET f == object[c].fd IN
       /\ object' = [object EXCEPT ![c].state = "disconnected", ![c].events = {},
                                   ![c].status = "new"]
       /\ KeepConnection(c)
       /\ file' = [file EXCEPT ![f] = NoSocket]
       /\ interest' = [interest EXCEPT ![f] = NoWatch]
       /\ socket' = IF file[f] = NoSocket THEN socket
                    ELSE [socket EXCEPT ![file[f]] = Closed]
       /\ UNCHANGED pc

-----------------------------------------------------------------------------
(* epoll_wait and Channel::handleEvent.                                    *)

\* What a socket is ready for.  A reset or a close in both directions is HUP,
\* which is reported whatever the interest, as is ERR.
Ready(s, writable) ==
  LET k == socket[s] IN
  {e \in {"in", "out", "hup", "err"} :
     CASE e = "in"  -> k.data \/ k.fin \/ k.gone
       [] e = "out" -> s \in writable \/ k.gone
       [] e = "hup" -> k.gone \/ (k.fin /\ k.shut)
       [] e = "err" -> k.err}

Reported(f, writable) ==
  Ready(file[f], writable) \cap (interest[f].events \cup {"hup", "err"})

Watched == {f \in Fds : interest[f] # NoWatch}

\* A queued functor makes epoll_wait return through the eventfd: see EventLoop.
Poll ==
  /\ pc = "poll"
  /\ \E writable \in SUBSET {file[f] : f \in {w \in Watched : "out" \in interest[w].events}} :
       LET hot == {f \in Watched : Reported(f, writable) # {}} IN
       /\ hot # {} \/ functors # <<>>
       /\ active' = [c \in {interest[f].of : f \in hot} |->
                       Reported(object[c].fd, writable)]
  /\ pc' = "handle"
  /\ UNCHANGED <<object, owner, kernel, agenda, callback, functors, batch, excused>>

Handlers == {"close", "error", "read", "write"}

\* The mutant drops the test of EPOLLIN.
Due_Mut(h, revents) ==
  CASE h = "close" -> "hup" \in revents
    [] h = "error" -> "err" \in revents
    [] h = "read"  -> revents \cap {"in", "hup"} # {}
    [] h = "write" -> "out" \in revents
Due(h, revents) ==
  CASE h = "close" -> "hup" \in revents /\ "in" \notin revents
    [] h = "error" -> "err" \in revents
    [] h = "read"  -> revents \cap {"in", "hup"} # {}
    [] h = "write" -> "out" \in revents

HandleEvent(c) ==
  /\ pc = "handle" /\ agenda.handlers = {} /\ callback = Quiet
  /\ c \in DOMAIN active
  /\ agenda' = [of |-> c, handlers |-> {h \in Handlers : Due(h, active[c])}]
  /\ active' = [d \in DOMAIN active \ {c} |-> active[d]]
  /\ UNCHANGED <<object, owner, kernel, pc, callback, functors, batch, excused>>

\* handleEvent calls them in this order; h is next of the channel in hand.
Earlier(h) == CASE h = "close" -> {}
                [] h = "error" -> {"close"}
                [] h = "read"  -> {"close", "error"}
                [] h = "write" -> {"close", "error", "read"}
InHand(h) == h \in agenda.handlers /\ Earlier(h) \cap agenda.handlers = {}

Handle(h) ==
  /\ pc = "handle" /\ callback = Quiet /\ InHand(h)
  /\ agenda' = IF agenda.handlers = {h} THEN Idle
               ELSE [agenda EXCEPT !.handlers = @ \ {h}]
  /\ UNCHANGED <<active, batch>>

CloseHandler ==
  /\ Handle("close")
  /\ HandleClose(agenda.of)
  /\ UNCHANGED <<callback, functors, excused>>

\* SO_ERROR is reported once.
ClearError(s) ==
  socket' = IF s = NoSocket THEN socket ELSE [socket EXCEPT ![s].err = FALSE]

ErrorHandler ==
  /\ Handle("error")
  /\ ClearError(SocketOf(agenda.of))
  /\ UNCHANGED <<object, owner, interest, file, pc, callback, functors, excused>>

\* readFd returned data; it failed; it found the end of the stream.
ReadHandler ==
  LET c == agenda.of
      s == SocketOf(c)
  IN
  /\ Handle("read")
  /\ UNCHANGED <<functors, excused>>
  /\ \/ /\ s # NoSocket /\ socket[s].data
        /\ socket' = [socket EXCEPT ![s].data = FALSE]
        /\ callback' = [at |-> "message", of |-> c]
        /\ UNCHANGED <<object, owner, interest, file, pc>>
     \/ /\ IF s = NoSocket THEN TRUE
           ELSE ~socket[s].data
                /\ (socket[s].err \/ ~(socket[s].fin \/ socket[s].gone))
        /\ ClearError(s)
        /\ UNCHANGED <<object, owner, interest, file, pc, callback>>
     \/ /\ s # NoSocket
        /\ ~socket[s].data /\ ~socket[s].err /\ (socket[s].fin \/ socket[s].gone)
        /\ HandleClose(c)
        /\ UNCHANGED callback

ShutdownInLoop(c, events) ==
  socket' = IF "out" \in events \/ SocketOf(c) = NoSocket THEN socket
            ELSE [socket EXCEPT ![SocketOf(c)].shut = TRUE]

\* handleWrite: some of the output was written, or none; all of it was.  The
\* mutants disable every event, and forget the pending shutdown().
Drained_Mut(c) == SetEvents(c, {})
Drained(c) == SetEvents(c, object[c].events \ {"out"})

FinishShutdown_Mut(c) == UNCHANGED socket
FinishShutdown(c) ==
  IF object[c].state = "disconnecting"
  THEN ShutdownInLoop(c, object[c].events \ {"out"})
  ELSE UNCHANGED socket

WriteHandler ==
  LET c == agenda.of IN
  /\ Handle("write")
  /\ UNCHANGED <<owner, file, pc, callback, excused>>
  /\ \/ UNCHANGED <<object, interest, socket, functors>>
     \/ /\ "out" \in object[c].events
        /\ SocketOf(c) # NoSocket /\ ~socket[SocketOf(c)].gone
        /\ Drained(c)
        /\ functors' = Append(functors, [op |-> "complete", of |-> c])
        /\ FinishShutdown(c)

-----------------------------------------------------------------------------
(* runFunctors.                                                            *)

RunFunctors ==
  /\ pc = "handle" /\ active = <<>> /\ agenda = Idle /\ callback = Quiet
  /\ pc' = "run"
  /\ batch' = functors /\ functors' = <<>>
  /\ UNCHANGED <<object, owner, kernel, active, agenda, callback, excused>>

EndFunctors_Mut ==
  /\ pc = "run" /\ callback = Quiet
  /\ pc' = "poll"
  /\ UNCHANGED <<object, owner, kernel, active, agenda, callback, functors, batch,
                 excused>>
EndFunctors ==
  /\ pc = "run" /\ batch = <<>> /\ callback = Quiet
  /\ pc' = "poll"
  /\ UNCHANGED <<object, owner, kernel, active, agenda, callback, functors, batch,
                 excused>>

Run(op) ==
  /\ pc = "run" /\ callback = Quiet
  /\ batch # <<>> /\ Head(batch).op = op
  /\ batch' = Tail(batch)
  /\ UNCHANGED <<active, agenda, functors>>

\* createConnection with the object c, from the pool or newly made: connectReset
\* or the constructor, then connectEstablished.  The mutant leaves the
\* channel of a recycled object on its old descriptor.
Renewed_Mut(c, f) ==
  [state |-> "connected", fd |-> IF object[c].fd = NoFd THEN f ELSE object[c].fd,
   is |-> file[f], status |-> "new", events |-> {"in"}, reading |-> TRUE]
Renewed(c, f) ==
  [state |-> "connected", fd |-> f, is |-> file[f], status |-> "new",
   events |-> {"in"}, reading |-> TRUE]

Establish(c, f) ==
  /\ Update(c, Renewed(c, f))
  /\ connections' = [connections EXCEPT ![f] = c]
  /\ callback' = [at |-> "connection", of |-> c]
  /\ UNCHANGED <<file, socket, excused>>

TakesFromPool_Mut == pool' = pool
TakesFromPool == pool' = Front(pool)

CreateConnection ==
  /\ Run("create")
  /\ IF pool = <<>>
     THEN \E c \in Objects :
            /\ object[c].state = "none"
            /\ Establish(c, Head(batch).fd)
            /\ UNCHANGED <<pool, pc>>
     ELSE IF Last(pool) = NoObject
     THEN pc' = "aborted" /\ UNCHANGED <<object, owner, kernel, callback, excused>>
     ELSE /\ Establish(Last(pool), Head(batch).fd)
          /\ TakesFromPool
          /\ UNCHANGED pc

ForceCloses(c) == object[c].state \in {"connected", "disconnecting"}
ForceCloseInLoop ==
  LET c == Head(batch).of IN
  /\ Run("forceClose")
  /\ IF ForceCloses(c) THEN HandleClose(c)
     ELSE UNCHANGED <<object, owner, kernel, pc>>
  /\ UNCHANGED <<callback, excused>>

WriteComplete ==
  /\ Run("complete")
  /\ callback' = [at |-> "writeComplete", of |-> Head(batch).of]
  /\ UNCHANGED <<object, owner, kernel, pc, excused>>

-----------------------------------------------------------------------------
(* The user's code: in each callback at most one call, on the connection   *)
(* the callback is about.                                                  *)

InCallback(call) ==
  /\ callback # Quiet
  /\ call \in usage.calls[callback.at]
  /\ callback' = Quiet
  /\ UNCHANGED <<owner, file, pc, active, agenda, batch>>

CallNothing ==
  /\ callback # Quiet
  /\ callback' = Quiet
  /\ UNCHANGED <<object, owner, kernel, loopVars, excused>>

\* Output is already waiting; or the kernel takes all of it, or not all of it,
\* or the write fails.
Send ==
  LET c == callback.of IN
  /\ InCallback("send")
  /\ object[c].state = "connected"
  /\ UNCHANGED <<socket, excused>>
  /\ \/ /\ "out" \in object[c].events \/ socket[SocketOf(c)].gone
        /\ UNCHANGED <<object, interest, functors>>
     \/ /\ "out" \notin object[c].events /\ ~socket[SocketOf(c)].gone
        /\ \/ /\ functors' = Append(functors, [op |-> "complete", of |-> c])
              /\ UNCHANGED <<object, interest>>
           \/ /\ SetEvents(c, object[c].events \cup {"out"})
              /\ UNCHANGED functors

Shutdown ==
  LET c == callback.of IN
  /\ InCallback("shutdown")
  /\ object[c].state = "connected"
  /\ object' = [object EXCEPT ![c].state = "disconnecting"]
  /\ ShutdownInLoop(c, object[c].events)
  /\ UNCHANGED <<interest, functors, excused>>

ForceClose ==
  LET c == callback.of IN
  /\ InCallback("forceClose")
  /\ object[c].state \in {"connected", "disconnecting"}
  /\ object' = [object EXCEPT ![c].state = "disconnecting"]
  /\ functors' = Append(functors, [op |-> "forceClose", of |-> c])
  /\ excused' = excused \cup {object[c].is}
  /\ UNCHANGED <<interest, socket>>

\* stopReadInLoop and startReadInLoop look at reading_ and events_, not at
\* state_.
StopRead ==
  LET c == callback.of IN
  /\ InCallback("stopRead")
  /\ object[c].reading \/ "in" \in object[c].events
  /\ Update(c, [object[c] EXCEPT !.events = @ \ {"in"}, !.reading = FALSE])
  /\ UNCHANGED <<socket, functors, excused>>

StartRead ==
  LET c == callback.of IN
  /\ InCallback("startRead")
  /\ ~object[c].reading \/ "in" \notin object[c].events
  /\ Update(c, [object[c] EXCEPT !.events = @ \cup {"in"}, !.reading = TRUE])
  /\ UNCHANGED <<socket, functors, excused>>

-----------------------------------------------------------------------------

Loop ==
  \/ Poll \/ (\E c \in Objects : HandleEvent(c))
  \/ CloseHandler \/ ErrorHandler \/ ReadHandler \/ WriteHandler
  \/ RunFunctors \/ EndFunctors
  \/ CreateConnection \/ ForceCloseInLoop \/ WriteComplete
  \/ CallNothing \/ Send \/ Shutdown \/ ForceClose \/ StopRead \/ StartRead

Next ==
  /\ UNCHANGED usage
  /\ \/ Loop
     \/ \E s \in Sockets, f \in Fds : Accept(s, f)
     \/ \E s \in Sockets : PeerSend(s) \/ PeerEnd(s)

Spec == Init /\ [][Next]_vars

-----------------------------------------------------------------------------
(* Properties.                                                             *)

States == {"none", "connected", "disconnecting", "disconnected"}
Events == {"in", "out"}

\* Types; an object that was never made has touched nothing.
TypeOK ==
  /\ object \in [Objects -> [state : States, fd : Fds \cup {NoFd}, is : Sockets \cup {NoSocket},
                             status : {"new", "added", "deleted"},
                             events : SUBSET Events, reading : BOOLEAN]]
  /\ connections \in [Fds -> Objects \cup {NoObject}]
  /\ pool \in Seq(Objects \cup {NoObject})
  /\ interest \in [Fds -> [of : Objects \cup {NoObject}, events : SUBSET Events]]
  /\ file \in [Fds -> Sockets \cup {NoSocket}]
  /\ \A s \in Sockets : socket[s].phase \in {"new", "open", "closed"}
  /\ pc \in {"poll", "handle", "run", "aborted"}
  /\ pc # "handle" => active = <<>> /\ agenda = Idle
  /\ pc # "run" => batch = <<>>

Live(c) == object[c].state \in {"connected", "disconnecting"}

\* Every object is in one place: connections_ at its own descriptor while the
\* connection lives, once in the pool afterwards, never in both; the pool holds
\* no null pointer; and no assertion on state_ fails: handleClose runs on a live
\* connection.
OneHome ==
  /\ TypeOK /\ pc # "aborted"
  /\ \A c \in Objects :
       /\ Live(c) <=> \E f \in Fds : connections[f] = c
       /\ object[c].state = "disconnected" <=> c \in ToSet(pool)
  /\ \A f \in Fds : connections[f] # NoObject => object[connections[f]].fd = f
  /\ NoObject \notin ToSet(pool) /\ IsInjective(pool)

\* The epoll instance watches what the channels think it does: the descriptor
\* of a live connection with the events of its channel, and nothing else.
EpollAgrees ==
  /\ \A c \in Objects :
       Live(c) => LET w == interest[object[c].fd] IN
         IF object[c].status = "added"
         THEN w = [of |-> c, events |-> object[c].events]
         ELSE w = NoWatch /\ object[c].events = {}
  /\ \A f \in Watched : connections[f] = interest[f].of /\ interest[f].of # NoObject

\* What a live connection calls its socket is its socket, and the handlers that
\* read from it run on nothing else.
OwnSocket ==
  /\ \A c \in Objects : Live(c) => SocketOf(c) = object[c].is
  /\ InHand("error") \/ InHand("read") => SocketOf(agenda.of) = object[agenda.of].is

\* A connection that neither its peer ended nor the user forceClosed is not
\* closed by what happens to other connections.
NoCollateralClose ==
  \A s \in Sockets : socket[s].phase = "closed" => s \in excused

\* shutdown() is not forgotten: a disconnecting connection without pending
\* output has been shut down, or is being closed.
ShutdownReachesKernel ==
  \A c \in Objects :
    object[c].state = "disconnecting" /\ "out" \notin object[c].events
    => socket[object[c].is].shut \/ object[c].is \in excused

\* No descriptor leaks: epoll_wait will report, whatever happens next, a
\* connection whose peer has ended it, unless the user stopped reading from it.
EndedIsReported ==
  \A c \in Objects : LET k == socket[object[c].is] IN
    Live(c) /\ object[c].reading /\ (k.fin \/ k.gone)
    => object[c].fd \in Watched /\ Reported(object[c].fd, {}) # {}
=============================================================================
